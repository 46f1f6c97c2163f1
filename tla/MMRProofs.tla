------------------------------ MODULE MMRProofs ------------------------------
(***************************************************************************)
(* The safety of MMR for every network with at most f faulty nodes and     *)
(* every number of rounds, and its implementation of BinaryAgreement.      *)
(*                                                                         *)
(* When a value is decided in a round it equals the coin, so whoever was   *)
(* given bot takes it too and all proposals to the next round are equal;   *)
(* and a round to which equal values were proposed leads to another one.   *)
(* Of f+1 equal decisions one is that of a correct node.                   *)
(***************************************************************************)
EXTENDS MMR, FiniteSetTheorems, TLAPS

-----------------------------------------------------------------------------
(***************************************************************************)
(* The inductive invariant: the rounds.                                    *)
(***************************************************************************)
\* Decisions of crusader agreement agree, and are justified by proposals.
CrusadersAgree ==
  \A i, k \in Correct, r \in Round :
    (node[i].dec[r] \in Val /\ node[k].dec[r] \in Val) => node[i].dec[r] = node[k].dec[r]

Justified ==
  \A i \in Correct, r \in Round, v \in Val :
    node[i].dec[r] \in {v, bot} => Approvable(v, r)

\* A proposal to a later round is the outcome of the round before.
FromCoin ==
  \A i \in Correct, r \in Round :
    node[i].est[r + 1] # None =>
      /\ r \in node[i].coined /\ node[i].dec[r] # None /\ coin[r] \in Val
      /\ node[i].est[r + 1] = IF node[i].dec[r] = bot THEN coin[r] ELSE node[i].dec[r]

\* Nobody proposes anything but v to a round.
Unanimous(v, r) == \A k \in Correct : node[k].est[r] \in {None, v}

\* If they are all equal in one round they are in all later ones.
UnanimityLasts ==
  \A v \in Val, p, q \in 0 .. (MaxRound + 1) :
    (p <= q /\ Unanimous(v, p)) => Unanimous(v, q)

\* What is proposed later could be approved in the first round.
Grounded ==
  \A i \in Correct, r \in Round, v \in Val :
    node[i].est[r + 1] = v => Approvable(v, 0)

\* A node decides once, a value that it was given and that the coin confirms.
Confirmed(i, v) ==
  \E r \in Round : node[i].dec[r] = v /\ coin[r] = v
ReachedRight ==
  \A i \in Correct :
    IF node[i].hasDecided
    THEN \E v \in Val : node[i].reached = <<v>> /\ Confirmed(i, v)
    ELSE node[i].reached = <<>>

RoundInv ==
  /\ TypeOK /\ CrusadersAgree /\ Justified /\ FromCoin
  /\ UnanimityLasts /\ Grounded /\ ReachedRight

-----------------------------------------------------------------------------
(***************************************************************************)
(* The inductive invariant: the decisions.                                 *)
(***************************************************************************)
\* v was decided in the rounds of some correct node.
Decided(v) == \E k \in Correct : node[k].reached = <<v>>

\* What is counted for a correct node is its output, and outputs were decided.
OutputsDecided ==
  \A i \in Correct :
    /\ \A j \in Correct : node[i].received[j] \in {None, node[j].output}
    /\ node[i].output # None => Decided(node[i].output)

\* The gadget has adopted a value if and only if it has counted f+1.
AdoptedRight ==
  \A i \in Correct :
    \/ node[i].adopted = <<>> /\ \A v \in Val : results(node[i], v) <= F
    \/ \E v \in Val : node[i].adopted = <<v>> /\ results(node[i], v) > F /\ Decided(v)

IInv == RoundInv /\ OutputsDecided /\ AdoptedRight

-----------------------------------------------------------------------------
(***************************************************************************)
(* What the actions do to the fields of a node.                            *)
(***************************************************************************)
SameButAt(i) == \A k \in Correct \ {i} : node'[k] = node[k]

SameDecisions(s, t) ==
  t.received = s.received /\ t.adopted = s.adopted /\ t.output = s.output
SameRounds(s, t) ==
  /\ t.est = s.est /\ t.dec = s.dec /\ t.coined = s.coined
  /\ t.hasDecided = s.hasDecided /\ t.reached = s.reached

LEMMA ProposeStep ==
  ASSUME TypeOK, NEW i \in Correct, NEW v \in Val, propose(i, v)
  PROVE  LET s == node[i] t == node'[i] IN
         /\ TypeOK' /\ SameButAt(i) /\ coin' = coin /\ SameDecisions(s, t)
         /\ s.est[0] = None /\ t.est = [s.est EXCEPT ![0] = v]
         /\ t.dec = s.dec /\ t.coined = s.coined
         /\ t.hasDecided = s.hasDecided /\ t.reached = s.reached
  <1> DEFINE s == node[i]
             p == [s EXCEPT !.est = [s.est EXCEPT ![0] = v]]
  <1>1. s \in NodeState /\ node \in [Correct -> NodeState]
    BY DEF TypeOK
  <1>2. s.est[0] = None /\ node' = [node EXCEPT ![i] = p] /\ coin' = coin
    BY <1>1 DEF propose, NodeState
  <1>3. 0 \in 0 .. (MaxRound + 1)
    BY RoundsAssumption
  <1> HIDE DEF s
  <1>4. [s.est EXCEPT ![0] = v] \in [0 .. (MaxRound + 1) -> Val \cup {None}]
    BY <1>1, <1>3 DEF NodeState
  <1>5. /\ p \in NodeState /\ p.est = [s.est EXCEPT ![0] = v] /\ SameDecisions(s, p)
        /\ p.dec = s.dec /\ p.coined = s.coined
        /\ p.hasDecided = s.hasDecided /\ p.reached = s.reached
    BY <1>1, <1>4 DEF NodeState, SameDecisions
  <1> HIDE DEF p
  <1>6. node' \in [Correct -> NodeState] /\ node'[i] = p /\ SameButAt(i)
    BY <1>1, <1>2, <1>5 DEF SameButAt
  <1> QED
    BY <1>2, <1>5, <1>6 DEF TypeOK, s

LEMMA DecideStep ==
  ASSUME TypeOK, NEW i \in Correct, NEW r \in Round, NEW d \in Val \cup {bot}, decide(i, r, d)
  PROVE  LET s == node[i] t == node'[i] IN
         /\ TypeOK' /\ SameButAt(i) /\ coin' = coin /\ SameDecisions(s, t)
         /\ s.dec[r] = None /\ t.dec = [s.dec EXCEPT ![r] = d]
         /\ t.est = s.est /\ t.coined = s.coined
         /\ t.hasDecided = s.hasDecided /\ t.reached = s.reached
  <1> DEFINE s == node[i]
             p == [s EXCEPT !.dec = [s.dec EXCEPT ![r] = d]]
  <1>1. s \in NodeState /\ node \in [Correct -> NodeState]
    BY DEF TypeOK
  <1>2. s.dec[r] = None /\ node' = [node EXCEPT ![i] = p] /\ coin' = coin
    BY <1>1 DEF decide, NodeState
  <1> HIDE DEF s
  <1>3. [s.dec EXCEPT ![r] = d] \in [Round -> Val \cup {bot, None}]
    BY <1>1 DEF NodeState
  <1>4. /\ p \in NodeState /\ p.dec = [s.dec EXCEPT ![r] = d] /\ SameDecisions(s, p)
        /\ p.est = s.est /\ p.coined = s.coined
        /\ p.hasDecided = s.hasDecided /\ p.reached = s.reached
    BY <1>1, <1>3 DEF NodeState, SameDecisions
  <1> HIDE DEF p
  <1>5. node' \in [Correct -> NodeState] /\ node'[i] = p /\ SameButAt(i)
    BY <1>1, <1>2, <1>4 DEF SameButAt
  <1> QED
    BY <1>2, <1>4, <1>5 DEF TypeOK, s

LEMMA CoinStep ==
  ASSUME TypeOK, NEW i \in Correct, NEW r \in Round, NEW c \in Val, submitCoin(i, r, c)
  PROVE  LET s == node[i] t == node'[i] IN
         /\ TypeOK' /\ SameButAt(i) /\ SameDecisions(s, t)
         /\ coin[r] \in {None, c} /\ coin' = [coin EXCEPT ![r] = c]
         /\ s.dec[r] # None /\ r \notin s.coined
         /\ t.dec = s.dec /\ t.coined = s.coined \cup {r}
         /\ \/ /\ s.dec[r] = c /\ ~s.hasDecided /\ t.hasDecided
               /\ t.reached = Append(s.reached, c) /\ t.est = s.est
            \/ /\ t.est = [s.est EXCEPT ![r + 1] = IF s.dec[r] = bot THEN c ELSE s.dec[r]]
               /\ t.hasDecided = s.hasDecided /\ t.reached = s.reached
  <1> DEFINE s == node[i]
             e == IF s.dec[r] = bot THEN c ELSE s.dec[r]
             m == conclude(s, r, execRound(s.dec[r], c))
             p == [m EXCEPT !.coined = @ \cup {r}]
  <1>1. s \in NodeState /\ node \in [Correct -> NodeState]
    BY DEF TypeOK
  <1>2. /\ s.dec[r] # None /\ r \notin s.coined /\ coin[r] \in {None, c}
        /\ coin' = [coin EXCEPT ![r] = c] /\ node' = [node EXCEPT ![i] = p]
    BY DEF submitCoin
  <1> HIDE DEF s
  <1>3. s.dec[r] \in Val \cup {bot} /\ e \in Val
    BY <1>1, <1>2 DEF NodeState
  <1>4. execRound(s.dec[r], c).estimate = e /\ execRound(s.dec[r], c).decided = (s.dec[r] = c)
    BY DEF execRound
  <1>5. /\ m \in NodeState /\ SameDecisions(s, m) /\ m.dec = s.dec /\ m.coined = s.coined
        /\ \/ /\ s.dec[r] = c /\ ~s.hasDecided /\ m.hasDecided
              /\ m.reached = Append(s.reached, c) /\ m.est = s.est
           \/ /\ m.est = [s.est EXCEPT ![r + 1] = e]
              /\ m.hasDecided = s.hasDecided /\ m.reached = s.reached
    <2>1. CASE s.dec[r] = c /\ ~s.hasDecided
      <3>1. e = c
        BY <2>1 DEF Val, bot
      <3>2. m = [s EXCEPT !.hasDecided = TRUE, !.reached = Append(s.reached, c)]
        BY <1>1, <1>4, <2>1, <3>1 DEF conclude, NodeState
      <3>3. Append(s.reached, c) \in Seq(Val)
        BY <1>1 DEF NodeState
      <3> QED
        BY <1>1, <2>1, <3>2, <3>3 DEF NodeState, SameDecisions
    <2>2. CASE ~(s.dec[r] = c /\ ~s.hasDecided)
      <3>1. m = [s EXCEPT !.est = [s.est EXCEPT ![r + 1] = e]]
        BY <1>1, <1>4, <2>2 DEF conclude, NodeState
      <3>2. r + 1 \in 0 .. (MaxRound + 1)
        BY RoundsAssumption DEF Round
      <3> HIDE DEF e
      <3>3. [s.est EXCEPT ![r + 1] = e] \in [0 .. (MaxRound + 1) -> Val \cup {None}]
        BY <1>1, <1>3, <3>2 DEF NodeState
      <3> HIDE DEF m
      <3> QED
        BY <1>1, <3>1, <3>3 DEF NodeState, SameDecisions
    <2> QED
      BY <2>1, <2>2
  <1> HIDE DEF m, e
  <1>6. /\ p \in NodeState /\ p.coined = s.coined \cup {r} /\ SameDecisions(s, p)
        /\ p.dec = m.dec /\ p.est = m.est /\ p.hasDecided = m.hasDecided /\ p.reached = m.reached
    BY <1>1, <1>5 DEF NodeState, SameDecisions
  <1> HIDE DEF p
  <1>7. node' \in [Correct -> NodeState] /\ node'[i] = p /\ SameButAt(i)
    BY <1>1, <1>2, <1>6 DEF SameButAt
  <1>8. coin' \in [Round -> Val \cup {None}]
    BY <1>2 DEF TypeOK
  <1> QED
    BY <1>2, <1>5, <1>6, <1>7, <1>8 DEF TypeOK, s, e

LEMMA ReachStep ==
  ASSUME TypeOK, NEW i \in Correct, NEW v \in Val, reachDecision(i, v)
  PROVE  LET s == node[i] t == node'[i] IN
         /\ TypeOK' /\ SameButAt(i) /\ coin' = coin /\ SameRounds(s, t)
         /\ s.output = None /\ t.output = v
         /\ (s.reached # <<>> /\ v = Head(s.reached)) \/ (s.adopted # <<>> /\ v = Head(s.adopted))
         /\ t.received = s.received /\ t.adopted = s.adopted
  <1> DEFINE s == node[i]
             p == [s EXCEPT !.output = v]
  <1>1. s \in NodeState /\ node \in [Correct -> NodeState]
    BY DEF TypeOK
  <1>2. /\ s.output = None /\ node' = [node EXCEPT ![i] = p] /\ coin' = coin
        /\ (s.reached # <<>> /\ v = Head(s.reached)) \/ (s.adopted # <<>> /\ v = Head(s.adopted))
    BY DEF reachDecision
  <1> HIDE DEF s
  <1>3. /\ p \in NodeState /\ p.output = v /\ SameRounds(s, p)
        /\ p.received = s.received /\ p.adopted = s.adopted
    BY <1>1 DEF NodeState, SameRounds
  <1> HIDE DEF p
  <1>4. node' \in [Correct -> NodeState] /\ node'[i] = p /\ SameButAt(i)
    BY <1>1, <1>2, <1>3 DEF SameButAt
  <1> QED
    BY <1>2, <1>3, <1>4 DEF TypeOK, s

LEMMA DecisionSubmitStep ==
  ASSUME TypeOK, NEW i \in Correct, NEW j \in Nodes, NEW v \in Val, submitDecision(i, j, v)
  PROVE  LET s == node[i] t == node'[i] IN
         /\ TypeOK' /\ SameButAt(i) /\ coin' = coin /\ SameRounds(s, t)
         /\ s.received[j] = None /\ (j \in Correct => node[j].output = v)
         /\ t.received = [s.received EXCEPT ![j] = v] /\ t.output = s.output
         /\ t.adopted = IF results(t, v) = F + 1 THEN Append(s.adopted, v) ELSE s.adopted
  <1> DEFINE s == node[i]
             m == [s EXCEPT !.received = [s.received EXCEPT ![j] = v]]
             p == adopt(m, v)
  <1>1. s \in NodeState /\ node \in [Correct -> NodeState]
    BY DEF TypeOK
  <1>2. /\ s.received[j] = None /\ node' = [node EXCEPT ![i] = p] /\ coin' = coin
        /\ j \in Correct => node[j].output = v
    BY <1>1 DEF submitDecision, NodeState
  <1> HIDE DEF s
  <1>3. [s.received EXCEPT ![j] = v] \in [Nodes -> Val \cup {None}]
    BY <1>1 DEF NodeState
  <1>4. /\ m \in NodeState /\ SameRounds(s, m) /\ m.output = s.output /\ m.adopted = s.adopted
        /\ m.received = [s.received EXCEPT ![j] = v]
    BY <1>1, <1>3 DEF NodeState, SameRounds
  <1> HIDE DEF m
  <1>5. p = IF results(m, v) = F + 1 THEN [m EXCEPT !.adopted = Append(m.adopted, v)] ELSE m
    BY <1>4 DEF adopt, NodeState
  <1>6. Append(m.adopted, v) \in Seq(Val)
    BY <1>4 DEF NodeState
  <1>7. /\ p \in NodeState /\ SameRounds(m, p) /\ p.output = m.output /\ p.received = m.received
        /\ p.adopted = IF results(m, v) = F + 1 THEN Append(m.adopted, v) ELSE m.adopted
    <2> HIDE DEF p
    <2>1. CASE results(m, v) = F + 1
      <3>1. p = [m EXCEPT !.adopted = Append(m.adopted, v)]
        BY <1>5, <2>1
      <3> QED
        BY <1>4, <1>6, <2>1, <3>1 DEF NodeState, SameRounds
    <2>2. CASE results(m, v) # F + 1
      BY <1>4, <1>5, <2>2 DEF SameRounds
    <2> QED
      BY <2>1, <2>2
  <1> HIDE DEF p
  <1>8. results(p, v) = results(m, v)
    BY <1>7 DEF results
  <1>9. node' \in [Correct -> NodeState] /\ node'[i] = p /\ SameButAt(i)
    BY <1>1, <1>2, <1>7 DEF SameButAt
  <1> QED
    BY <1>2, <1>4, <1>7, <1>8, <1>9 DEF TypeOK, s, SameRounds

-----------------------------------------------------------------------------
(***************************************************************************)
(* The rounds keep their invariant.                                        *)
(***************************************************************************)
\* Proposals stay.
ProposalsStay ==
  \A k \in Correct, q \in 0 .. (MaxRound + 1) :
    node[k].est[q] # None => node'[k].est[q] = node[k].est[q]

LEMMA StillApprovable ==
  ASSUME ProposalsStay, NEW v \in Val, NEW q \in 0 .. (MaxRound + 1), Approvable(v, q)
  PROVE  Approvable(v, q)'
  <1>1. Proposers(v, q) \subseteq Proposers(v, q)'
    BY NoneAssumption DEF ProposalsStay, Proposers
  <1>2. Proposers(v, q)' \subseteq Nodes
    BY DEF Proposers, Correct
  <1>3. IsFiniteSet(Proposers(v, q)')
    BY <1>2, NodesAssumption, FS_Subset
  <1>4. /\ Cardinality(Proposers(v, q)) <= Cardinality(Proposers(v, q)')
        /\ IsFiniteSet(Proposers(v, q))
    BY <1>1, <1>3, FS_Subset
  <1>5. /\ Cardinality(Proposers(v, q)) \in Nat /\ Cardinality(Proposers(v, q)') \in Nat
        /\ Cardinality(Faulty) \in Nat /\ F \in Nat
    BY <1>3, <1>4, FS_CardinalityType, FS_Subset, NodesAssumption, ThresholdAssumption
  <1> QED
    BY <1>1, <1>4, <1>5 DEF Approvable

LEMMA StillUnanimous ==
  ASSUME ProposalsStay, NEW v \in Val, NEW q \in 0 .. (MaxRound + 1), Unanimous(v, q)'
  PROVE  Unanimous(v, q)
  BY DEF ProposalsStay, Unanimous

LEMMA RoundInvInit == Init => RoundInv
  <1> SUFFICES ASSUME Init
               PROVE  RoundInv
    OBVIOUS
  <1>1. newMMR \in NodeState
    <2>1. <<>> \in Seq(Val)
      OBVIOUS
    <2> QED
      BY <2>1 DEF newMMR, NodeState
  <1>2. TypeOK
    BY <1>1 DEF Init, TypeOK
  <1>3. \A i \in Correct :
          /\ \A q \in 0 .. (MaxRound + 1) : node[i].est[q] = None
          /\ \A r \in Round : node[i].dec[r] = None
          /\ ~node[i].hasDecided /\ node[i].reached = <<>>
    BY DEF Init, newMMR
  <1>4. \A r \in Round : r + 1 \in 0 .. (MaxRound + 1)
    BY RoundsAssumption DEF Round
  <1>5. CrusadersAgree /\ Justified
    BY <1>3, NoneAssumption DEF CrusadersAgree, Justified
  <1>6. FromCoin /\ Grounded
    BY <1>3, <1>4, NoneAssumption DEF FromCoin, Grounded
  <1>7. UnanimityLasts
    BY <1>3 DEF UnanimityLasts, Unanimous
  <1>8. ReachedRight
    BY <1>3 DEF ReachedRight
  <1> QED
    BY <1>2, <1>5, <1>6, <1>7, <1>8 DEF RoundInv

LEMMA ProposeRound ==
  ASSUME RoundInv, NEW i \in Correct, NEW v \in Val, propose(i, v)
  PROVE  RoundInv'
  <1> DEFINE s == node[i]
             t == node'[i]
  <1>0. TypeOK
    BY DEF RoundInv
  <1>1. /\ TypeOK' /\ SameButAt(i) /\ coin' = coin
        /\ s.est[0] = None /\ t.est = [s.est EXCEPT ![0] = v]
        /\ t.dec = s.dec /\ t.coined = s.coined
        /\ t.hasDecided = s.hasDecided /\ t.reached = s.reached
    BY <1>0, ProposeStep
  <1>2. s.est \in [0 .. (MaxRound + 1) -> Val \cup {None}]
    BY <1>0 DEF TypeOK, NodeState
  <1>3. /\ t.est[0] = v
        /\ \A q \in 0 .. (MaxRound + 1) : q # 0 => t.est[q] = s.est[q]
    BY <1>1, <1>2, RoundsAssumption
  <1>4. /\ ProposalsStay
        /\ \A k \in Correct, q \in 0 .. (MaxRound + 1) : q # 0 => node'[k].est[q] = node[k].est[q]
    BY <1>1, <1>3 DEF ProposalsStay, SameButAt
  <1>5. /\ \A k \in Correct : /\ node'[k].dec = node[k].dec /\ node'[k].coined = node[k].coined
                              /\ node'[k].hasDecided = node[k].hasDecided
                              /\ node'[k].reached = node[k].reached
        /\ \A r \in Round : r + 1 \in 0 .. (MaxRound + 1) /\ r + 1 # 0 /\ r \in 0 .. (MaxRound + 1)
        /\ 0 \in 0 .. (MaxRound + 1)
    BY <1>1, RoundsAssumption DEF SameButAt, Round
  <1> HIDE DEF s, t
  <1>6. CrusadersAgree'
    BY <1>5 DEF RoundInv, CrusadersAgree
  <1>7. Justified'
    BY <1>4, <1>5, StillApprovable DEF RoundInv, Justified
  <1>8. FromCoin'
    BY <1>1, <1>4, <1>5 DEF RoundInv, FromCoin
  <1>9. UnanimityLasts'
    <2> SUFFICES ASSUME NEW w \in Val, NEW p \in 0 .. (MaxRound + 1), NEW q \in 0 .. (MaxRound + 1),
                        p <= q, Unanimous(w, p)'
                 PROVE  Unanimous(w, q)'
      BY DEF UnanimityLasts
    <2>1. CASE q = 0
      <3>1. p = q
        BY <2>1
      <3> QED
        BY <3>1
    <2>2. CASE q # 0
      <3>1. Unanimous(w, p)
        BY <1>4, StillUnanimous
      <3>2. Unanimous(w, q)
        BY <3>1 DEF RoundInv, UnanimityLasts
      <3> QED
        BY <1>4, <2>2, <3>2 DEF Unanimous
    <2> QED
      BY <2>1, <2>2
  <1>10. Grounded'
    BY <1>4, <1>5, StillApprovable DEF RoundInv, Grounded
  <1>11. ReachedRight'
    BY <1>1, <1>5 DEF RoundInv, ReachedRight, Confirmed
  <1> QED
    BY <1>1, <1>6, <1>7, <1>8, <1>9, <1>10, <1>11 DEF RoundInv

LEMMA DecideRound ==
  ASSUME RoundInv, NEW i \in Correct, NEW r \in Round, NEW d \in Val \cup {bot}, decide(i, r, d)
  PROVE  RoundInv'
  <1> DEFINE s == node[i]
             t == node'[i]
  <1>0. TypeOK
    BY DEF RoundInv
  <1>1. /\ TypeOK' /\ SameButAt(i) /\ coin' = coin
        /\ s.dec[r] = None /\ t.dec = [s.dec EXCEPT ![r] = d]
        /\ t.est = s.est /\ t.coined = s.coined
        /\ t.hasDecided = s.hasDecided /\ t.reached = s.reached
    BY <1>0, DecideStep
  <1>2. s.dec \in [Round -> Val \cup {bot, None}]
    BY <1>0 DEF TypeOK, NodeState
  <1>3. /\ node'[i].dec[r] = d /\ node[i].dec[r] = None
        /\ \A k \in Correct, q \in Round : (k # i \/ q # r) => node'[k].dec[q] = node[k].dec[q]
    BY <1>1, <1>2 DEF SameButAt
  <1>4. /\ \A k \in Correct : /\ node'[k].est = node[k].est /\ node'[k].coined = node[k].coined
                              /\ node'[k].hasDecided = node[k].hasDecided
                              /\ node'[k].reached = node[k].reached
        /\ ProposalsStay
    BY <1>1 DEF SameButAt, ProposalsStay
  <1>5. \A v \in Val, q \in Nat : Approvable(v, q)' <=> Approvable(v, q)
    BY <1>4 DEF Approvable, Proposers
  <1>6. /\ d \in Val => \A k \in Correct : node[k].dec[r] # 1 - d
        /\ \A v \in Val : d \in {v, bot} => Approvable(v, r)
    BY DEF decide, Val, bot
  <1> HIDE DEF s, t
  <1>7. \A q \in Round : q \in Nat
    BY DEF Round
  <1>8. CrusadersAgree'
    <2>1. \A v, w \in Val : w # 1 - v => w = v
      BY DEF Val
    <2> QED
      BY <1>3, <1>6, <2>1 DEF RoundInv, CrusadersAgree
  <1>9. Justified'
    BY <1>3, <1>5, <1>6, <1>7 DEF RoundInv, Justified
  <1>10. FromCoin'
    <2> SUFFICES ASSUME NEW k \in Correct, NEW q \in Round, node[k].est[q + 1] # None
                 PROVE  /\ q \in node[k].coined /\ node'[k].dec[q] # None /\ coin[q] \in Val
                        /\ node[k].est[q + 1] = IF node'[k].dec[q] = bot THEN coin[q]
                                                ELSE node'[k].dec[q]
      BY <1>1, <1>4 DEF FromCoin
    <2>1. node[k].dec[q] # None
      BY DEF RoundInv, FromCoin
    <2>2. node'[k].dec[q] = node[k].dec[q]
      BY <1>3, <2>1
    <2> QED
      BY <2>2 DEF RoundInv, FromCoin
  <1>11. UnanimityLasts'
    BY <1>4 DEF RoundInv, UnanimityLasts, Unanimous
  <1>12. Grounded'
    BY <1>4, <1>5 DEF RoundInv, Grounded
  <1>13. ReachedRight'
    <2>1. ASSUME NEW k \in Correct, NEW v \in Val, Confirmed(k, v)
          PROVE  Confirmed(k, v)'
      BY <1>1, <1>3, <2>1, NoneAssumption DEF Confirmed
    <2> QED
      BY <1>4, <2>1 DEF RoundInv, ReachedRight
  <1> QED
    BY <1>1, <1>8, <1>9, <1>10, <1>11, <1>12, <1>13 DEF RoundInv

LEMMA CoinRound ==
  ASSUME RoundInv, NEW i \in Correct, NEW r \in Round, NEW c \in Val, submitCoin(i, r, c)
  PROVE  RoundInv'
  <1> DEFINE s == node[i]
             t == node'[i]
             e == IF s.dec[r] = bot THEN c ELSE s.dec[r]
  <1>0. TypeOK
    BY DEF RoundInv
  <1>1. /\ TypeOK' /\ SameButAt(i)
        /\ coin[r] \in {None, c} /\ coin' = [coin EXCEPT ![r] = c]
        /\ s.dec[r] # None /\ r \notin s.coined
        /\ t.dec = s.dec /\ t.coined = s.coined \cup {r}
        /\ \/ /\ s.dec[r] = c /\ ~s.hasDecided /\ t.hasDecided
              /\ t.reached = Append(s.reached, c) /\ t.est = s.est
           \/ /\ t.est = [s.est EXCEPT ![r + 1] = e]
              /\ t.hasDecided = s.hasDecided /\ t.reached = s.reached
    BY <1>0, CoinStep
  <1>2. /\ s.est \in [0 .. (MaxRound + 1) -> Val \cup {None}]
        /\ s.dec \in [Round -> Val \cup {bot, None}] /\ coin \in [Round -> Val \cup {None}]
    BY <1>0 DEF TypeOK, NodeState
  <1>3. /\ \A q \in Round : q \in Nat /\ q + 1 \in 0 .. (MaxRound + 1) /\ q \in 0 .. (MaxRound + 1)
        /\ 0 \in 0 .. (MaxRound + 1)
    BY RoundsAssumption DEF Round
  <1>4. s.est[r + 1] = None
    BY <1>1 DEF RoundInv, FromCoin
  <1>5. e \in Val /\ e # None
    BY <1>1, <1>2, NoneAssumption
  <1>6. /\ t.est[r + 1] \in {None, e}
        /\ \A q \in 0 .. (MaxRound + 1) : q # r + 1 => t.est[q] = s.est[q]
    BY <1>1, <1>2, <1>3, <1>4
  <1>7. /\ coin'[r] = c
        /\ \A q \in Round : coin[q] # None => coin'[q] = coin[q]
    BY <1>1, <1>2
  <1>8. /\ \A k \in Correct : node'[k].dec = node[k].dec /\ node[k].coined \subseteq node'[k].coined
        /\ \A k \in Correct, q \in 0 .. (MaxRound + 1) :
             (k # i \/ q # r + 1) => node'[k].est[q] = node[k].est[q]
        /\ r \in node'[i].coined /\ node'[i].est[r + 1] \in {None, e}
        /\ node[i].est[r + 1] = None
    BY <1>1, <1>4, <1>6 DEF SameButAt
  <1>9. ProposalsStay
    BY <1>8 DEF ProposalsStay
  <1>10. Justified'
    BY <1>3, <1>8, <1>9, StillApprovable DEF RoundInv, Justified
  <1>11. CrusadersAgree'
    BY <1>8 DEF RoundInv, CrusadersAgree
  <1>12. ReachedRight'
    <2>1. ASSUME NEW k \in Correct, NEW v \in Val, Confirmed(k, v)
          PROVE  Confirmed(k, v)'
      BY <1>7, <1>8, <2>1, NoneAssumption DEF Confirmed
    <2>2. CASE t.hasDecided = s.hasDecided /\ t.reached = s.reached
      BY <1>1, <2>1, <2>2 DEF RoundInv, ReachedRight, SameButAt
    <2>3. CASE /\ s.dec[r] = c /\ ~s.hasDecided /\ t.hasDecided
               /\ t.reached = Append(s.reached, c)
      <3>1. s.reached = <<>>
        BY <2>3 DEF RoundInv, ReachedRight
      <3>2. t.reached = <<c>>
        BY <2>3, <3>1
      <3>3. Confirmed(i, c)'
        BY <1>7, <1>8, <2>3 DEF Confirmed
      <3> QED
        BY <1>1, <2>1, <2>3, <3>2, <3>3 DEF RoundInv, ReachedRight, SameButAt
    <2> QED
      BY <1>1, <2>2, <2>3
  <1>13. FromCoin'
    <2> SUFFICES ASSUME NEW k \in Correct, NEW q \in Round, node'[k].est[q + 1] # None
                 PROVE  /\ q \in node'[k].coined /\ node[k].dec[q] # None /\ coin'[q] \in Val
                        /\ node'[k].est[q + 1] = IF node[k].dec[q] = bot THEN coin'[q]
                                                 ELSE node[k].dec[q]
      BY <1>8 DEF FromCoin
    <2>1. CASE k = i /\ q = r
      BY <1>1, <1>7, <1>8, <2>1
    <2>2. CASE k # i \/ q # r
      <3>1. node'[k].est[q + 1] = node[k].est[q + 1]
        BY <1>3, <1>8, <2>2
      <3>2. /\ q \in node[k].coined /\ node[k].dec[q] # None /\ coin[q] \in Val
            /\ node[k].est[q + 1] = IF node[k].dec[q] = bot THEN coin[q] ELSE node[k].dec[q]
        BY <3>1 DEF RoundInv, FromCoin
      <3>3. coin'[q] = coin[q]
        BY <1>7, <3>2, NoneAssumption
      <3> QED
        BY <1>8, <3>1, <3>2, <3>3
    <2> QED
      BY <2>1, <2>2
  <1>14. Approvable(e, r)
    BY <1>1, <1>2, <1>5 DEF RoundInv, Justified
  <1> HIDE DEF e, s, t
  <1>15. UnanimityLasts'
    <2> SUFFICES ASSUME NEW w \in Val, NEW p \in 0 .. (MaxRound + 1), NEW q \in 0 .. (MaxRound + 1),
                        p <= q, Unanimous(w, p)'
                 PROVE  Unanimous(w, q)'
      BY DEF UnanimityLasts
    <2>1. Unanimous(w, p)
      BY <1>9, StillUnanimous
    <2>2. Unanimous(w, q)
      BY <2>1 DEF RoundInv, UnanimityLasts
    <2>3. CASE q # r + 1
      BY <1>8, <2>2, <2>3 DEF Unanimous
    <2>4. CASE p = q
      BY <2>4
    <2>5. CASE q = r + 1 /\ p # q
      <3>1. p <= r
        BY <1>3, <2>5
      <3>2. Unanimous(w, r)
        BY <1>3, <2>1, <3>1 DEF RoundInv, UnanimityLasts
      <3>3. e = w
        BY <1>5, <1>14, <3>2 DEF Approvable, Proposers, Unanimous
      <3> QED
        BY <1>8, <2>2, <2>5, <3>3 DEF Unanimous
    <2> QED
      BY <2>3, <2>4, <2>5
  <1>16. Approvable(e, 0)
    <2>1. CASE r # 0
      <3>1. PICK k \in Correct : node[k].est[r] = e
        BY <1>14 DEF Approvable, Proposers
      <3>2. r - 1 \in Round /\ (r - 1) + 1 = r
        BY <2>1, RoundsAssumption DEF Round
      <3> QED
        BY <1>5, <3>1, <3>2 DEF RoundInv, Grounded
    <2> QED
      BY <1>14, <2>1
  <1>17. Grounded'
    <2> SUFFICES ASSUME NEW k \in Correct, NEW q \in Round, NEW v \in Val, node'[k].est[q + 1] = v
                 PROVE  Approvable(v, 0)'
      BY DEF Grounded
    <2>1. CASE k = i /\ q = r
      <3>1. v = e
        BY <1>8, <2>1, NoneAssumption
      <3>2. Approvable(v, 0)
        BY <1>16, <3>1
      <3> QED
        BY <1>3, <1>9, <3>2, StillApprovable
    <2>2. CASE k # i \/ q # r
      <3>1. node[k].est[q + 1] = v
        BY <1>3, <1>8, <2>2
      <3>2. Approvable(v, 0)
        BY <3>1 DEF RoundInv, Grounded
      <3> QED
        BY <1>3, <1>9, <3>2, StillApprovable
    <2> QED
      BY <2>1, <2>2
  <1> QED
    BY <1>1, <1>10, <1>11, <1>12, <1>13, <1>15, <1>17 DEF RoundInv

\* Steps that leave the rounds alone.
LEMMA QuietRounds ==
  ASSUME RoundInv, TypeOK', coin' = coin, \A k \in Correct : SameRounds(node[k], node'[k])
  PROVE  RoundInv'
  <1>1. \A k \in Correct :
          /\ node'[k].est = node[k].est /\ node'[k].dec = node[k].dec
          /\ node'[k].coined = node[k].coined
          /\ node'[k].hasDecided = node[k].hasDecided /\ node'[k].reached = node[k].reached
    BY DEF SameRounds
  <1>2. \A v \in Val, r \in Nat : Approvable(v, r)' <=> Approvable(v, r)
    BY <1>1 DEF Approvable, Proposers
  <1>3. \A r \in Round : r \in Nat
    BY DEF Round
  <1>4. CrusadersAgree' /\ Justified'
    BY <1>1, <1>2, <1>3 DEF RoundInv, CrusadersAgree, Justified
  <1>5. FromCoin' /\ Grounded'
    BY <1>1, <1>2 DEF RoundInv, FromCoin, Grounded
  <1>6. UnanimityLasts'
    BY <1>1 DEF RoundInv, UnanimityLasts, Unanimous
  <1>7. ReachedRight'
    BY <1>1 DEF RoundInv, ReachedRight, Confirmed
  <1> QED
    BY <1>4, <1>5, <1>6, <1>7 DEF RoundInv

-----------------------------------------------------------------------------
(***************************************************************************)
(* What the rounds promise.                                                *)
(***************************************************************************)
LEMMA NextUnanimous ==
  ASSUME RoundInv, NEW i \in Correct, NEW r \in Round, node[i].dec[r] \in Val,
         node[i].dec[r] = coin[r]
  PROVE  \A q \in (r + 1) .. (MaxRound + 1) : Unanimous(coin[r], q)
  <1>1. Unanimous(coin[r], r + 1)
    <2> SUFFICES ASSUME NEW k \in Correct, node[k].est[r + 1] # None
                 PROVE  node[k].est[r + 1] = coin[r]
      BY DEF Unanimous
    <2>1. /\ node[k].dec[r] # None
          /\ node[k].est[r + 1] = IF node[k].dec[r] = bot THEN coin[r] ELSE node[k].dec[r]
      BY DEF RoundInv, FromCoin
    <2>2. node[k].dec[r] \in Val \cup {bot, None}
      BY DEF RoundInv, TypeOK, NodeState
    <2> QED
      BY <2>1, <2>2 DEF RoundInv, CrusadersAgree
  <1>2. r + 1 \in 0 .. (MaxRound + 1)
    BY RoundsAssumption DEF Round
  <1>3. \A q \in (r + 1) .. (MaxRound + 1) : q \in 0 .. (MaxRound + 1) /\ r + 1 <= q
    BY RoundsAssumption DEF Round
  <1> QED
    BY <1>1, <1>2, <1>3 DEF RoundInv, UnanimityLasts

LEMMA Locked == RoundInv => EstimatesLocked
  BY NextUnanimous DEF EstimatesLocked, Unanimous

\* Two confirmed values are equal, whichever round they are from.
LEMMA ConfirmedOnce ==
  ASSUME RoundInv, NEW i \in Correct, NEW k \in Correct, NEW v \in Val, NEW w \in Val,
         Confirmed(i, v), Confirmed(k, w)
  PROVE  v = w
  <1>1. PICK r \in Round : node[i].dec[r] = v /\ coin[r] = v
    BY DEF Confirmed
  <1>2. PICK q \in Round : node[k].dec[q] = w /\ coin[q] = w
    BY DEF Confirmed
  <1>3. ASSUME NEW a \in Correct, NEW x \in Val, NEW m \in Round, node[a].dec[m] = x, coin[m] = x,
               NEW b \in Correct, NEW y \in Val, NEW n \in Round, node[b].dec[n] = y, m < n
        PROVE  x = y
    <2>1. n \in (m + 1) .. (MaxRound + 1)
      BY <1>3, RoundsAssumption DEF Round
    <2>2. Unanimous(x, n)
      BY <1>3, <2>1, NextUnanimous
    <2>3. Approvable(y, n)
      BY <1>3 DEF RoundInv, Justified
    <2> QED
      BY <2>2, <2>3, NoneAssumption DEF Approvable, Proposers, Unanimous
  <1>4. r < q \/ q < r \/ r = q
    BY RoundsAssumption DEF Round
  <1> QED
    BY <1>1, <1>2, <1>3, <1>4

LEMMA DecidedConfirmed ==
  ASSUME RoundInv, NEW v \in Val, Decided(v)
  PROVE  \E k \in Correct : Confirmed(k, v)
  <1>1. PICK k \in Correct : node[k].reached = <<v>>
    BY DEF Decided
  <1>2. node[k].hasDecided
    <2>1. <<v>> # <<>>
      OBVIOUS
    <2> QED
      BY <1>1, <2>1, Zenon DEF RoundInv, ReachedRight
  <1>3. PICK w \in Val : node[k].reached = <<w>> /\ Confirmed(k, w)
    BY <1>2 DEF RoundInv, ReachedRight
  <1>4. w = v
    BY <1>1, <1>3
  <1> QED
    BY <1>3, <1>4

LEMMA DecidedOnce ==
  ASSUME RoundInv, NEW v \in Val, NEW w \in Val, Decided(v), Decided(w)
  PROVE  v = w
  BY DecidedConfirmed, ConfirmedOnce

LEMMA DecidedApprovable ==
  ASSUME RoundInv, NEW v \in Val, Decided(v)
  PROVE  Approvable(v, 0)
  <1>1. PICK k \in Correct : Confirmed(k, v)
    BY DecidedConfirmed
  <1>2. PICK r \in Round : node[k].dec[r] = v
    BY <1>1 DEF Confirmed
  <1>3. Approvable(v, r)
    BY <1>2 DEF RoundInv, Justified
  <1>4. CASE r # 0
    <2>1. PICK l \in Correct : node[l].est[r] = v
      BY <1>3 DEF Approvable, Proposers
    <2>2. r - 1 \in Round /\ (r - 1) + 1 = r
      BY <1>4, RoundsAssumption DEF Round
    <2> QED
      BY <2>1, <2>2 DEF RoundInv, Grounded
  <1> QED
    BY <1>3, <1>4

-----------------------------------------------------------------------------
(***************************************************************************)
(* Counting decisions.                                                     *)
(***************************************************************************)
LEMMA CountOne ==
  ASSUME NEW s \in NodeState, NEW t \in NodeState, NEW j \in Nodes, NEW v \in Val,
         s.received[j] = None, t.received = [s.received EXCEPT ![j] = v]
  PROVE  /\ results(s, v) \in Nat /\ results(t, v) = results(s, v) + 1
         /\ \A w \in Val : w # v => results(t, w) = results(s, w)
  <1> DEFINE S(u, w) == {k \in Nodes : u.received[k] = w}
  <1>1. s.received \in [Nodes -> Val \cup {None}]
    BY DEF NodeState
  <1>2. S(t, v) = S(s, v) \cup {j} /\ j \notin S(s, v)
    BY <1>1, NoneAssumption
  <1>3. \A w \in Val : w # v => S(t, w) = S(s, w)
    BY <1>1, NoneAssumption
  <1>4. IsFiniteSet(S(s, v))
    BY NodesAssumption, FS_Subset
  <1>5. Cardinality(S(s, v)) \in Nat /\ Cardinality(S(t, v)) = Cardinality(S(s, v)) + 1
    BY <1>2, <1>4, FS_AddElement, FS_CardinalityType
  <1> QED
    BY <1>3, <1>5 DEF results

\* More than f equal decisions are not all from faulty nodes.
LEMMA CorrectAmong ==
  ASSUME NEW s \in NodeState, NEW v \in Val, results(s, v) > F
  PROVE  \E j \in Correct : s.received[j] = v
  <1> DEFINE S == {k \in Nodes : s.received[k] = v}
  <1>1. IsFiniteSet(S) /\ IsFiniteSet(Faulty)
    BY NodesAssumption, FS_Subset
  <1>2. /\ Cardinality(S) \in Nat /\ Cardinality(Faulty) \in Nat
    BY <1>1, FS_CardinalityType
  <1>3. ASSUME S \subseteq Faulty
        PROVE  FALSE
    <2>1. Cardinality(S) <= Cardinality(Faulty)
      BY <1>1, <1>3, FS_Subset
    <2> QED
      BY <2>1, <1>2, ThresholdAssumption DEF results
  <1> QED
    BY <1>3 DEF Correct

-----------------------------------------------------------------------------
(***************************************************************************)
(* The invariant is inductive.                                             *)
(***************************************************************************)
LEMMA InitInv == Init => IInv
  <1> SUFFICES ASSUME Init
               PROVE  IInv
    OBVIOUS
  <1>1. \A i \in Correct :
          /\ \A j \in Nodes : node[i].received[j] = None
          /\ node[i].output = None /\ node[i].adopted = <<>>
    BY DEF Init, newMMR
  <1>2. ASSUME NEW i \in Correct, NEW v \in Val
        PROVE  results(node[i], v) <= F
    <2>1. {j \in Nodes : node[i].received[j] = v} = {}
      BY <1>1, NoneAssumption
    <2> QED
      BY <2>1, FS_EmptySet, ThresholdAssumption DEF results
  <1>3. OutputsDecided
    BY <1>1 DEF OutputsDecided, Correct
  <1>4. AdoptedRight
    BY <1>1, <1>2 DEF AdoptedRight
  <1> QED
    BY <1>3, <1>4, RoundInvInit DEF IInv

\* Steps of the rounds keep what was decided and leave the rest alone.
LEMMA QuietDecisions ==
  ASSUME IInv, \A k \in Correct : SameDecisions(node[k], node'[k]),
         \A k \in Correct, v \in Val : node[k].reached = <<v>> => node'[k].reached = <<v>>
  PROVE  OutputsDecided' /\ AdoptedRight'
  <1>1. \A k \in Correct :
          /\ node'[k].received = node[k].received /\ node'[k].adopted = node[k].adopted
          /\ node'[k].output = node[k].output
    BY DEF SameDecisions
  <1>2. \A v \in Val : Decided(v) => Decided(v)'
    BY DEF Decided
  <1>3. \A k \in Correct, v \in Val : results(node[k], v)' = results(node[k], v)
    BY <1>1 DEF results
  <1>4. \A k \in Correct : node[k].output \in Val \cup {None}
    BY DEF IInv, RoundInv, TypeOK, NodeState
  <1>5. OutputsDecided'
    <2>1. \A k \in Correct : node[k].output # None => Decided(node[k].output)'
      <3> SUFFICES ASSUME NEW k \in Correct, node[k].output # None
                   PROVE  Decided(node[k].output)'
        OBVIOUS
      <3>1. PICK v \in Val : node[k].output = v
        BY <1>4
      <3>2. Decided(v)
        BY <3>1 DEF IInv, OutputsDecided
      <3>3. Decided(v)'
        BY <1>2, <3>2
      <3> QED
        BY <1>1, <3>1, <3>3 DEF Decided
    <2> QED
      BY <1>1, <2>1 DEF IInv, OutputsDecided
  <1>6. AdoptedRight'
    BY <1>1, <1>2, <1>3 DEF IInv, AdoptedRight
  <1> QED
    BY <1>5, <1>6

LEMMA RoundStepInv ==
  ASSUME IInv, NEW i \in Correct, RoundStep(i)
  PROVE  IInv'
  <1>0. TypeOK /\ RoundInv
    BY DEF IInv, RoundInv
  <1>1. ASSUME NEW v \in Val, propose(i, v)
        PROVE  IInv'
    <2>1. \A k \in Correct : SameDecisions(node[k], node'[k]) /\ node'[k].reached = node[k].reached
      BY <1>0, <1>1, ProposeStep DEF SameButAt, SameDecisions
    <2> QED
      BY <1>0, <1>1, <2>1, ProposeRound, QuietDecisions DEF IInv
  <1>2. ASSUME NEW r \in Round, NEW d \in Val \cup {bot}, decide(i, r, d)
        PROVE  IInv'
    <2>1. \A k \in Correct : SameDecisions(node[k], node'[k]) /\ node'[k].reached = node[k].reached
      BY <1>0, <1>2, DecideStep DEF SameButAt, SameDecisions
    <2> QED
      BY <1>0, <1>2, <2>1, DecideRound, QuietDecisions DEF IInv
  <1>3. ASSUME NEW r \in Round, NEW c \in Val, submitCoin(i, r, c)
        PROVE  IInv'
    <2>1. /\ SameButAt(i) /\ SameDecisions(node[i], node'[i])
          /\ node'[i].reached = node[i].reached \/ ~node[i].hasDecided
      BY <1>0, <1>3, CoinStep
    <2>2. \A k \in Correct : SameDecisions(node[k], node'[k])
      BY <2>1 DEF SameButAt, SameDecisions
    <2>3. ~node[i].hasDecided => node[i].reached = <<>>
      BY <1>0 DEF RoundInv, ReachedRight
    <2>4. \A v \in Val : <<v>> # <<>>
      OBVIOUS
    <2>5. \A k \in Correct, v \in Val : node[k].reached = <<v>> => node'[k].reached = <<v>>
      BY <2>1, <2>3, <2>4, Zenon DEF SameButAt
    <2> QED
      BY <1>0, <1>3, <2>2, <2>5, CoinRound, QuietDecisions DEF IInv
  <1> QED
    BY <1>1, <1>2, <1>3 DEF RoundStep

LEMMA ReachInv ==
  ASSUME IInv, NEW i \in Correct, NEW v \in Val, reachDecision(i, v)
  PROVE  IInv'
  <1>0. TypeOK /\ RoundInv
    BY DEF IInv, RoundInv
  <1>1. /\ TypeOK' /\ SameButAt(i) /\ coin' = coin /\ SameRounds(node[i], node'[i])
        /\ node[i].output = None /\ node'[i].output = v
        /\ \/ node[i].reached # <<>> /\ v = Head(node[i].reached)
           \/ node[i].adopted # <<>> /\ v = Head(node[i].adopted)
        /\ node'[i].received = node[i].received /\ node'[i].adopted = node[i].adopted
    BY <1>0, ReachStep
  <1>2. \A k \in Correct : SameRounds(node[k], node'[k])
    BY <1>1 DEF SameButAt, SameRounds
  <1>3. RoundInv'
    BY <1>0, <1>1, <1>2, QuietRounds
  <1>4. \A w \in Val : Decided(w)' <=> Decided(w)
    BY <1>2 DEF Decided, SameRounds
  <1>5. Decided(v)
    <2>1. CASE node[i].reached # <<>> /\ v = Head(node[i].reached)
      <3>1. PICK w \in Val : node[i].reached = <<w>>
        BY <1>0, <2>1 DEF RoundInv, ReachedRight
      <3>2. w = v
        BY <2>1, <3>1
      <3> QED
        BY <3>1, <3>2 DEF Decided
    <2>2. CASE node[i].adopted # <<>> /\ v = Head(node[i].adopted)
      <3>1. PICK w \in Val : node[i].adopted = <<w>> /\ Decided(w)
        BY <2>2 DEF IInv, AdoptedRight
      <3>2. w = v
        BY <2>2, <3>1
      <3> QED
        BY <3>1, <3>2
    <2> QED
      BY <1>1, <2>1, <2>2
  <1>6. \A k \in Correct :
          /\ node'[k].received = node[k].received /\ node'[k].adopted = node[k].adopted
          /\ k # i => node'[k].output = node[k].output
    BY <1>1 DEF SameButAt
  <1>7. \A k \in Correct : node[k].output \in Val \cup {None}
    BY <1>0 DEF TypeOK, NodeState
  <1>8. \A k \in Correct : node'[k].output # None => Decided(node[k].output)'
    <2> SUFFICES ASSUME NEW k \in Correct, node'[k].output # None
                 PROVE  Decided(node[k].output)'
      OBVIOUS
    <2>1. PICK w \in Val : node'[k].output = w /\ Decided(w)
      BY <1>1, <1>5, <1>6, <1>7 DEF IInv, OutputsDecided
    <2>2. Decided(w)'
      BY <1>4, <2>1
    <2> QED
      BY <2>1, <2>2 DEF Decided
  <1>9. OutputsDecided'
    BY <1>1, <1>6, <1>8 DEF IInv, OutputsDecided
  <1>10. \A k \in Correct, w \in Val : results(node[k], w)' = results(node[k], w)
    BY <1>6 DEF results
  <1>11. AdoptedRight'
    BY <1>4, <1>6, <1>10 DEF IInv, AdoptedRight
  <1> QED
    BY <1>3, <1>9, <1>11 DEF IInv

LEMMA SubmitInv ==
  ASSUME IInv, NEW i \in Correct, NEW j \in Nodes, NEW v \in Val, submitDecision(i, j, v)
  PROVE  IInv'
  <1> DEFINE s == node[i]
             t == node'[i]
  <1>0. TypeOK /\ RoundInv
    BY DEF IInv, RoundInv
  <1>1. /\ TypeOK' /\ SameButAt(i) /\ coin' = coin /\ SameRounds(s, t)
        /\ s.received[j] = None /\ (j \in Correct => node[j].output = v)
        /\ t.received = [s.received EXCEPT ![j] = v] /\ t.output = s.output
        /\ t.adopted = IF results(t, v) = F + 1 THEN Append(s.adopted, v) ELSE s.adopted
    BY <1>0, DecisionSubmitStep
  <1>2. s \in NodeState /\ t \in NodeState /\ s.received \in [Nodes -> Val \cup {None}]
    BY <1>0, <1>1 DEF TypeOK, NodeState
  <1>3. \A k \in Correct : SameRounds(node[k], node'[k]) /\ node'[k].output = node[k].output
    BY <1>1 DEF SameButAt, SameRounds
  <1>4. RoundInv'
    BY <1>0, <1>1, <1>3, QuietRounds
  <1>5. \A w \in Val : Decided(w)' <=> Decided(w)
    BY <1>3 DEF Decided, SameRounds
  <1>6. \A k, l \in Correct : node'[k].received[l] \in {None, node[l].output}
    <2> SUFFICES ASSUME NEW k \in Correct, NEW l \in Correct
                 PROVE  node'[k].received[l] \in {None, node[l].output}
      OBVIOUS
    <2>1. CASE k = i /\ l = j
      BY <1>1, <1>2, <2>1
    <2>2. CASE k # i \/ l # j
      <3>1. node'[k].received[l] = node[k].received[l]
        BY <1>1, <1>2, <2>2 DEF SameButAt, Correct
      <3> QED
        BY <3>1 DEF IInv, OutputsDecided
    <2> QED
      BY <2>1, <2>2
  <1>7. \A k \in Correct : node[k].output \in Val \cup {None}
    BY <1>0 DEF TypeOK, NodeState
  <1>8. \A k \in Correct : node[k].output # None => Decided(node[k].output)'
    <2> SUFFICES ASSUME NEW k \in Correct, node[k].output # None
                 PROVE  Decided(node[k].output)'
      OBVIOUS
    <2>1. PICK w \in Val : node[k].output = w /\ Decided(w)
      BY <1>7 DEF IInv, OutputsDecided
    <2>2. Decided(w)'
      BY <1>5, <2>1
    <2> QED
      BY <1>3, <2>1, <2>2 DEF Decided
  <1>9. OutputsDecided'
    BY <1>3, <1>6, <1>8 DEF OutputsDecided
  <1>10. /\ results(s, v) \in Nat /\ results(t, v) = results(s, v) + 1
         /\ \A w \in Val : w # v => results(t, w) = results(s, w)
    BY <1>1, <1>2, CountOne
  <1>11. F \in Nat
    BY ThresholdAssumption
  <1>12. results(t, v) > F => Decided(v)
    <2> SUFFICES ASSUME results(t, v) > F
                 PROVE  Decided(v)
      OBVIOUS
    <2>1. PICK l \in Correct : t.received[l] = v
      BY <1>2, CorrectAmong
    <2>2. node[l].output = v
      BY <1>6, <2>1, NoneAssumption
    <2> QED
      BY <2>2, NoneAssumption DEF IInv, OutputsDecided
  <1>13. \/ t.adopted = <<>> /\ \A w \in Val : results(t, w) <= F
         \/ \E w \in Val : t.adopted = <<w>> /\ results(t, w) > F /\ Decided(w)
    <2>1. CASE s.adopted = <<>> /\ \A w \in Val : results(s, w) <= F
      <3>1. CASE results(t, v) = F + 1
        <4>1. t.adopted = <<v>>
          BY <1>1, <2>1, <3>1
        <4> QED
          BY <1>11, <1>12, <3>1, <4>1
      <3>2. CASE results(t, v) # F + 1
        <4>1. t.adopted = <<>>
          BY <1>1, <2>1, <3>2
        <4>2. results(t, v) <= F
          BY <1>10, <1>11, <2>1, <3>2
        <4> QED
          BY <1>10, <2>1, <4>1, <4>2
      <3> QED
        BY <3>1, <3>2
    <2>2. ASSUME NEW w \in Val, s.adopted = <<w>>, results(s, w) > F, Decided(w)
          PROVE  t.adopted = <<w>> /\ results(t, w) > F /\ Decided(w)
      <3>1. results(t, v) # F + 1
        <4> SUFFICES ASSUME results(t, v) = F + 1
                     PROVE  FALSE
          OBVIOUS
        <4>1. v = w
          BY <1>0, <1>11, <1>12, <2>2, DecidedOnce
        <4> QED
          BY <1>10, <1>11, <2>2, <4>1
      <3>2. t.adopted = <<w>>
        BY <1>1, <2>2, <3>1
      <3>3. results(t, w) > F
        BY <1>10, <1>11, <2>2
      <3> QED
        BY <2>2, <3>2, <3>3
    <2> QED
      BY <2>1, <2>2 DEF IInv, AdoptedRight
  <1> HIDE DEF s
  <1>14. AdoptedRight'
    <2> SUFFICES ASSUME NEW k \in Correct
                 PROVE  (\/ node[k].adopted = <<>> /\ \A w \in Val : results(node[k], w) <= F
                         \/ \E w \in Val : /\ node[k].adopted = <<w>>
                                           /\ results(node[k], w) > F /\ Decided(w))'
      BY DEF AdoptedRight
    <2>1. CASE k = i
      BY <1>5, <1>13, <2>1
    <2>2. CASE k # i
      <3>1. node'[k] = node[k]
        BY <1>1, <2>2 DEF SameButAt
      <3> QED
        BY <1>5, <3>1 DEF IInv, AdoptedRight
    <2> QED
      BY <2>1, <2>2
  <1> QED
    BY <1>4, <1>9, <1>14 DEF IInv

LEMMA NextInv == IInv /\ [Next]_vars => IInv'
  <1> SUFFICES ASSUME IInv, [Next]_vars
               PROVE  IInv'
    OBVIOUS
  <1>1. CASE UNCHANGED vars
    <2>1. node' = node /\ coin' = coin
      BY <1>1 DEF vars
    <2>2. TypeOK' /\ \A k \in Correct : SameRounds(node[k], node'[k]) /\ SameDecisions(node[k], node'[k])
      BY <2>1 DEF IInv, RoundInv, TypeOK, SameRounds, SameDecisions
    <2> QED
      BY <2>1, <2>2, QuietRounds, QuietDecisions DEF IInv
  <1>2. ASSUME NEW i \in Correct, RoundStep(i)
        PROVE  IInv'
    BY <1>2, RoundStepInv
  <1>3. ASSUME NEW i \in Correct, DecisionStep(i)
        PROVE  IInv'
    BY <1>3, ReachInv, SubmitInv DEF DecisionStep
  <1> QED
    BY <1>1, <1>2, <1>3 DEF Next

\* The invariant of rounds and decisions holds in every state.
THEOREM Invariance == Spec => []IInv
  BY InitInv, NextInv, PTL DEF Spec

\* The fields of an instance keep their types.
THEOREM TypeCorrect == Spec => []TypeOK
  <1>1. IInv => TypeOK
    BY DEF IInv, RoundInv
  <1> QED
    BY <1>1, Invariance, PTL

\* Once a round decided a value, nothing else is proposed to any later round.
THEOREM EstimatesLockedHolds == Spec => []EstimatesLocked
  <1>1. IInv => EstimatesLocked
    BY Locked DEF IInv
  <1> QED
    BY <1>1, Invariance, PTL

\* Neither the invoker of the rounds nor that of the gadget is blocked by a second
\* decision.
THEOREM SingleDecisionHolds == Spec => []SingleDecision
  <1>1. ASSUME IInv, NEW i \in Correct
        PROVE  Len(node[i].reached) <= 1 /\ Len(node[i].adopted) <= 1
    <2>1. node[i].reached = <<>> \/ \E v \in Val : node[i].reached = <<v>>
      BY <1>1 DEF IInv, RoundInv, ReachedRight
    <2>2. node[i].adopted = <<>> \/ \E v \in Val : node[i].adopted = <<v>>
      BY <1>1 DEF IInv, AdoptedRight
    <2>3. Len(<<>>) <= 1 /\ \A v \in Val : Len(<<v>>) <= 1
      OBVIOUS
    <2>4. Len(node[i].reached) <= 1
      BY <2>1, <2>3, Zenon
    <2>5. Len(node[i].adopted) <= 1
      BY <2>2, <2>3, Zenon
    <2> QED
      BY <2>4, <2>5
  <1>2. IInv => SingleDecision
    BY <1>1 DEF SingleDecision
  <1> QED
    BY <1>2, Invariance, PTL

\* All outputs are equal.
LEMMA OutputsAgree ==
  ASSUME IInv, NEW i \in Correct, NEW k \in Correct, node[i].output # None, node[k].output # None
  PROVE  node[i].output = node[k].output /\ node[i].output \in Val
  <1>1. node[i].output \in Val /\ node[k].output \in Val
    BY DEF IInv, RoundInv, TypeOK, NodeState
  <1>2. Decided(node[i].output) /\ Decided(node[k].output)
    BY DEF IInv, OutputsDecided
  <1> QED
    BY <1>1, <1>2, DecidedOnce DEF IInv

\* When f+1 correct nodes have decided and their decisions have arrived, every
\* correct node has output.
THEOREM DecisionsSpreadHolds == Spec => []DecisionsSpread
  <1> DEFINE D == {i \in Correct : node[i].output # None}
  <1>1. ASSUME IInv,
               \A i \in Correct \ D : node[i].reached = <<>> /\ node[i].adopted = <<>>,
               \A i \in Correct, j \in D : node[i].received[j] # None,
               NEW i \in Correct \ D
        PROVE  Cardinality(D) <= F
    <2>1. node[i].adopted = <<>>
      BY <1>1
    <2>2. \A v \in Val : results(node[i], v) <= F
      <3>1. \A v \in Val : <<v>> # <<>>
        OBVIOUS
      <3> QED
        BY <1>1, <2>1, <3>1, Zenon DEF IInv, AdoptedRight
    <2>3. IsFiniteSet(D) /\ D \subseteq Nodes
      BY NodesAssumption, FS_Subset DEF Correct
    <2>4. CASE D = {}
      BY <2>4, FS_EmptySet, ThresholdAssumption
    <2>5. CASE D # {}
      <3>1. PICK k \in D : TRUE
        BY <2>5
      <3> DEFINE v == node[k].output
                 R == {j \in Nodes : node[i].received[j] = v}
      <3>2. v \in Val
        BY <1>1, OutputsAgree
      <3>3. \A j \in D : node[j].output = v
        BY <1>1, OutputsAgree
      <3>4. \A j \in D : node[i].received[j] = node[j].output
        BY <1>1 DEF IInv, OutputsDecided
      <3>5. D \subseteq R
        BY <2>3, <3>3, <3>4
      <3>6. IsFiniteSet(R)
        BY NodesAssumption, FS_Subset
      <3>7. Cardinality(R) <= F
        BY <2>2, <3>2 DEF results
      <3> HIDE DEF D, R
      <3>8. Cardinality(D) <= Cardinality(R) /\ Cardinality(D) \in Nat /\ Cardinality(R) \in Nat
        BY <2>3, <3>5, <3>6, FS_Subset, FS_CardinalityType
      <3> QED
        BY <3>7, <3>8, ThresholdAssumption
    <2> QED
      BY <2>4, <2>5
  <1>2. IInv => DecisionsSpread
    BY <1>1 DEF DecisionsSpread
  <1> QED
    BY <1>2, Invariance, PTL

-----------------------------------------------------------------------------
(***************************************************************************)
(* MMR implements BinaryAgreement.                                         *)
(***************************************************************************)
LEMMA RefinesInit == Init => ABA!Init
  <1> SUFFICES ASSUME Init
               PROVE  ABA!Init
    OBVIOUS
  <1>1. \A i \in Correct : node[i].output = None /\ node[i].est[0] = None
    <2>1. 0 \in 0 .. (MaxRound + 1)
      BY RoundsAssumption
    <2> QED
      BY <2>1 DEF Init, newMMR
  <1>2. Outputs = {}
    BY <1>1 DEF Outputs
  <1> QED
    BY <1>1, <1>2 DEF ABA!Init, AnyOf

\* Steps that change neither the first proposals nor the outputs.
LEMMA Stutters ==
  ASSUME \A k \in Correct : /\ node'[k].est[0] = node[k].est[0]
                            /\ node'[k].output = node[k].output
  PROVE  UNCHANGED ABA!vars
  <1>1. Outputs' = Outputs
    BY DEF Outputs
  <1>2. [k \in Correct |-> node'[k].est[0]] = [k \in Correct |-> node[k].est[0]]
    OBVIOUS
  <1>3. [k \in Correct |-> node'[k].output] = [k \in Correct |-> node[k].output]
    OBVIOUS
  <1> QED
    BY <1>1, <1>2, <1>3 DEF ABA!vars, AnyOf

LEMMA ProposeRefines ==
  ASSUME TypeOK, NEW i \in Correct, NEW v \in Val, propose(i, v)
  PROVE  ABA!Propose(i, v)
  <1>1. /\ SameButAt(i) /\ node'[i].output = node[i].output /\ node[i].est[0] = None
        /\ node'[i].est = [node[i].est EXCEPT ![0] = v]
    BY ProposeStep DEF SameDecisions
  <1>2. node[i].est \in [0 .. (MaxRound + 1) -> Val \cup {None}] /\ 0 \in 0 .. (MaxRound + 1)
    BY RoundsAssumption DEF TypeOK, NodeState
  <1>3. node'[i].est[0] = v
    BY <1>1, <1>2
  <1>4. \A k \in Correct : node'[k].output = node[k].output
    BY <1>1 DEF SameButAt
  <1>5. Outputs' = Outputs
    BY <1>4 DEF Outputs
  <1>6. AnyOf(Outputs)' = AnyOf(Outputs)
    BY <1>5 DEF AnyOf
  <1>7. [k \in Correct |-> node'[k].est[0]]
          = [[k \in Correct |-> node[k].est[0]] EXCEPT ![i] = v]
    BY <1>1, <1>3 DEF SameButAt
  <1>8. [k \in Correct |-> node'[k].output] = [k \in Correct |-> node[k].output]
    BY <1>4
  <1> QED
    BY <1>1, <1>6, <1>7, <1>8 DEF ABA!Propose

LEMMA ReachRefines ==
  ASSUME IInv, IInv', NEW i \in Correct, NEW v \in Val, reachDecision(i, v)
  PROVE  ABA!Output(i, v)
  <1>0. TypeOK
    BY DEF IInv, RoundInv
  <1>1. /\ SameButAt(i) /\ SameRounds(node[i], node'[i])
        /\ node[i].output = None /\ node'[i].output = v
    BY <1>0, ReachStep
  <1>2. \A k \in Correct : k # i => node'[k].output = node[k].output
    BY <1>1 DEF SameButAt
  <1>3. \A k \in Correct : node'[k].est = node[k].est /\ node'[k].reached = node[k].reached
    BY <1>1 DEF SameButAt, SameRounds
  <1>4. Decided(v)
    <2>1. Decided(v)'
      <3>1. Decided(node[i].output)'
        BY <1>1, NoneAssumption DEF IInv, OutputsDecided
      <3> QED
        BY <1>1, <3>1 DEF Decided
    <2> QED
      BY <1>3, <2>1 DEF Decided
  <1>5. \A k \in Correct : node[k].output \in {None, v}
    <2> SUFFICES ASSUME NEW k \in Correct, node[k].output # None
                 PROVE  node[k].output = v
      OBVIOUS
    <2>1. node[k].output \in Val /\ Decided(node[k].output)
      BY OutputsAgree DEF IInv, OutputsDecided
    <2> QED
      BY <1>4, <2>1, DecidedOnce DEF IInv
  <1>6. Outputs \in {{}, {v}} /\ Outputs' = {v}
    BY <1>1, <1>2, <1>5, NoneAssumption DEF Outputs
  <1>7. AnyOf(Outputs) \in {None, v} /\ AnyOf(Outputs)' = v
    BY <1>6 DEF AnyOf
  <1>8. Cardinality({k \in Correct : node[k].est[0] = v}) > F - Cardinality(Faulty)
    BY <1>4, DecidedApprovable DEF IInv, Approvable, Proposers
  <1>9. {k \in Correct : [l \in Correct |-> node[l].est[0]][k] = v}
          = {k \in Correct : node[k].est[0] = v}
    OBVIOUS
  <1>10. ABA!Supported(v)
    BY <1>8, <1>9 DEF ABA!Supported
  <1>11. [k \in Correct |-> node'[k].output]
           = [[k \in Correct |-> node[k].output] EXCEPT ![i] = v]
    BY <1>1, <1>2
  <1>12. [k \in Correct |-> node'[k].est[0]] = [k \in Correct |-> node[k].est[0]]
    BY <1>3
  <1> QED
    BY <1>1, <1>7, <1>10, <1>11, <1>12 DEF ABA!Output

LEMMA RefinesStep == IInv /\ IInv' /\ [Next]_vars => [ABA!Next]_(ABA!vars)
  <1> SUFFICES ASSUME IInv, IInv', [Next]_vars
               PROVE  ABA!Next \/ UNCHANGED ABA!vars
    OBVIOUS
  <1>0. TypeOK
    BY DEF IInv, RoundInv
  <1>1. CASE UNCHANGED vars
    BY <1>1, Stutters DEF vars
  <1>2. ASSUME NEW i \in Correct, NEW v \in Val, propose(i, v)
        PROVE  ABA!Next
    BY <1>0, <1>2, ProposeRefines DEF ABA!Next
  <1>3. ASSUME NEW i \in Correct, NEW r \in Round, NEW d \in Val \cup {bot}, decide(i, r, d)
        PROVE  UNCHANGED ABA!vars
    <2>1. /\ SameButAt(i) /\ node'[i].est = node[i].est /\ node'[i].output = node[i].output
      BY <1>0, <1>3, DecideStep DEF SameDecisions
    <2> QED
      BY <2>1, Stutters DEF SameButAt
  <1>4. ASSUME NEW i \in Correct, NEW r \in Round, NEW c \in Val, submitCoin(i, r, c)
        PROVE  UNCHANGED ABA!vars
    <2>1. /\ SameButAt(i) /\ node'[i].output = node[i].output
          /\ \/ node'[i].est = node[i].est
             \/ node'[i].est = [node[i].est EXCEPT ![r + 1] = IF node[i].dec[r] = bot THEN c
                                                             ELSE node[i].dec[r]]
      BY <1>0, <1>4, CoinStep DEF SameDecisions
    <2>2. /\ node[i].est \in [0 .. (MaxRound + 1) -> Val \cup {None}]
          /\ 0 \in 0 .. (MaxRound + 1) /\ r + 1 # 0
      BY <1>0, RoundsAssumption DEF TypeOK, NodeState, Round
    <2>3. node'[i].est[0] = node[i].est[0]
      BY <2>1, <2>2
    <2> QED
      BY <2>1, <2>3, Stutters DEF SameButAt
  <1>5. ASSUME NEW i \in Correct, NEW v \in Val, reachDecision(i, v)
        PROVE  ABA!Next
    BY <1>5, ReachRefines DEF ABA!Next
  <1>6. ASSUME NEW i \in Correct, NEW j \in Nodes, NEW v \in Val, submitDecision(i, j, v)
        PROVE  UNCHANGED ABA!vars
    <2>1. SameButAt(i) /\ node'[i].est = node[i].est /\ node'[i].output = node[i].output
      BY <1>0, <1>6, DecisionSubmitStep DEF SameRounds
    <2> QED
      BY <2>1, Stutters DEF SameButAt
  <1> QED
    BY <1>1, <1>2, <1>3, <1>4, <1>5, <1>6 DEF Next, RoundStep, DecisionStep

\* The rounds and the termination gadget implement binary agreement as BKR uses
\* it: one decision, which enough correct nodes proposed.
THEOREM Refinement == Spec => ABASpec
  BY Invariance, RefinesInit, RefinesStep, PTL DEF Spec, ABASpec, ABA!Spec

-----------------------------------------------------------------------------
(***************************************************************************)
(* Each round is a crusader agreement.                                     *)
(***************************************************************************)
LEMMA CrusaderInit == Init => RoundsInit
  <1> SUFFICES ASSUME Init, NEW q \in Round
               PROVE  CA(q)!Init
    BY DEF RoundsInit
  <1>1. q \in 0 .. (MaxRound + 1)
    BY RoundsAssumption DEF Round
  <1>2. \A i \in Correct : node[i].est[q] = None /\ node[i].dec[q] = None
    BY <1>1 DEF Init, newMMR
  <1> QED
    BY <1>2 DEF CA!Init

LEMMA RoundStutters ==
  ASSUME NEW q \in Round,
         \A k \in Correct : node'[k].est[q] = node[k].est[q] /\ node'[k].dec[q] = node[k].dec[q]
  PROVE  UNCHANGED CA(q)!vars
  <1>1. [k \in Correct |-> node'[k].est[q]] = [k \in Correct |-> node[k].est[q]]
    OBVIOUS
  <1>2. [k \in Correct |-> node'[k].dec[q]] = [k \in Correct |-> node[k].dec[q]]
    OBVIOUS
  <1> QED
    BY <1>1, <1>2 DEF CA!vars

\* A node that has not proposed to round q yet does, and nothing else changes there.
LEMMA RoundProposal ==
  ASSUME NEW q \in Round, NEW i \in Correct, NEW v \in Val, SameButAt(i),
         node[i].est[q] = None, node'[i].est[q] = v, node'[i].dec[q] = node[i].dec[q]
  PROVE  CA(q)!Next
  <1>1. [k \in Correct |-> node'[k].est[q]] = [[k \in Correct |-> node[k].est[q]] EXCEPT ![i] = v]
    BY DEF SameButAt
  <1>2. [k \in Correct |-> node'[k].dec[q]] = [k \in Correct |-> node[k].dec[q]]
    BY DEF SameButAt
  <1>3. CA(q)!Propose(i, v)
    BY <1>1, <1>2 DEF CA!Propose
  <1> QED
    BY <1>3 DEF CA!Next, CA!Val, Val

\* Approvable is what CrusaderAgreement asks for.
LEMMA EnoughProposers ==
  ASSUME NEW q \in Round, NEW v, Approvable(v, q)
  PROVE  CA(q)!Approvable(v)
  <1>1. {k \in Correct : [l \in Correct |-> node[l].est[q]][k] = v} = Proposers(v, q)
    BY DEF Proposers
  <1>2. Proposers(v, q) \in SUBSET Correct
    BY DEF Proposers
  <1> QED
    BY <1>1, <1>2 DEF CA!Approvable, Approvable

LEMMA RoundDecision ==
  ASSUME TypeOK, NEW q \in Round, NEW i \in Correct, NEW d \in Val \cup {bot}, decide(i, q, d)
  PROVE  CA(q)!Next
  <1>1. /\ SameButAt(i) /\ node'[i].est = node[i].est
        /\ node[i].dec[q] = None /\ node'[i].dec = [node[i].dec EXCEPT ![q] = d]
    BY DecideStep
  <1>2. node[i].dec \in [Round -> Val \cup {bot, None}]
    BY DEF TypeOK, NodeState
  <1>3. node'[i].dec[q] = d
    BY <1>1, <1>2
  <1>4. [k \in Correct |-> node'[k].dec[q]] = [[k \in Correct |-> node[k].dec[q]] EXCEPT ![i] = d]
    BY <1>1, <1>3 DEF SameButAt
  <1>5. [k \in Correct |-> node'[k].est[q]] = [k \in Correct |-> node[k].est[q]]
    BY <1>1 DEF SameButAt
  <1>6. d \in Val => CA(q)!Approvable(d) /\ \A k \in Correct : node[k].dec[q] # 1 - d
    BY EnoughProposers DEF decide
  <1>7. d = bot => \A v \in Val : CA(q)!Approvable(v)
    BY EnoughProposers DEF decide
  <1>8. CA(q)!Decide(i, d)
    BY <1>1, <1>4, <1>5, <1>6, <1>7 DEF CA!Decide, CA!Val, Val, CA!bot, bot
  <1> QED
    BY <1>8 DEF CA!Next, CA!Val, Val, CA!bot, bot

LEMMA CrusaderStep ==
  ASSUME IInv, [Next]_vars, NEW q \in Round
  PROVE  CA(q)!Next \/ UNCHANGED CA(q)!vars
  <1>0. TypeOK /\ q \in 0 .. (MaxRound + 1) /\ 0 \in 0 .. (MaxRound + 1)
    BY RoundsAssumption DEF IInv, RoundInv, Round
  <1>1. CASE UNCHANGED vars
    BY <1>1, RoundStutters DEF vars
  <1>2. ASSUME NEW i \in Correct, NEW v \in Val, propose(i, v)
        PROVE  CA(q)!Next \/ UNCHANGED CA(q)!vars
    <2>1. /\ SameButAt(i) /\ node[i].est[0] = None /\ node'[i].dec = node[i].dec
          /\ node'[i].est = [node[i].est EXCEPT ![0] = v]
      BY <1>0, <1>2, ProposeStep
    <2>2. node[i].est \in [0 .. (MaxRound + 1) -> Val \cup {None}]
      BY <1>0 DEF TypeOK, NodeState
    <2>3. CASE q = 0
      BY <1>0, <2>1, <2>2, <2>3, RoundProposal
    <2>4. CASE q # 0
      BY <1>0, <2>1, <2>2, <2>4, RoundStutters DEF SameButAt
    <2> QED
      BY <2>3, <2>4
  <1>3. ASSUME NEW i \in Correct, NEW r \in Round, NEW d \in Val \cup {bot}, decide(i, r, d)
        PROVE  CA(q)!Next \/ UNCHANGED CA(q)!vars
    <2>1. CASE q = r
      BY <1>0, <1>3, <2>1, RoundDecision
    <2>2. CASE q # r
      <3>1. /\ SameButAt(i) /\ node'[i].est = node[i].est
            /\ node'[i].dec = [node[i].dec EXCEPT ![r] = d]
        BY <1>0, <1>3, DecideStep
      <3>2. node[i].dec \in [Round -> Val \cup {bot, None}]
        BY <1>0 DEF TypeOK, NodeState
      <3> QED
        BY <2>2, <3>1, <3>2, RoundStutters DEF SameButAt
    <2> QED
      BY <2>1, <2>2
  <1>4. ASSUME NEW i \in Correct, NEW r \in Round, NEW c \in Val, submitCoin(i, r, c)
        PROVE  CA(q)!Next \/ UNCHANGED CA(q)!vars
    <2> DEFINE e == IF node[i].dec[r] = bot THEN c ELSE node[i].dec[r]
    <2>1. /\ SameButAt(i) /\ node'[i].dec = node[i].dec
          /\ node[i].dec[r] # None /\ r \notin node[i].coined
          /\ node'[i].est = node[i].est \/ node'[i].est = [node[i].est EXCEPT ![r + 1] = e]
      BY <1>0, <1>4, CoinStep
    <2>2. /\ node[i].est \in [0 .. (MaxRound + 1) -> Val \cup {None}]
          /\ node[i].dec[r] \in Val \cup {bot, None}
      BY <1>0 DEF TypeOK, NodeState
    <2>3. e \in Val
      BY <2>1, <2>2
    <2>4. node[i].est[r + 1] = None
      BY <2>1 DEF IInv, RoundInv, FromCoin
    <2> HIDE DEF e
    <2>5. CASE q = r + 1 /\ node'[i].est # node[i].est
      BY <1>0, <2>1, <2>2, <2>3, <2>4, <2>5, RoundProposal
    <2>6. CASE q # r + 1 \/ node'[i].est = node[i].est
      <3>1. node'[i].est[q] = node[i].est[q]
        BY <1>0, <2>1, <2>2, <2>6
      <3> QED
        BY <2>1, <3>1, RoundStutters DEF SameButAt
    <2> QED
      BY <2>5, <2>6
  <1>5. ASSUME NEW i \in Correct, NEW v \in Val, reachDecision(i, v)
        PROVE  UNCHANGED CA(q)!vars
    BY <1>0, <1>5, ReachStep, RoundStutters DEF SameButAt, SameRounds
  <1>6. ASSUME NEW i \in Correct, NEW j \in Nodes, NEW v \in Val, submitDecision(i, j, v)
        PROVE  UNCHANGED CA(q)!vars
    BY <1>0, <1>6, DecisionSubmitStep, RoundStutters DEF SameButAt, SameRounds
  <1> QED
    BY <1>1, <1>2, <1>3, <1>4, <1>5, <1>6 DEF Next, RoundStep, DecisionStep

\* Every round of an instance, whatever their number, is a crusader agreement: what
\* MMR assumes of the layer below is what IVBCA implements for round 0 and EVBCA
\* for the later ones, and each node proposes to a round once (mmr.go:105-110).
THEOREM RoundsAreCrusaderHolds == Spec => RoundsAreCrusader
  <1>1. IInv /\ [Next]_vars => [RoundsNext]_vars
    BY CrusaderStep DEF RoundsNext
  <1> QED
    BY <1>1, CrusaderInit, Invariance, PTL DEF Spec, RoundsAreCrusader
=============================================================================
