----------------------------- MODULE IVBCAProofs -----------------------------
(***************************************************************************)
(* The crusader agreement of the first round in every network with n > 3f: *)
(* its channels, binding, and that it implements CrusaderAgreement.        *)
(*                                                                         *)
(* A threshold is met once, since a peer is counted once: so each channel  *)
(* is sent to as often as it has room for.  What has n-f echoes, votes or  *)
(* binds at one node has some of correct nodes, and two such quorums share *)
(* a correct node, which votes and binds once.                             *)
(***************************************************************************)
EXTENDS IVBCA, FiniteSetTheorems, SequenceTheorems, TLAPS

-----------------------------------------------------------------------------
(***************************************************************************)
(* The inductive invariant: the state of one node.                         *)
(***************************************************************************)
Quorum(S) == Cardinality(S) >= N - F
Approved(s, v) == Quorum(s.echoes[v])
Both(s) == \A v \in Val : Approved(s, v)

\* What waitToVote has read and has still to read are different approved values.
ApprovalsRight(s) ==
  /\ \A x \in 1 .. Len(s.approveVal) : Approved(s, s.approveVal[x]) /\ s.approveVal[x] # s.vote
  /\ \A x, y \in 1 .. Len(s.approveVal) : s.approveVal[x] = s.approveVal[y] => x = y
  /\ s.vote # None => Approved(s, s.vote)
  /\ s.voter = "first" <=> s.vote = None

\* A node binds bot when both values are approved, a value when it has n-f votes.
BindsRight(s) ==
  /\ s.bindBot <= 1 /\ (s.voter # "done" => s.bindBot = 0)
  /\ (s.bindBot > 0 \/ s.bind = bot) => Both(s)
  /\ Len(s.bindVal) <= 1 /\ \A x \in 1 .. Len(s.bindVal) : Quorum(s.voted[s.bindVal[x]])
  /\ s.bind \in Val => Quorum(s.voted[s.bind])

\* A node is sent bot once by the votes and once by the binds.
TerminatesRight(s) ==
  /\ \A v, w \in Decisions : v # w => s.bound[v] \cap s.bound[w] = {}
  /\ Len(s.terminateVal) <= 1
  /\ \A x \in 1 .. Len(s.terminateVal) : Quorum(s.bound[s.terminateVal[x]])
  /\ (s.terminateBot = 0 \/ (s.voter = "done" /\ Both(s)) \/ Quorum(Binders(s)))
  /\ s.terminateBot > 1 => (s.voter = "done" /\ Both(s)) /\ Quorum(Binders(s))
  /\ s.terminateBot <= 2

DecidesRight(s) ==
  /\ s.decision \in Val => Quorum(s.bound[s.decision])
  /\ s.decision = bot => Quorum(s.bound[bot]) \/ (Both(s) /\ Quorum(Binders(s)))
  /\ s.unblock <= 1 /\ (s.decision = None => s.unblock = 0)

EchoesRight(s) ==
  \A v \in s.sentEchoes : s.est = v \/ Cardinality(s.echoes[v]) >= F + 1

LocalInv(s) ==
  ApprovalsRight(s) /\ BindsRight(s) /\ TerminatesRight(s) /\ DecidesRight(s) /\ EchoesRight(s)

(***************************************************************************)
(* The nodes together.                                                     *)
(***************************************************************************)
\* What is counted for a correct peer is what it sent.
CountsGenuine ==
  \A i, j \in Correct :
    /\ \A v \in Val : j \in node[i].echoes[v] => v \in node[j].sentEchoes
    /\ \A v \in Val : j \in node[i].voted[v] => node[j].vote = v
    /\ \A v \in Decisions : j \in node[i].bound[v] => node[j].bind = v

\* What f+1 nodes echo was proposed by enough correct ones.
Proposers(v) == {i \in Correct : node[i].est = v}
Enough(S) == S # {} /\ Cardinality(S) > F - Cardinality(Faulty)
EchoesRooted ==
  \A i \in Correct, v \in Val :
    Cardinality(node[i].echoes[v]) >= F + 1 => Enough(Proposers(v))

IInv ==
  /\ TypeOK /\ (\A i \in Correct : LocalInv(node[i]))
  /\ CountsGenuine /\ EchoesRooted

-----------------------------------------------------------------------------
(***************************************************************************)
(* Sets of nodes and their sizes.                                          *)
(***************************************************************************)
LEMMA Numbers ==
  /\ N \in Nat /\ F \in Nat /\ 3 * F < N /\ Cardinality(Faulty) \in Nat
  /\ Cardinality(Faulty) <= F /\ IsFiniteSet(Nodes) /\ IsFiniteSet(Faulty)
  /\ Faulty \subseteq Nodes /\ Correct \subseteq Nodes
<1>1. IsFiniteSet(Nodes) /\ Faulty \in SUBSET Nodes
  BY NodesAssumption
<1>2. IsFiniteSet(Faulty)
  BY <1>1, FS_Subset
<1> QED
  BY <1>1, <1>2, FS_CardinalityType, ThresholdAssumption DEF N, Correct

LEMMA Sizes ==
  ASSUME NEW S \in SUBSET Nodes
  PROVE  IsFiniteSet(S) /\ Cardinality(S) \in Nat /\ Cardinality(S) <= N
BY Numbers, FS_Subset, FS_CardinalityType DEF N

LEMMA LargerSize ==
  ASSUME NEW S \in SUBSET Nodes, NEW T \in SUBSET S
  PROVE  Cardinality(T) <= Cardinality(S) /\ (Quorum(T) => Quorum(S))
<1>1. IsFiniteSet(S) /\ Cardinality(S) \in Nat /\ Cardinality(T) \in Nat /\ T \in SUBSET Nodes
  BY Sizes
<1>2. Cardinality(T) <= Cardinality(S)
  BY <1>1, FS_Subset
<1> QED
  BY <1>1, <1>2, Numbers DEF Quorum

LEMMA OneMore ==
  ASSUME NEW S \in SUBSET Nodes, NEW j \in Nodes, j \notin S
  PROVE  /\ S \cup {j} \in SUBSET Nodes /\ Cardinality(S \cup {j}) = Cardinality(S) + 1
         /\ Cardinality(S) \in Nat
BY Sizes, FS_AddElement

\* Disjoint sets are not both quorums, and two quorums share a correct node.
LEMMA Disjoint ==
  ASSUME NEW S \in SUBSET Nodes, NEW T \in SUBSET Nodes, Quorum(S), Quorum(T)
  PROVE  S \cap T # {} /\ \E j \in Correct : j \in S /\ j \in T
<1>1. IsFiniteSet(S) /\ IsFiniteSet(T)
  BY Sizes
<1>2. Cardinality(S \cup T) = Cardinality(S) + Cardinality(T) - Cardinality(S \cap T)
  BY <1>1, FS_Union
<1>3. /\ Cardinality(S \cup T) \in Nat /\ Cardinality(S \cup T) <= N
      /\ Cardinality(S) \in Nat /\ Cardinality(T) \in Nat /\ Cardinality(S \cap T) \in Nat
  BY Sizes
<1>4. Cardinality(S \cap T) > Cardinality(Faulty)
  BY <1>2, <1>3, Numbers DEF Quorum
<1>5. ~(S \cap T \subseteq Faulty)
  <2>1. S \cap T \in SUBSET Faulty => Cardinality(S \cap T) <= Cardinality(Faulty)
    BY Numbers, FS_Subset
  <2> QED
    BY <1>3, <1>4, <2>1, Numbers
<1> QED
  BY <1>5 DEF Correct

LEMMA HasCorrect ==
  ASSUME NEW S \in SUBSET Nodes, Cardinality(S) >= F + 1
  PROVE  /\ \E j \in Correct : j \in S
         /\ Cardinality(S \ Faulty) \in Nat
         /\ Cardinality(S \ Faulty) >= Cardinality(S) - Cardinality(Faulty)
<1>1. IsFiniteSet(S) /\ Cardinality(S) \in Nat
  BY Sizes
<1>2. Cardinality(S \ Faulty) = Cardinality(S) - Cardinality(S \cap Faulty)
  BY <1>1, FS_Difference
<1>3. Cardinality(S \cap Faulty) \in Nat /\ Cardinality(S \cap Faulty) <= Cardinality(Faulty)
  BY Numbers, Sizes, FS_Subset
<1>4. Cardinality(S \ Faulty) \in Nat
  BY Sizes
<1>5. S \ Faulty # {}
  BY <1>1, <1>2, <1>3, <1>4, Numbers, FS_EmptySet
<1> QED
  BY <1>1, <1>2, <1>3, <1>4, <1>5, Numbers DEF Correct

LEMMA QuorumIsLarge ==
  ASSUME NEW S \in SUBSET Nodes, Quorum(S)
  PROVE  Cardinality(S) >= F + 1 /\ \E j \in Correct : j \in S
<1>1. Cardinality(S) >= F + 1
  BY Sizes, Numbers DEF Quorum
<1> QED
  BY <1>1, HasCorrect

-----------------------------------------------------------------------------
(***************************************************************************)
(* What the handlers and goroutines do to a node: from state s to state t. *)
(***************************************************************************)
AfterPropose(s, t, v) ==
  /\ s.est = None /\ t.est = v /\ t.sentEchoes = s.sentEchoes \cup {v}
  /\ t.echoes = s.echoes /\ t.voted = s.voted /\ t.bound = s.bound /\ t.vote = s.vote
  /\ t.bind = s.bind /\ t.approveVal = s.approveVal /\ t.bindBot = s.bindBot /\ t.bindVal = s.bindVal
  /\ t.terminateBot = s.terminateBot /\ t.terminateVal = s.terminateVal /\ t.unblock = s.unblock /\ t.voter = s.voter
  /\ t.decision = s.decision

AfterEcho(s, t, j, v) ==
  LET k == Cardinality(t.echoes[v]) IN
  /\ j \notin s.echoes[v] /\ t.echoes = [s.echoes EXCEPT ![v] = @ \cup {j}]
  /\ t.sentEchoes = (IF k = F + 1 THEN s.sentEchoes \cup {v} ELSE s.sentEchoes)
  /\ t.approveVal = (IF k = N - F THEN Append(s.approveVal, v) ELSE s.approveVal)
  /\ t.est = s.est /\ t.voted = s.voted /\ t.bound = s.bound /\ t.vote = s.vote
  /\ t.bind = s.bind /\ t.bindBot = s.bindBot /\ t.bindVal = s.bindVal /\ t.terminateBot = s.terminateBot
  /\ t.terminateVal = s.terminateVal /\ t.unblock = s.unblock /\ t.voter = s.voter /\ t.decision = s.decision

AfterVote(s, t, j, v) ==
  /\ j \notin Voters(s) /\ t.voted = [s.voted EXCEPT ![v] = @ \cup {j}]
  /\ t.bindVal = IF Cardinality(t.voted[v]) = N - F /\ Cardinality(t.voted[1 - v]) < N - F
                 THEN Append(s.bindVal, v) ELSE s.bindVal
  /\ t.est = s.est /\ t.echoes = s.echoes /\ t.bound = s.bound /\ t.sentEchoes = s.sentEchoes
  /\ t.vote = s.vote /\ t.bind = s.bind /\ t.approveVal = s.approveVal /\ t.bindBot = s.bindBot
  /\ t.terminateBot = s.terminateBot /\ t.terminateVal = s.terminateVal /\ t.unblock = s.unblock /\ t.voter = s.voter
  /\ t.decision = s.decision

AfterBind(s, t, j, v) ==
  LET all  == Cardinality(t.bound[v]) = N - F
      some == ~all /\ Cardinality(Binders(t)) = N - F
  IN
  /\ j \notin Binders(s) /\ t.bound = [s.bound EXCEPT ![v] = @ \cup {j}]
  /\ t.terminateVal = (IF all THEN Append(s.terminateVal, v) ELSE s.terminateVal)
  /\ t.terminateBot = (IF some THEN s.terminateBot + 1 ELSE s.terminateBot)
  /\ t.est = s.est /\ t.echoes = s.echoes /\ t.voted = s.voted /\ t.sentEchoes = s.sentEchoes
  /\ t.vote = s.vote /\ t.bind = s.bind /\ t.approveVal = s.approveVal /\ t.bindBot = s.bindBot
  /\ t.bindVal = s.bindVal /\ t.unblock = s.unblock /\ t.voter = s.voter /\ t.decision = s.decision

AfterFirst(s, t) ==
  /\ s.voter = "first" /\ s.approveVal # <<>>
  /\ t.voter = "second" /\ t.vote = Head(s.approveVal) /\ t.approveVal = Tail(s.approveVal)
  /\ t.est = s.est /\ t.echoes = s.echoes /\ t.voted = s.voted /\ t.bound = s.bound
  /\ t.sentEchoes = s.sentEchoes /\ t.bind = s.bind /\ t.bindBot = s.bindBot /\ t.bindVal = s.bindVal
  /\ t.terminateBot = s.terminateBot /\ t.terminateVal = s.terminateVal /\ t.unblock = s.unblock /\ t.decision = s.decision

AfterSecond(s, t) ==
  /\ s.voter = "second" /\ s.approveVal # <<>>
  /\ t.voter = "done" /\ t.approveVal = Tail(s.approveVal)
  /\ t.bindBot = s.bindBot + 1 /\ t.terminateBot = s.terminateBot + 1
  /\ t.est = s.est /\ t.echoes = s.echoes /\ t.voted = s.voted /\ t.bound = s.bound
  /\ t.sentEchoes = s.sentEchoes /\ t.vote = s.vote /\ t.bind = s.bind /\ t.bindVal = s.bindVal
  /\ t.terminateVal = s.terminateVal /\ t.unblock = s.unblock /\ t.decision = s.decision

AfterUnblock(s, t) ==
  /\ s.voter = "second" /\ s.unblock > 0 /\ t.voter = "done" /\ t.unblock = s.unblock - 1
  /\ t.est = s.est /\ t.echoes = s.echoes /\ t.voted = s.voted /\ t.bound = s.bound
  /\ t.sentEchoes = s.sentEchoes /\ t.vote = s.vote /\ t.bind = s.bind /\ t.approveVal = s.approveVal
  /\ t.bindBot = s.bindBot /\ t.bindVal = s.bindVal /\ t.terminateBot = s.terminateBot /\ t.terminateVal = s.terminateVal
  /\ t.decision = s.decision

AfterBindBot(s, t) ==
  /\ s.bind = None /\ s.bindBot > 0 /\ t.bind = bot /\ t.bindBot = s.bindBot - 1
  /\ t.est = s.est /\ t.echoes = s.echoes /\ t.voted = s.voted /\ t.bound = s.bound
  /\ t.sentEchoes = s.sentEchoes /\ t.vote = s.vote /\ t.approveVal = s.approveVal /\ t.bindVal = s.bindVal
  /\ t.terminateBot = s.terminateBot /\ t.terminateVal = s.terminateVal /\ t.unblock = s.unblock /\ t.voter = s.voter
  /\ t.decision = s.decision

AfterBindVal(s, t) ==
  /\ s.bind = None /\ s.bindVal # <<>>
  /\ t.bind = Head(s.bindVal) /\ t.bindVal = Tail(s.bindVal)
  /\ t.est = s.est /\ t.echoes = s.echoes /\ t.voted = s.voted /\ t.bound = s.bound
  /\ t.sentEchoes = s.sentEchoes /\ t.vote = s.vote /\ t.approveVal = s.approveVal /\ t.bindBot = s.bindBot
  /\ t.terminateBot = s.terminateBot /\ t.terminateVal = s.terminateVal /\ t.unblock = s.unblock /\ t.voter = s.voter
  /\ t.decision = s.decision

AfterDecideVal(s, t) ==
  /\ s.decision = None /\ s.terminateVal # <<>> /\ t.unblock = s.unblock + 1
  /\ t.decision = Head(s.terminateVal) /\ t.terminateVal = Tail(s.terminateVal)
  /\ t.est = s.est /\ t.echoes = s.echoes /\ t.voted = s.voted /\ t.bound = s.bound
  /\ t.sentEchoes = s.sentEchoes /\ t.vote = s.vote /\ t.bind = s.bind /\ t.approveVal = s.approveVal
  /\ t.bindBot = s.bindBot /\ t.bindVal = s.bindVal /\ t.terminateBot = s.terminateBot /\ t.voter = s.voter

AfterDecideBot(s, t) ==
  /\ s.decision = None /\ s.terminateBot >= 2 /\ t.unblock = s.unblock + 1
  /\ t.decision = bot /\ t.terminateBot = s.terminateBot - 2
  /\ t.est = s.est /\ t.echoes = s.echoes /\ t.voted = s.voted /\ t.bound = s.bound
  /\ t.sentEchoes = s.sentEchoes /\ t.vote = s.vote /\ t.bind = s.bind /\ t.approveVal = s.approveVal
  /\ t.bindBot = s.bindBot /\ t.bindVal = s.bindVal /\ t.terminateVal = s.terminateVal /\ t.voter = s.voter

\* A step takes one node from its state to such a state t.
Moves(i, t) == t \in NodeState /\ node' = [node EXCEPT ![i] = t]

LEMMA ProposeMoves ==
  ASSUME TypeOK, NEW i \in Correct, NEW v \in Val, propose(i, v)
  PROVE  \E t : Moves(i, t) /\ AfterPropose(node[i], t, v)
<1> DEFINE t == [node[i] EXCEPT !.est = v, !.sentEchoes = @ \cup {v}]
<1>1. node[i] \in NodeState
  BY DEF TypeOK
<1>2. t \in NodeState /\ AfterPropose(node[i], t, v)
  BY <1>1 DEF NodeState, AfterPropose, propose
<1>3. node' = [node EXCEPT ![i] = t]
  BY <1>1 DEF TypeOK, propose, NodeState
<1> QED
  BY <1>2, <1>3 DEF Moves

LEMMA EchoMoves ==
  ASSUME TypeOK, NEW i \in Correct, NEW j \in Nodes, NEW v \in Val, submitEcho(i, j, v)
  PROVE  \E t : Moves(i, t) /\ AfterEcho(node[i], t, j, v)
<1> DEFINE s == [node[i] EXCEPT !.echoes[v] = @ \cup {j}]
           k == len(s.echoes[v])
           t == [s EXCEPT !.sentEchoes = IF k = F + 1 THEN @ \cup {v} ELSE @,
                          !.approveVal = IF k = N - F THEN Append(@, v) ELSE @]
<1>1. node[i] \in NodeState
  BY DEF TypeOK
<1>2. /\ s \in NodeState /\ s.echoes = [node[i].echoes EXCEPT ![v] = @ \cup {j}]
      /\ s.est = node[i].est /\ s.voted = node[i].voted /\ s.bound = node[i].bound /\ s.sentEchoes = node[i].sentEchoes
      /\ s.vote = node[i].vote /\ s.bind = node[i].bind /\ s.approveVal = node[i].approveVal /\ s.bindBot = node[i].bindBot
      /\ s.bindVal = node[i].bindVal /\ s.terminateBot = node[i].terminateBot /\ s.terminateVal = node[i].terminateVal /\ s.unblock = node[i].unblock
      /\ s.voter = node[i].voter /\ s.decision = node[i].decision
  BY <1>1 DEF NodeState
<1>3. t \in NodeState
  <2>1. /\ (IF k = F + 1 THEN s.sentEchoes \cup {v} ELSE s.sentEchoes) \in SUBSET Val
        /\ (IF k = N - F THEN Append(s.approveVal, v) ELSE s.approveVal) \in Seq(Val)
    <3> HIDE DEF s, k
    <3> QED
      BY <1>2, AppendProperties DEF NodeState
  <2> HIDE DEF s, k
  <2> QED
    BY <1>2, <2>1 DEF NodeState
<1>4. AfterEcho(node[i], t, j, v)
  <2>1. j \notin node[i].echoes[v]
    BY DEF submitEcho
  <2> HIDE DEF s
  <2> QED
    BY <1>2, <2>1 DEF NodeState, AfterEcho, len
<1>5. node' = [node EXCEPT ![i] = t]
  BY DEF submitEcho
<1> QED
  BY <1>3, <1>4, <1>5 DEF Moves

LEMMA VoteMoves ==
  ASSUME TypeOK, NEW i \in Correct, NEW j \in Nodes, NEW v \in Val, submitVote(i, j, v)
  PROVE  \E t : Moves(i, t) /\ AfterVote(node[i], t, j, v)
<1> DEFINE s == [node[i] EXCEPT !.voted[v] = @ \cup {j}]
           t == [s EXCEPT !.bindVal =
                   IF len(s.voted[v]) = N - F /\ len(s.voted[1 - v]) < N - F
                   THEN Append(@, v) ELSE @]
<1>1. node[i] \in NodeState
  BY DEF TypeOK
<1>2. /\ s \in NodeState /\ s.voted = [node[i].voted EXCEPT ![v] = @ \cup {j}]
      /\ s.est = node[i].est /\ s.echoes = node[i].echoes /\ s.bound = node[i].bound /\ s.sentEchoes = node[i].sentEchoes
      /\ s.vote = node[i].vote /\ s.bind = node[i].bind /\ s.approveVal = node[i].approveVal /\ s.bindBot = node[i].bindBot
      /\ s.bindVal = node[i].bindVal /\ s.terminateBot = node[i].terminateBot /\ s.terminateVal = node[i].terminateVal /\ s.unblock = node[i].unblock
      /\ s.voter = node[i].voter /\ s.decision = node[i].decision
  BY <1>1 DEF NodeState
<1>3. t \in NodeState
  <2> HIDE DEF s
  <2>1. Append(s.bindVal, v) \in Seq(Val) /\ s.bindVal \in Seq(Val)
    BY <1>2, AppendProperties DEF NodeState
  <2> QED
    BY <1>2, <2>1 DEF NodeState
<1>4. AfterVote(node[i], t, j, v)
  <2>1. j \notin Voters(node[i])
    BY DEF submitVote
  <2> HIDE DEF s
  <2> QED
    BY <1>2, <2>1 DEF NodeState, AfterVote, len
<1>5. node' = [node EXCEPT ![i] = t]
  BY DEF submitVote
<1> QED
  BY <1>3, <1>4, <1>5 DEF Moves

LEMMA BindMoves ==
  ASSUME TypeOK, NEW i \in Correct, NEW j \in Nodes, NEW v \in Decisions, submitBind(i, j, v)
  PROVE  \E t : Moves(i, t) /\ AfterBind(node[i], t, j, v)
<1> DEFINE s == [node[i] EXCEPT !.bound[v] = @ \cup {j}]
           t == IF len(s.bound[v]) = N - F THEN [s EXCEPT !.terminateVal = Append(@, v)]
                ELSE IF len(Binders(s)) = N - F THEN [s EXCEPT !.terminateBot = @ + 1]
                ELSE s
<1>1. node[i] \in NodeState
  BY DEF TypeOK
<1>2. /\ s \in NodeState /\ s.bound = [node[i].bound EXCEPT ![v] = @ \cup {j}]
      /\ s.est = node[i].est /\ s.echoes = node[i].echoes /\ s.voted = node[i].voted /\ s.sentEchoes = node[i].sentEchoes
      /\ s.vote = node[i].vote /\ s.bind = node[i].bind /\ s.approveVal = node[i].approveVal /\ s.bindBot = node[i].bindBot
      /\ s.bindVal = node[i].bindVal /\ s.terminateBot = node[i].terminateBot /\ s.terminateVal = node[i].terminateVal /\ s.unblock = node[i].unblock
      /\ s.voter = node[i].voter /\ s.decision = node[i].decision
  BY <1>1 DEF NodeState
<1>3. t \in NodeState
  <2> HIDE DEF s
  <2>1. Append(s.terminateVal, v) \in Seq(Decisions) /\ s.terminateBot + 1 \in Nat
    BY <1>2, AppendProperties DEF NodeState
  <2>2. [s EXCEPT !.terminateVal = Append(@, v)] \in NodeState
    BY <1>2, <2>1 DEF NodeState
  <2>3. [s EXCEPT !.terminateBot = @ + 1] \in NodeState
    BY <1>2, <2>1 DEF NodeState
  <2> QED
    BY <1>2, <2>2, <2>3
<1>4. t.bound = s.bound /\ Binders(t) = Binders(s)
  BY <1>2 DEF NodeState, Binders
<1>5. AfterBind(node[i], t, j, v)
  <2>1. j \notin Binders(node[i])
    BY DEF submitBind
  <2> HIDE DEF s
  <2> QED
    BY <1>2, <1>4, <2>1 DEF NodeState, AfterBind, len
<1>6. node' = [node EXCEPT ![i] = t]
  BY DEF submitBind
<1> QED
  BY <1>3, <1>5, <1>6 DEF Moves

LEMMA VoterMoves ==
  ASSUME TypeOK, NEW i \in Correct, waitToVote(i)
  PROVE  \E t : Moves(i, t) /\ \/ AfterFirst(node[i], t) \/ AfterSecond(node[i], t)
                               \/ AfterUnblock(node[i], t)
<1> DEFINE s == node[i]
           t1 == [s EXCEPT !.voter = "second", !.vote = Head(s.approveVal), !.approveVal = Tail(@)]
           t2 == [s EXCEPT !.voter = "done", !.approveVal = Tail(@),
                           !.bindBot = @ + 1, !.terminateBot = @ + 1]
           t3 == [s EXCEPT !.voter = "done", !.unblock = @ - 1]
<1>1. s \in NodeState
  BY DEF TypeOK
<1>2. ASSUME s.voter = "first", s.approveVal # <<>> PROVE t1 \in NodeState /\ AfterFirst(s, t1)
  <2>1. Head(s.approveVal) \in Val /\ Tail(s.approveVal) \in Seq(Val)
    BY <1>1, <1>2, HeadTailProperties DEF NodeState
  <2> QED
    BY <1>1, <1>2, <2>1 DEF NodeState, AfterFirst
<1>3. ASSUME s.voter = "second", s.approveVal # <<>> PROVE t2 \in NodeState /\ AfterSecond(s, t2)
  <2>1. Tail(s.approveVal) \in Seq(Val) /\ s.bindBot + 1 \in Nat /\ s.terminateBot + 1 \in Nat
    BY <1>1, <1>3, HeadTailProperties DEF NodeState
  <2> QED
    BY <1>1, <1>3, <2>1 DEF NodeState, AfterSecond
<1>4. ASSUME s.voter = "second", s.unblock > 0 PROVE t3 \in NodeState /\ AfterUnblock(s, t3)
  <2>1. s.unblock - 1 \in Nat
    BY <1>1, <1>4 DEF NodeState
  <2> QED
    BY <1>1, <1>4, <2>1 DEF NodeState, AfterUnblock
<1> QED
  BY <1>2, <1>3, <1>4 DEF waitToVote, Moves

LEMMA BinderMoves ==
  ASSUME TypeOK, NEW i \in Correct, waitToBind(i)
  PROVE  \E t : Moves(i, t) /\ (AfterBindBot(node[i], t) \/ AfterBindVal(node[i], t))
<1> DEFINE s == node[i]
           t1 == [s EXCEPT !.bind = bot, !.bindBot = @ - 1]
           t2 == [s EXCEPT !.bind = Head(s.bindVal), !.bindVal = Tail(@)]
<1>1. s \in NodeState
  BY DEF TypeOK
<1>2. ASSUME s.bind = None, s.bindBot > 0 PROVE t1 \in NodeState /\ AfterBindBot(s, t1)
  <2>1. s.bindBot - 1 \in Nat /\ bot \in Decisions
    BY <1>1, <1>2 DEF NodeState, Decisions
  <2> QED
    BY <1>1, <1>2, <2>1 DEF NodeState, AfterBindBot
<1>3. ASSUME s.bind = None, s.bindVal # <<>> PROVE t2 \in NodeState /\ AfterBindVal(s, t2)
  <2>1. Head(s.bindVal) \in Decisions /\ Tail(s.bindVal) \in Seq(Val)
    BY <1>1, <1>3, HeadTailProperties DEF NodeState, Decisions
  <2> QED
    BY <1>1, <1>3, <2>1 DEF NodeState, AfterBindVal
<1> QED
  BY <1>2, <1>3 DEF waitToBind, Moves

LEMMA DeciderMoves ==
  ASSUME TypeOK, NEW i \in Correct, waitToDecide(i)
  PROVE  \E t : Moves(i, t) /\ (AfterDecideVal(node[i], t) \/ AfterDecideBot(node[i], t))
<1> DEFINE s == node[i]
           t1 == [[s EXCEPT !.decision = Head(s.terminateVal), !.unblock = @ + 1]
                    EXCEPT !.terminateVal = Tail(@)]
           t2 == [[s EXCEPT !.decision = bot, !.unblock = @ + 1] EXCEPT !.terminateBot = @ - 2]
<1>1. s \in NodeState
  BY DEF TypeOK
<1>2. ASSUME s.decision = None, s.terminateVal # <<>> PROVE t1 \in NodeState /\ AfterDecideVal(s, t1)
  <2>1. /\ Head(s.terminateVal) \in Decisions /\ Tail(s.terminateVal) \in Seq(Decisions)
        /\ s.unblock + 1 \in Nat
    BY <1>1, <1>2, HeadTailProperties DEF NodeState
  <2> QED
    BY <1>1, <1>2, <2>1 DEF NodeState, AfterDecideVal
<1>3. ASSUME s.decision = None, s.terminateBot >= 2 PROVE t2 \in NodeState /\ AfterDecideBot(s, t2)
  <2>1. s.terminateBot - 2 \in Nat /\ s.unblock + 1 \in Nat /\ bot \in Decisions
    BY <1>1, <1>3 DEF NodeState, Decisions
  <2> QED
    BY <1>1, <1>3, <2>1 DEF NodeState, AfterDecideBot
<1> QED
  BY <1>2, <1>3 DEF waitToDecide, Moves

-----------------------------------------------------------------------------
(***************************************************************************)
(* They keep the state of a node in order.                                 *)
(***************************************************************************)
\* The parts only look at some of the fields.
LEMMA PartsLook ==
  ASSUME NEW s \in NodeState, NEW t \in NodeState, LocalInv(s)
  PROVE  /\ ( /\ t.echoes = s.echoes /\ t.approveVal = s.approveVal
              /\ t.vote = s.vote /\ t.voter = s.voter ) => ApprovalsRight(t)
         /\ ( /\ t.echoes = s.echoes /\ t.voter = s.voter /\ t.bindBot = s.bindBot
              /\ t.bind = s.bind /\ t.bindVal = s.bindVal /\ t.voted = s.voted ) => BindsRight(t)
         /\ ( /\ t.echoes = s.echoes /\ t.voter = s.voter /\ t.bound = s.bound
              /\ t.terminateVal = s.terminateVal
              /\ t.terminateBot = s.terminateBot ) => TerminatesRight(t)
         /\ ( /\ t.echoes = s.echoes /\ t.bound = s.bound /\ t.decision = s.decision
              /\ t.unblock = s.unblock ) => DecidesRight(t)
         /\ ( /\ t.echoes = s.echoes /\ t.sentEchoes = s.sentEchoes
              /\ t.est = s.est ) => EchoesRight(t)
<1>1. t.bound = s.bound => Binders(t) = Binders(s)
  BY DEF Binders
<1>2. t.echoes = s.echoes => (Both(t) <=> Both(s))
  BY DEF Both, Approved
<1>3. ApprovalsRight(s) /\ BindsRight(s) /\ TerminatesRight(s) /\ DecidesRight(s) /\ EchoesRight(s)
  BY DEF LocalInv
<1>4. ( /\ t.echoes = s.echoes /\ t.approveVal = s.approveVal
        /\ t.vote = s.vote /\ t.voter = s.voter ) => ApprovalsRight(t)
  BY <1>3 DEF ApprovalsRight, Approved
<1>5. ( /\ t.echoes = s.echoes /\ t.voter = s.voter /\ t.bindBot = s.bindBot
        /\ t.bind = s.bind /\ t.bindVal = s.bindVal /\ t.voted = s.voted ) => BindsRight(t)
  BY <1>2, <1>3 DEF BindsRight
<1>6. ( /\ t.echoes = s.echoes /\ t.voter = s.voter /\ t.bound = s.bound
        /\ t.terminateVal = s.terminateVal
        /\ t.terminateBot = s.terminateBot ) => TerminatesRight(t)
  BY <1>1, <1>2, <1>3 DEF TerminatesRight
<1>7. ( /\ t.echoes = s.echoes /\ t.bound = s.bound /\ t.decision = s.decision
        /\ t.unblock = s.unblock ) => DecidesRight(t)
  BY <1>1, <1>2, <1>3 DEF DecidesRight
<1>8. ( /\ t.echoes = s.echoes /\ t.sentEchoes = s.sentEchoes
        /\ t.est = s.est ) => EchoesRight(t)
  BY <1>3 DEF EchoesRight
<1> QED
  BY <1>4, <1>5, <1>6, <1>7, <1>8

LEMMA ProposeLocal ==
  ASSUME NEW s \in NodeState, NEW t \in NodeState, LocalInv(s),
         NEW v \in Val, AfterPropose(s, t, v)
  PROVE  LocalInv(t)
<1>1. EchoesRight(t)
  <2>1. \A w \in s.sentEchoes : Cardinality(s.echoes[w]) >= F + 1
    BY NoneAssumption DEF LocalInv, EchoesRight, AfterPropose, NodeState, Decisions
  <2> QED
    BY <2>1 DEF AfterPropose, EchoesRight
<1> QED
  BY <1>1, PartsLook DEF AfterPropose, LocalInv

LEMMA EchoLocal ==
  ASSUME NEW s \in NodeState, NEW t \in NodeState, LocalInv(s),
         NEW j \in Nodes, NEW v \in Val, AfterEcho(s, t, j, v)
  PROVE  LocalInv(t)
<1> DEFINE k == Cardinality(t.echoes[v])
<1>1. /\ \A w \in Val : s.echoes[w] \in SUBSET Nodes /\ t.echoes[w] \in SUBSET Nodes
      /\ \A w \in Val : s.echoes[w] \in SUBSET t.echoes[w]
      /\ t.echoes[v] = s.echoes[v] \cup {j} /\ j \notin s.echoes[v]
  BY DEF AfterEcho, NodeState
<1>2. k = Cardinality(s.echoes[v]) + 1 /\ Cardinality(s.echoes[v]) \in Nat
  BY <1>1, OneMore
<1>3. \A w \in Val : Approved(s, w) => Approved(t, w)
  BY <1>1, LargerSize DEF Approved
<1>4. Both(s) => Both(t)
  BY <1>3 DEF Both
<1>5. k = N - F => Approved(t, v) /\ ~Approved(s, v)
  BY <1>2, Numbers DEF Approved, Quorum
<1>6. ApprovalsRight(t)
  <2>1. ApprovalsRight(s) /\ t.vote = s.vote /\ t.voter = s.voter /\ s.approveVal \in Seq(Val)
        /\ s.vote \in Val \cup {None}
    BY DEF LocalInv, AfterEcho, NodeState
  <2>2. CASE k = N - F
    <3>1. t.approveVal = Append(s.approveVal, v)
      BY <2>2 DEF AfterEcho
    <3>2. /\ Len(t.approveVal) = Len(s.approveVal) + 1 /\ t.approveVal[Len(s.approveVal) + 1] = v
          /\ \A x \in 1 .. Len(s.approveVal) : t.approveVal[x] = s.approveVal[x]
          /\ Len(s.approveVal) \in Nat
      BY <2>1, <3>1, AppendProperties, LenProperties
    <3>3. \A x \in 1 .. Len(s.approveVal) : s.approveVal[x] \in Val /\ s.approveVal[x] # v
      BY <1>5, <2>1, <2>2, ElementOfSeq DEF ApprovalsRight
    <3>4. s.vote # v
      BY <1>5, <2>1, <2>2, NoneAssumption DEF ApprovalsRight, Decisions
    <3>5. \A x \in 1 .. Len(t.approveVal) : Approved(t, t.approveVal[x]) /\ t.approveVal[x] # t.vote
      <4> TAKE x \in 1 .. Len(t.approveVal)
      <4>1. CASE x \in 1 .. Len(s.approveVal)
        BY <1>3, <2>1, <3>2, <3>3, <4>1 DEF ApprovalsRight
      <4>2. CASE x = Len(s.approveVal) + 1
        BY <1>5, <2>1, <2>2, <3>2, <3>4, <4>2
      <4> QED
        BY <3>2, <4>1, <4>2
    <3>6. \A x, y \in 1 .. Len(t.approveVal) : t.approveVal[x] = t.approveVal[y] => x = y
      <4>1. \A x, y \in 1 .. Len(s.approveVal) : s.approveVal[x] = s.approveVal[y] => x = y
        BY <2>1 DEF ApprovalsRight
      <4>2. \A x \in 1 .. Len(t.approveVal) : x \in 1 .. Len(s.approveVal) \/ x = Len(s.approveVal) + 1
        BY <3>2
      <4> TAKE x, y \in 1 .. Len(t.approveVal)
      <4>3. CASE x \in 1 .. Len(s.approveVal) /\ y \in 1 .. Len(s.approveVal)
        BY <3>2, <4>1, <4>3
      <4>4. CASE x \in 1 .. Len(s.approveVal) /\ y = Len(s.approveVal) + 1
        BY <3>2, <3>3, <4>4
      <4>5. CASE y \in 1 .. Len(s.approveVal) /\ x = Len(s.approveVal) + 1
        BY <3>2, <3>3, <4>5
      <4> QED
        BY <4>2, <4>3, <4>4, <4>5
    <3> QED
      BY <1>3, <2>1, <3>5, <3>6 DEF ApprovalsRight
  <2>3. CASE k # N - F
    <3>1. t.approveVal = s.approveVal
      BY <2>3 DEF AfterEcho
    <3>2. \A x \in 1 .. Len(s.approveVal) : s.approveVal[x] \in Val
      BY <2>1, ElementOfSeq
    <3> QED
      BY <1>3, <2>1, <3>1, <3>2 DEF ApprovalsRight
  <2> QED
    BY <2>2, <2>3
<1>7. BindsRight(t)
  BY <1>4 DEF LocalInv, BindsRight, AfterEcho
<1>8. TerminatesRight(t)
  <2>1. Binders(t) = Binders(s)
    BY DEF Binders, AfterEcho
  <2> QED
    BY <1>4, <2>1 DEF LocalInv, TerminatesRight, AfterEcho
<1>9. DecidesRight(t)
  <2>1. Binders(t) = Binders(s)
    BY DEF Binders, AfterEcho
  <2> QED
    BY <1>4, <2>1 DEF LocalInv, DecidesRight, AfterEcho
<1>10. EchoesRight(t)
  <2>1. \A w \in Val : Cardinality(s.echoes[w]) >= F + 1 => Cardinality(t.echoes[w]) >= F + 1
    <3> TAKE w \in Val
    <3>1. Cardinality(s.echoes[w]) <= Cardinality(t.echoes[w])
      BY <1>1, LargerSize
    <3>2. Cardinality(s.echoes[w]) \in Nat /\ Cardinality(t.echoes[w]) \in Nat
      BY <1>1, Sizes
    <3> QED
      BY <3>1, <3>2, Numbers
  <2>2. \A w \in t.sentEchoes : w \in s.sentEchoes \/ (w = v /\ k = F + 1)
    BY DEF AfterEcho
  <2>3. \A w \in s.sentEchoes : w \in Val /\ (s.est = w \/ Cardinality(s.echoes[w]) >= F + 1)
    BY DEF LocalInv, EchoesRight, NodeState
  <2>4. t.est = s.est
    BY DEF AfterEcho
  <2> QED
    BY <2>1, <2>2, <2>3, <2>4, Numbers DEF EchoesRight
<1> QED
  BY <1>6, <1>7, <1>8, <1>9, <1>10 DEF LocalInv

LEMMA VoteLocal ==
  ASSUME NEW s \in NodeState, NEW t \in NodeState, LocalInv(s),
         NEW j \in Nodes, NEW v \in Val, AfterVote(s, t, j, v)
  PROVE  LocalInv(t)
<1>1. /\ \A w \in Val : s.voted[w] \in SUBSET Nodes /\ t.voted[w] \in SUBSET Nodes
      /\ \A w \in Val : s.voted[w] \in SUBSET t.voted[w]
      /\ t.voted[v] = s.voted[v] \cup {j} /\ j \notin s.voted[v] /\ t.voted[1 - v] = s.voted[1 - v]
      /\ 1 - v \in Val
  BY DEF AfterVote, NodeState, Voters, Val
<1>2. /\ Cardinality(t.voted[v]) = Cardinality(s.voted[v]) + 1
      /\ Cardinality(s.voted[v]) \in Nat /\ Cardinality(s.voted[1 - v]) \in Nat
  BY <1>1, OneMore, Sizes
<1>3. \A w \in Val : Quorum(s.voted[w]) => Quorum(t.voted[w])
  BY <1>1, LargerSize
<1>4. BindsRight(t)
  <2>1. /\ BindsRight(s) /\ t.bindBot = s.bindBot /\ t.bind = s.bind /\ t.voter = s.voter
        /\ (Both(t) <=> Both(s)) /\ s.bindVal \in Seq(Val)
    BY DEF LocalInv, AfterVote, Both, Approved, NodeState
  <2>2. \A x \in 1 .. Len(s.bindVal) : s.bindVal[x] \in Val /\ Quorum(s.voted[s.bindVal[x]])
    BY <2>1, ElementOfSeq DEF BindsRight
  <2>3. CASE Cardinality(t.voted[v]) = N - F /\ Cardinality(t.voted[1 - v]) < N - F
    <3>1. t.bindVal = Append(s.bindVal, v)
      BY <2>3 DEF AfterVote
    <3>2. ~Quorum(s.voted[v]) /\ ~Quorum(s.voted[1 - v]) /\ Quorum(t.voted[v])
      BY <1>1, <1>2, <2>3, Numbers DEF Quorum
    <3>3. Len(s.bindVal) = 0
      <4>1. \A w \in Val : ~Quorum(s.voted[w])
        BY <3>2 DEF Val
      <4> QED
        BY <2>1, <2>2, <4>1, LenProperties
    <3>4. Len(t.bindVal) = 1 /\ t.bindVal[1] = v
      BY <2>1, <3>1, <3>3, AppendProperties
    <3> QED
      BY <1>3, <2>1, <3>2, <3>4 DEF BindsRight
  <2>4. CASE ~(Cardinality(t.voted[v]) = N - F /\ Cardinality(t.voted[1 - v]) < N - F)
    <3>1. t.bindVal = s.bindVal
      BY <2>4 DEF AfterVote
    <3> QED
      BY <1>3, <2>1, <2>2, <3>1 DEF BindsRight
  <2> QED
    BY <2>3, <2>4
<1> QED
  BY <1>4, PartsLook DEF AfterVote, LocalInv

LEMMA BindLocal ==
  ASSUME NEW s \in NodeState, NEW t \in NodeState, LocalInv(s),
         NEW j \in Nodes, NEW v \in Decisions, AfterBind(s, t, j, v)
  PROVE  LocalInv(t)
<1>1. /\ \A w \in Decisions : s.bound[w] \in SUBSET Nodes /\ t.bound[w] \in SUBSET Nodes
      /\ \A w \in Decisions : s.bound[w] \in SUBSET t.bound[w]
      /\ t.bound[v] = s.bound[v] \cup {j} /\ \A w \in Decisions : j \notin s.bound[w]
      /\ \A w \in Decisions \ {v} : t.bound[w] = s.bound[w]
  BY DEF AfterBind, NodeState, Binders
<1>2. /\ Binders(s) \in SUBSET Nodes /\ j \notin Binders(s) /\ Binders(t) = Binders(s) \cup {j}
  BY <1>1 DEF Binders, AfterBind
<1>3. /\ Cardinality(t.bound[v]) = Cardinality(s.bound[v]) + 1 /\ Cardinality(s.bound[v]) \in Nat
      /\ Cardinality(Binders(t)) = Cardinality(Binders(s)) + 1 /\ Cardinality(Binders(s)) \in Nat
  BY <1>1, <1>2, OneMore
<1>4. /\ \A w \in Decisions : Quorum(s.bound[w]) => Quorum(t.bound[w])
      /\ Quorum(Binders(s)) => Quorum(Binders(t))
  <2>1. Binders(t) \in SUBSET Nodes /\ Binders(s) \in SUBSET Binders(t)
    BY <1>2
  <2> QED
    BY <1>1, <2>1, LargerSize
<1>5. Both(t) <=> Both(s)
  BY DEF AfterBind, Both, Approved
<1>6. /\ TerminatesRight(s) /\ DecidesRight(s) /\ t.voter = s.voter
      /\ t.decision = s.decision /\ t.unblock = s.unblock
      /\ s.terminateVal \in Seq(Decisions) /\ s.terminateBot \in Nat
      /\ s.decision \in Decisions \cup {None}
  BY DEF LocalInv, AfterBind, NodeState
<1>7. TerminatesRight(t)
  <2>1. \A w, x \in Decisions : w # x => t.bound[w] \cap t.bound[x] = {}
    BY <1>1, <1>6 DEF TerminatesRight
  <2>2. \A x \in 1 .. Len(s.terminateVal) :
          s.terminateVal[x] \in Decisions /\ Quorum(s.bound[s.terminateVal[x]])
    BY <1>6, ElementOfSeq DEF TerminatesRight
  <2>3. Len(t.terminateVal) <= 1 /\ \A x \in 1 .. Len(t.terminateVal) : Quorum(t.bound[t.terminateVal[x]])
    <3>1. CASE Cardinality(t.bound[v]) = N - F
      <4>1. t.terminateVal = Append(s.terminateVal, v)
        BY <3>1 DEF AfterBind
      <4>2. Quorum(t.bound[v]) /\ ~Quorum(s.bound[v])
        BY <1>3, <3>1, Numbers DEF Quorum
      <4>3. \A w \in Decisions : ~Quorum(s.bound[w])
        <5>1. ASSUME NEW w \in Decisions, w # v PROVE ~Quorum(s.bound[w])
          BY <1>1, <1>4, <2>1, <4>2, <5>1, Disjoint
        <5> QED
          BY <4>2, <5>1
      <4>4. Len(s.terminateVal) = 0
        BY <1>6, <2>2, <4>3, LenProperties
      <4>5. Len(t.terminateVal) = 1 /\ t.terminateVal[1] = v
        BY <1>6, <4>1, <4>4, AppendProperties
      <4> QED
        BY <4>2, <4>5
    <3>2. CASE Cardinality(t.bound[v]) # N - F
      <4>1. t.terminateVal = s.terminateVal
        BY <3>2 DEF AfterBind
      <4> QED
        BY <1>4, <1>6, <2>2, <4>1 DEF TerminatesRight
    <3> QED
      BY <3>1, <3>2
  <2>4. \/ t.terminateBot = s.terminateBot
        \/ /\ t.terminateBot = s.terminateBot + 1
           /\ Quorum(Binders(t)) /\ ~Quorum(Binders(s))
    BY <1>3, Numbers DEF AfterBind, Quorum
  <2>5. CASE t.terminateBot = s.terminateBot
    BY <1>4, <1>5, <1>6, <2>1, <2>3, <2>5 DEF TerminatesRight
  <2>6. CASE t.terminateBot = s.terminateBot + 1 /\ Quorum(Binders(t)) /\ ~Quorum(Binders(s))
    <3>1. s.terminateBot <= 1 /\ (s.terminateBot = 0 \/ (s.voter = "done" /\ Both(s)))
      BY <1>6, <2>6 DEF TerminatesRight
    <3> QED
      BY <1>5, <1>6, <2>1, <2>3, <2>6, <3>1 DEF TerminatesRight
  <2> QED
    BY <2>4, <2>5, <2>6
<1>8. DecidesRight(t)
  BY <1>4, <1>5, <1>6 DEF DecidesRight, Decisions
<1> QED
  BY <1>7, <1>8, PartsLook DEF AfterBind, LocalInv

LEMMA FirstLocal ==
  ASSUME NEW s \in NodeState, NEW t \in NodeState, LocalInv(s), AfterFirst(s, t)
  PROVE  LocalInv(t)
<1>1. /\ s.approveVal \in Seq(Val) /\ s.approveVal # <<>>
      /\ s.voter = "first" /\ t.voter = "second" /\ t.vote = Head(s.approveVal)
      /\ t.approveVal = Tail(s.approveVal) /\ t.echoes = s.echoes
      /\ ApprovalsRight(s)
  BY DEF AfterFirst, NodeState, LocalInv
<1>2. /\ Len(s.approveVal) \in Nat \ {0} /\ t.vote = s.approveVal[1] /\ t.vote \in Val
      /\ Len(t.approveVal) = Len(s.approveVal) - 1
      /\ \A x \in 1 .. Len(t.approveVal) : t.approveVal[x] = s.approveVal[x + 1]
  BY <1>1, EmptySeq, HeadTailProperties, LenProperties
<1>3. ApprovalsRight(t)
  <2>1. \A x \in 1 .. Len(t.approveVal) : Approved(t, t.approveVal[x]) /\ t.approveVal[x] # t.vote
    BY <1>1, <1>2 DEF ApprovalsRight, Approved
  <2>2. \A x, y \in 1 .. Len(t.approveVal) : t.approveVal[x] = t.approveVal[y] => x = y
    BY <1>1, <1>2 DEF ApprovalsRight
  <2>3. Approved(t, t.vote) /\ t.vote # None
    BY <1>1, <1>2, NoneAssumption DEF ApprovalsRight, Approved, Decisions
  <2> QED
    BY <1>1, <2>1, <2>2, <2>3 DEF ApprovalsRight
<1>4. (Both(t) <=> Both(s)) /\ Binders(t) = Binders(s)
  BY DEF AfterFirst, Both, Approved, Binders
<1>5. BindsRight(t) /\ TerminatesRight(t)
  BY <1>4 DEF AfterFirst, LocalInv, BindsRight, TerminatesRight
<1> QED
  BY <1>3, <1>5, PartsLook DEF AfterFirst, LocalInv

LEMMA SecondLocal ==
  ASSUME NEW s \in NodeState, NEW t \in NodeState, LocalInv(s), AfterSecond(s, t)
  PROVE  LocalInv(t)
<1>1. /\ s.approveVal \in Seq(Val) /\ s.approveVal # <<>>
      /\ s.voter = "second" /\ t.voter = "done" /\ t.vote = s.vote
      /\ t.approveVal = Tail(s.approveVal) /\ t.echoes = s.echoes
      /\ ApprovalsRight(s) /\ s.vote \in Val \cup {None}
      /\ s.terminateBot \in Nat /\ s.bindBot \in Nat
  BY DEF AfterSecond, NodeState, LocalInv
<1>2. /\ Len(s.approveVal) \in Nat \ {0} /\ s.approveVal[1] \in Val
      /\ Len(t.approveVal) = Len(s.approveVal) - 1
      /\ \A x \in 1 .. Len(t.approveVal) : t.approveVal[x] = s.approveVal[x + 1]
  BY <1>1, EmptySeq, HeadTailProperties, LenProperties, ElementOfSeq
<1>3. ApprovalsRight(t)
  <2>1. \A x \in 1 .. Len(t.approveVal) : Approved(t, t.approveVal[x]) /\ t.approveVal[x] # t.vote
    BY <1>1, <1>2 DEF ApprovalsRight, Approved
  <2>2. \A x, y \in 1 .. Len(t.approveVal) : t.approveVal[x] = t.approveVal[y] => x = y
    BY <1>1, <1>2 DEF ApprovalsRight
  <2> QED
    BY <1>1, <2>1, <2>2 DEF ApprovalsRight, Approved
<1>4. Both(s) /\ Both(t)
  <2>1. s.vote \in Val /\ s.approveVal[1] # s.vote /\ Approved(s, s.vote) /\ Approved(s, s.approveVal[1])
    BY <1>1, <1>2 DEF ApprovalsRight
  <2> QED
    BY <1>1, <1>2, <2>1 DEF Both, Val, Approved
<1>5. Binders(t) = Binders(s)
  BY DEF AfterSecond, Binders
<1>6. BindsRight(t)
  BY <1>1, <1>4 DEF AfterSecond, LocalInv, BindsRight
<1>7. TerminatesRight(t)
  <2>1. /\ t.terminateBot = s.terminateBot + 1 /\ TerminatesRight(s)
        /\ t.bound = s.bound /\ t.terminateVal = s.terminateVal
    BY DEF AfterSecond, LocalInv
  <2>2. s.terminateBot = 0 \/ (s.terminateBot = 1 /\ Quorum(Binders(s)))
    BY <1>1, <2>1 DEF TerminatesRight
  <2> QED
    BY <1>1, <1>4, <1>5, <2>1, <2>2 DEF TerminatesRight
<1> QED
  BY <1>3, <1>6, <1>7, PartsLook DEF AfterSecond, LocalInv

LEMMA UnblockLocal ==
  ASSUME NEW s \in NodeState, NEW t \in NodeState, LocalInv(s), AfterUnblock(s, t)
  PROVE  LocalInv(t)
<1>1. (Both(t) <=> Both(s)) /\ Binders(t) = Binders(s)
  BY DEF AfterUnblock, Both, Approved, Binders
<1>2. ApprovalsRight(t)
  BY DEF AfterUnblock, LocalInv, ApprovalsRight, Approved
<1>3. BindsRight(t)
  BY <1>1 DEF AfterUnblock, LocalInv, BindsRight
<1>4. TerminatesRight(t)
  BY <1>1 DEF AfterUnblock, LocalInv, TerminatesRight
<1>5. DecidesRight(t)
  <2>1. s.unblock \in Nat
    BY DEF NodeState
  <2> QED
    BY <1>1, <2>1 DEF AfterUnblock, LocalInv, DecidesRight
<1> QED
  BY <1>2, <1>3, <1>4, <1>5, PartsLook DEF AfterUnblock, LocalInv

LEMMA BindBotLocal ==
  ASSUME NEW s \in NodeState, NEW t \in NodeState, LocalInv(s), AfterBindBot(s, t)
  PROVE  LocalInv(t)
<1>1. (Both(t) <=> Both(s)) /\ s.bindBot \in Nat /\ bot \notin Val
  BY DEF AfterBindBot, Both, Approved, NodeState, bot, Val
<1>2. BindsRight(t)
  BY <1>1 DEF AfterBindBot, LocalInv, BindsRight
<1> QED
  BY <1>2, PartsLook DEF AfterBindBot, LocalInv

LEMMA BindValLocal ==
  ASSUME NEW s \in NodeState, NEW t \in NodeState, LocalInv(s), AfterBindVal(s, t)
  PROVE  LocalInv(t)
<1>1. (Both(t) <=> Both(s)) /\ bot \notin Val /\ s.bindVal \in Seq(Val) /\ s.bindVal # <<>>
  BY DEF AfterBindVal, Both, Approved, NodeState, bot, Val
<1>2. /\ Len(s.bindVal) \in Nat \ {0} /\ t.bind = s.bindVal[1] /\ t.bind \in Val
      /\ Len(t.bindVal) = Len(s.bindVal) - 1
  BY <1>1, EmptySeq, HeadTailProperties, LenProperties DEF AfterBindVal
<1>3. /\ BindsRight(s) /\ t.voted = s.voted /\ t.bindBot = s.bindBot /\ t.voter = s.voter
  BY DEF AfterBindVal, LocalInv
<1>4. Len(t.bindVal) = 0 /\ Quorum(t.voted[t.bind])
  <2>1. Len(s.bindVal) <= 1 /\ \A x \in 1 .. Len(s.bindVal) : Quorum(s.voted[s.bindVal[x]])
    BY <1>3 DEF BindsRight
  <2>2. Len(s.bindVal) = 1
    <3>1. \A m \in Nat \ {0} : m <= 1 => m = 1
      OBVIOUS
    <3> QED
      BY <1>2, <2>1, <3>1
  <2>3. 1 \in 1 .. Len(s.bindVal)
    BY <2>2
  <2>4. Quorum(s.voted[s.bindVal[1]])
    BY <2>1, <2>3
  <2> QED
    BY <1>2, <1>3, <2>2, <2>4
<1>5. BindsRight(t)
  BY <1>1, <1>2, <1>3, <1>4 DEF BindsRight
<1> QED
  BY <1>5, PartsLook DEF AfterBindVal, LocalInv

LEMMA DecideValLocal ==
  ASSUME NEW s \in NodeState, NEW t \in NodeState, LocalInv(s), AfterDecideVal(s, t)
  PROVE  LocalInv(t)
<1>1. /\ (Both(t) <=> Both(s)) /\ Binders(t) = Binders(s)
      /\ s.terminateVal \in Seq(Decisions) /\ s.terminateVal # <<>>
  BY DEF AfterDecideVal, Both, Approved, Binders, NodeState
<1>2. /\ Len(s.terminateVal) \in Nat \ {0} /\ t.decision = s.terminateVal[1]
      /\ t.decision \in Decisions /\ Len(t.terminateVal) = Len(s.terminateVal) - 1
  BY <1>1, EmptySeq, HeadTailProperties, LenProperties DEF AfterDecideVal
<1>3. /\ TerminatesRight(s) /\ DecidesRight(s) /\ t.bound = s.bound /\ t.voter = s.voter
      /\ t.terminateBot = s.terminateBot /\ t.unblock = s.unblock + 1 /\ s.decision = None
  BY DEF AfterDecideVal, LocalInv
<1>4. Len(t.terminateVal) = 0 /\ Quorum(t.bound[t.decision])
  <2>1. /\ Len(s.terminateVal) <= 1
        /\ \A x \in 1 .. Len(s.terminateVal) : Quorum(s.bound[s.terminateVal[x]])
    BY <1>3 DEF TerminatesRight
  <2>2. Len(s.terminateVal) = 1
    <3>1. \A m \in Nat \ {0} : m <= 1 => m = 1
      OBVIOUS
    <3> QED
      BY <1>2, <2>1, <3>1
  <2>3. 1 \in 1 .. Len(s.terminateVal)
    BY <2>2
  <2>4. Quorum(s.bound[s.terminateVal[1]])
    BY <2>1, <2>3
  <2> QED
    BY <1>2, <1>3, <2>2, <2>4
<1>5. TerminatesRight(t)
  BY <1>1, <1>3, <1>4 DEF TerminatesRight
<1>6. t.unblock = 1 /\ t.decision # None
  BY <1>2, <1>3, NoneAssumption DEF DecidesRight
<1>7. DecidesRight(t)
  BY <1>2, <1>4, <1>6 DEF DecidesRight
<1> QED
  BY <1>5, <1>7, PartsLook DEF AfterDecideVal, LocalInv

LEMMA DecideBotLocal ==
  ASSUME NEW s \in NodeState, NEW t \in NodeState, LocalInv(s), AfterDecideBot(s, t)
  PROVE  LocalInv(t)
<1>1. /\ (Both(t) <=> Both(s)) /\ Binders(t) = Binders(s) /\ s.terminateBot \in Nat
      /\ bot \notin Val /\ bot # None
  BY NoneAssumption DEF AfterDecideBot, Both, Approved, Binders, NodeState, bot, Val, Decisions
<1>2. /\ TerminatesRight(s) /\ DecidesRight(s) /\ t.bound = s.bound /\ t.voter = s.voter
      /\ t.terminateVal = s.terminateVal /\ s.terminateBot >= 2
      /\ t.terminateBot = s.terminateBot - 2
      /\ t.unblock = s.unblock + 1 /\ s.decision = None /\ t.decision = bot
  BY DEF AfterDecideBot, LocalInv
<1>3. Both(s) /\ Quorum(Binders(s)) /\ t.terminateBot = 0
  BY <1>1, <1>2 DEF TerminatesRight
<1>4. TerminatesRight(t)
  BY <1>1, <1>2, <1>3 DEF TerminatesRight
<1>5. t.unblock = 1
  BY <1>2 DEF DecidesRight
<1>6. DecidesRight(t)
  BY <1>1, <1>2, <1>3, <1>5 DEF DecidesRight
<1> QED
  BY <1>4, <1>6, PartsLook DEF AfterDecideBot, LocalInv

-----------------------------------------------------------------------------
(***************************************************************************)
(* Every step is one of these, with what the peer has sent.                *)
(***************************************************************************)
After(s, t) ==
  \/ \E v \in Val : AfterPropose(s, t, v)
  \/ \E j \in Nodes, v \in Val : v \in EchoesFrom(j) /\ AfterEcho(s, t, j, v)
  \/ \E j \in Nodes, v \in Val : v \in VotesFrom(j) /\ AfterVote(s, t, j, v)
  \/ \E j \in Nodes, v \in Decisions : v \in BindsFrom(j) /\ AfterBind(s, t, j, v)
  \/ AfterFirst(s, t) \/ AfterSecond(s, t) \/ AfterUnblock(s, t)
  \/ AfterBindBot(s, t) \/ AfterBindVal(s, t)
  \/ AfterDecideVal(s, t) \/ AfterDecideBot(s, t)

LEMMA SentTypes ==
  ASSUME TypeOK, NEW j \in Nodes
  PROVE  EchoesFrom(j) \subseteq Val /\ VotesFrom(j) \subseteq Val /\ BindsFrom(j) \subseteq Decisions
<1>1. CASE j \in Correct
  <2>1. node[j] \in NodeState
    BY <1>1 DEF TypeOK
  <2> QED
    BY <1>1, <2>1 DEF NodeState, EchoesFrom, VotesFrom, BindsFrom
<1>2. CASE j \notin Correct
  BY <1>2, FaultySendsAssumption DEF EchoesFrom, VotesFrom, BindsFrom
<1> QED
  BY <1>1, <1>2

LEMMA StepMoves ==
  ASSUME TypeOK, Next
  PROVE  \E i \in Correct, t \in NodeState : node' = [node EXCEPT ![i] = t] /\ After(node[i], t)
<1>1. PICK i \in Correct :
        \/ \E v \in Proposals[i] : propose(i, v)
        \/ \E j \in Nodes : AnyEcho(i, j) \/ AnyVote(i, j) \/ AnyBind(i, j)
        \/ waitToVote(i) \/ waitToBind(i) \/ waitToDecide(i)
  BY DEF Next
<1> SUFFICES \E t : Moves(i, t) /\ After(node[i], t)
  BY DEF Moves
<1>2. CASE \E v \in Proposals[i] : propose(i, v)
  <2>1. PICK v \in Val : propose(i, v)
    BY <1>2, ProposalsAssumption
  <2> QED
    BY <2>1, ProposeMoves DEF After
<1>3. ASSUME NEW j \in Nodes, AnyEcho(i, j) PROVE \E t : Moves(i, t) /\ After(node[i], t)
  <2>1. PICK v \in Val : v \in EchoesFrom(j) /\ submitEcho(i, j, v)
    BY <1>3, SentTypes DEF AnyEcho
  <2>2. PICK t : Moves(i, t) /\ AfterEcho(node[i], t, j, v)
    BY <2>1, EchoMoves
  <2> QED
    BY <2>1, <2>2 DEF After
<1>4. ASSUME NEW j \in Nodes, AnyVote(i, j) PROVE \E t : Moves(i, t) /\ After(node[i], t)
  <2>1. PICK v \in Val : v \in VotesFrom(j) /\ submitVote(i, j, v)
    BY <1>4, SentTypes DEF AnyVote
  <2>2. PICK t : Moves(i, t) /\ AfterVote(node[i], t, j, v)
    BY <2>1, VoteMoves
  <2> QED
    BY <2>1, <2>2 DEF After
<1>5. ASSUME NEW j \in Nodes, AnyBind(i, j) PROVE \E t : Moves(i, t) /\ After(node[i], t)
  <2>1. PICK v \in Decisions : v \in BindsFrom(j) /\ submitBind(i, j, v)
    BY <1>5, SentTypes DEF AnyBind
  <2>2. PICK t : Moves(i, t) /\ AfterBind(node[i], t, j, v)
    BY <2>1, BindMoves
  <2> QED
    BY <2>1, <2>2 DEF After
<1>6. CASE waitToVote(i)
  <2>1. PICK t : Moves(i, t) /\ \/ AfterFirst(node[i], t) \/ AfterSecond(node[i], t)
                                \/ AfterUnblock(node[i], t)
    BY <1>6, VoterMoves
  <2> QED
    BY <2>1 DEF After
<1>7. CASE waitToBind(i)
  <2>1. PICK t : Moves(i, t) /\ (AfterBindBot(node[i], t) \/ AfterBindVal(node[i], t))
    BY <1>7, BinderMoves
  <2> QED
    BY <2>1 DEF After
<1>8. CASE waitToDecide(i)
  <2>1. PICK t : Moves(i, t) /\ (AfterDecideVal(node[i], t) \/ AfterDecideBot(node[i], t))
    BY <1>8, DeciderMoves
  <2> QED
    BY <2>1 DEF After
<1> QED
  BY <1>1, <1>2, <1>3, <1>4, <1>5, <1>6, <1>7, <1>8

LEMMA StepLocal ==
  ASSUME NEW s \in NodeState, NEW t \in NodeState, LocalInv(s), After(s, t)
  PROVE  LocalInv(t)
BY ProposeLocal, EchoLocal, VoteLocal, BindLocal, FirstLocal, SecondLocal, UnblockLocal,
   BindBotLocal, BindValLocal, DecideValLocal, DecideBotLocal DEF After

\* What a node sent, proposed and decided stays, and what it counts was sent.
LEMMA StepGrows ==
  ASSUME NEW s \in NodeState, NEW t \in NodeState, LocalInv(s), After(s, t)
  PROVE  /\ s.sentEchoes \subseteq t.sentEchoes
         /\ s.est # None => t.est = s.est
         /\ s.vote # None => t.vote = s.vote
         /\ s.bind # None => t.bind = s.bind
         /\ s.decision # None => t.decision = s.decision
         /\ \A v \in Val : \A j \in t.echoes[v] : j \in s.echoes[v] \/ v \in EchoesFrom(j)
         /\ \A v \in Val : \A j \in t.voted[v] : j \in s.voted[v] \/ v \in VotesFrom(j)
         /\ \A v \in Decisions : \A j \in t.bound[v] : j \in s.bound[v] \/ v \in BindsFrom(j)
<1>1. CASE \E v \in Val : AfterPropose(s, t, v)
  BY <1>1 DEF AfterPropose
<1>2. ASSUME NEW j \in Nodes, NEW v \in Val, v \in EchoesFrom(j), AfterEcho(s, t, j, v)
      PROVE  /\ s.sentEchoes \subseteq t.sentEchoes
             /\ t.est = s.est /\ t.vote = s.vote /\ t.bind = s.bind /\ t.decision = s.decision
             /\ t.voted = s.voted /\ t.bound = s.bound
             /\ \A w \in Val : \A k \in t.echoes[w] : k \in s.echoes[w] \/ w \in EchoesFrom(k)
  BY <1>2 DEF AfterEcho, NodeState
<1>3. ASSUME NEW j \in Nodes, NEW v \in Val, v \in VotesFrom(j), AfterVote(s, t, j, v)
      PROVE  /\ t.sentEchoes = s.sentEchoes
             /\ t.est = s.est /\ t.vote = s.vote /\ t.bind = s.bind /\ t.decision = s.decision
             /\ t.echoes = s.echoes /\ t.bound = s.bound
             /\ \A w \in Val : \A k \in t.voted[w] : k \in s.voted[w] \/ w \in VotesFrom(k)
  BY <1>3 DEF AfterVote, NodeState
<1>4. ASSUME NEW j \in Nodes, NEW v \in Decisions, v \in BindsFrom(j), AfterBind(s, t, j, v)
      PROVE  /\ t.sentEchoes = s.sentEchoes
             /\ t.est = s.est /\ t.vote = s.vote /\ t.bind = s.bind /\ t.decision = s.decision
             /\ t.echoes = s.echoes /\ t.voted = s.voted
             /\ \A w \in Decisions : \A k \in t.bound[w] : k \in s.bound[w] \/ w \in BindsFrom(k)
  BY <1>4 DEF AfterBind, NodeState
<1>5. CASE AfterFirst(s, t)
  BY <1>5 DEF AfterFirst, LocalInv, ApprovalsRight
<1>6. CASE AfterSecond(s, t) \/ AfterUnblock(s, t)
  BY <1>6 DEF AfterSecond, AfterUnblock
<1>7. CASE AfterBindBot(s, t) \/ AfterBindVal(s, t)
  BY <1>7 DEF AfterBindBot, AfterBindVal
<1>8. CASE AfterDecideVal(s, t) \/ AfterDecideBot(s, t)
  BY <1>8 DEF AfterDecideVal, AfterDecideBot
<1> QED
  BY <1>1, <1>2, <1>3, <1>4, <1>5, <1>6, <1>7, <1>8 DEF After

LEMMA StepAll ==
  ASSUME TypeOK, \A i \in Correct : LocalInv(node[i]), Next
  PROVE  /\ TypeOK'
         /\ \A i \in Correct :
              /\ LocalInv(node'[i])
              /\ node[i].sentEchoes \subseteq node'[i].sentEchoes
              /\ node[i].est # None => node'[i].est = node[i].est
              /\ node[i].vote # None => node'[i].vote = node[i].vote
              /\ node[i].bind # None => node'[i].bind = node[i].bind
              /\ node[i].decision # None => node'[i].decision = node[i].decision
              /\ \A v \in Val : \A j \in node'[i].echoes[v] :
                   j \in node[i].echoes[v] \/ v \in EchoesFrom(j)
              /\ \A v \in Val : \A j \in node'[i].voted[v] :
                   j \in node[i].voted[v] \/ v \in VotesFrom(j)
              /\ \A v \in Decisions : \A j \in node'[i].bound[v] :
                   j \in node[i].bound[v] \/ v \in BindsFrom(j)
<1>1. PICK k \in Correct, t \in NodeState : node' = [node EXCEPT ![k] = t] /\ After(node[k], t)
  BY StepMoves
<1>2. node'[k] = t /\ \A i \in Correct \ {k} : node'[i] = node[i]
  BY <1>1 DEF TypeOK
<1>3. node[k] \in NodeState /\ LocalInv(node[k])
  BY DEF TypeOK
<1>4. TypeOK'
  BY <1>1 DEF TypeOK
<1> SUFFICES ASSUME NEW i \in Correct
             PROVE  /\ LocalInv(node'[i])
                    /\ node[i].sentEchoes \subseteq node'[i].sentEchoes
                    /\ node[i].est # None => node'[i].est = node[i].est
                    /\ node[i].vote # None => node'[i].vote = node[i].vote
                    /\ node[i].bind # None => node'[i].bind = node[i].bind
                    /\ node[i].decision # None => node'[i].decision = node[i].decision
                    /\ \A v \in Val : \A j \in node'[i].echoes[v] :
                         j \in node[i].echoes[v] \/ v \in EchoesFrom(j)
                    /\ \A v \in Val : \A j \in node'[i].voted[v] :
                         j \in node[i].voted[v] \/ v \in VotesFrom(j)
                    /\ \A v \in Decisions : \A j \in node'[i].bound[v] :
                         j \in node[i].bound[v] \/ v \in BindsFrom(j)
  BY <1>4
<1>5. CASE i = k
  BY <1>1, <1>2, <1>3, <1>5, StepLocal, StepGrows
<1>6. CASE i # k
  BY <1>2, <1>6
<1> QED
  BY <1>5, <1>6

LEMMA StepGenuine ==
  ASSUME IInv, Next
  PROVE  CountsGenuine'
<1> SUFFICES ASSUME NEW i \in Correct, NEW j \in Correct
             PROVE  /\ \A v \in Val : j \in node'[i].echoes[v] => v \in node'[j].sentEchoes
                    /\ \A v \in Val : j \in node'[i].voted[v] => node'[j].vote = v
                    /\ \A v \in Decisions : j \in node'[i].bound[v] => node'[j].bind = v
  BY DEF CountsGenuine
<1>1. TypeOK /\ (\A k \in Correct : LocalInv(node[k])) /\ CountsGenuine
  BY DEF IInv
<1>2. \A v \in Val : j \in node'[i].echoes[v] => v \in node'[j].sentEchoes
  <2> SUFFICES ASSUME NEW v \in Val, j \in node'[i].echoes[v] PROVE v \in node[j].sentEchoes
    BY <1>1, StepAll
  <2>1. j \in node[i].echoes[v] \/ v \in EchoesFrom(j)
    BY <1>1, StepAll
  <2> QED
    BY <1>1, <2>1 DEF CountsGenuine, EchoesFrom
<1>3. \A v \in Val : j \in node'[i].voted[v] => node'[j].vote = v
  <2> SUFFICES ASSUME NEW v \in Val, j \in node'[i].voted[v] PROVE node[j].vote = v
    <3>1. \A v \in Val : v # None
      BY NoneAssumption DEF Decisions
    <3> QED
      BY <1>1, <3>1, StepAll
  <2>1. j \in node[i].voted[v] \/ v \in VotesFrom(j)
    BY <1>1, StepAll
  <2> QED
    BY <1>1, <2>1 DEF CountsGenuine, VotesFrom
<1>4. \A v \in Decisions : j \in node'[i].bound[v] => node'[j].bind = v
  <2> SUFFICES ASSUME NEW v \in Decisions, j \in node'[i].bound[v] PROVE node[j].bind = v
    <3>1. \A v \in Decisions : v # None
      BY NoneAssumption
    <3> QED
      BY <1>1, <3>1, StepAll
  <2>1. j \in node[i].bound[v] \/ v \in BindsFrom(j)
    BY <1>1, StepAll
  <2> QED
    BY <1>1, <2>1 DEF CountsGenuine, BindsFrom
<1> QED
  BY <1>2, <1>3, <1>4

\* f+1 echoes are due to enough proposals: the correct nodes among them proposed
\* the value, or one of them repeated f+1 earlier ones.
LEMMA Rooted ==
  ASSUME IInv, NEW S \in SUBSET Nodes, NEW v \in Val, Cardinality(S) >= F + 1,
         \A j \in Correct : j \in S => v \in node[j].sentEchoes
  PROVE  Enough(Proposers(v))
<1>1. CASE \E j \in Correct : Cardinality(node[j].echoes[v]) >= F + 1
  BY <1>1 DEF IInv, EchoesRooted
<1>2. CASE \A j \in Correct : ~(Cardinality(node[j].echoes[v]) >= F + 1)
  <2>1. S \ Faulty \in SUBSET Proposers(v) /\ Proposers(v) \in SUBSET Nodes
    <3>1. ASSUME NEW j \in S \ Faulty PROVE j \in Proposers(v)
      <4>1. j \in Correct
        BY DEF Correct
      <4>2. EchoesRight(node[j])
        BY <4>1 DEF IInv, LocalInv
      <4> QED
        BY <1>2, <4>1, <4>2 DEF EchoesRight, Proposers
    <3> QED
      BY <3>1 DEF Proposers, Correct
  <2>2. /\ \E j \in Correct : j \in S
        /\ Cardinality(S \ Faulty) \in Nat
        /\ Cardinality(S \ Faulty) >= Cardinality(S) - Cardinality(Faulty)
    BY HasCorrect
  <2>3. Cardinality(S \ Faulty) <= Cardinality(Proposers(v))
    BY <2>1, LargerSize
  <2>4. Cardinality(Proposers(v)) \in Nat /\ Cardinality(S) \in Nat
    BY <2>1, Sizes
  <2>5. Cardinality(Proposers(v)) > F - Cardinality(Faulty)
    BY <2>2, <2>3, <2>4, Numbers
  <2>6. Proposers(v) # {}
    BY <2>1, <2>2 DEF Correct
  <2> QED
    BY <2>5, <2>6 DEF Enough
<1> QED
  BY <1>1, <1>2

LEMMA StepRooted ==
  ASSUME IInv, Next
  PROVE  EchoesRooted'
<1> SUFFICES ASSUME NEW i \in Correct, NEW v \in Val, Cardinality(node'[i].echoes[v]) >= F + 1
             PROVE  Enough(Proposers(v)')
  BY DEF EchoesRooted, Enough
<1> DEFINE S == node'[i].echoes[v]
<1>1. TypeOK /\ (\A k \in Correct : LocalInv(node[k])) /\ CountsGenuine
  BY DEF IInv
<1>2. TypeOK'
  BY <1>1, StepAll
<1>3. S \in SUBSET Nodes
  BY <1>2 DEF TypeOK, NodeState
<1>4. ASSUME NEW j \in Correct, j \in S PROVE v \in node[j].sentEchoes
  <2>1. j \in node[i].echoes[v] \/ v \in EchoesFrom(j)
    BY <1>1, <1>4, StepAll
  <2> QED
    BY <1>1, <2>1 DEF CountsGenuine, EchoesFrom
<1>5. Enough(Proposers(v))
  <2> HIDE DEF S
  <2> QED
    BY <1>3, <1>4, Rooted DEF S
<1>6. Proposers(v) \in SUBSET Proposers(v)' /\ Proposers(v)' \in SUBSET Nodes
  <2>1. \A j \in Correct : node[j].est = v => node'[j].est = v
    <3>1. v # None
      BY NoneAssumption DEF Decisions
    <3> QED
      BY <1>1, <3>1, StepAll
  <2> QED
    BY <2>1 DEF Proposers, Correct
<1>7. /\ Cardinality(Proposers(v)) <= Cardinality(Proposers(v)')
      /\ Cardinality(Proposers(v)) \in Nat /\ Cardinality(Proposers(v)') \in Nat
  BY <1>6, LargerSize, Sizes
<1> QED
  BY <1>5, <1>6, <1>7, Numbers DEF Enough

-----------------------------------------------------------------------------
(***************************************************************************)
(* The invariant, and what follows from it.                                *)
(***************************************************************************)
LEMMA InitInv == Init => IInv
<1> SUFFICES ASSUME Init PROVE IInv
  OBVIOUS
<1>1. newBCA \in NodeState
  <2>1. <<>> \in Seq(Val) /\ <<>> \in Seq(Decisions)
    OBVIOUS
  <2> QED
    BY <2>1 DEF newBCA, NodeState
<1>2. TypeOK /\ \A i \in Correct : node[i] = newBCA
  BY <1>1 DEF Init, TypeOK
<1>3. Cardinality({}) = 0 /\ ~(Cardinality({}) >= F + 1)
  BY FS_EmptySet, Numbers
<1>4. LocalInv(newBCA)
  <2>1. /\ newBCA.approveVal = <<>> /\ newBCA.vote = None /\ newBCA.voter = "first"
        /\ newBCA.bindBot = 0 /\ newBCA.bind = None /\ newBCA.bindVal = <<>>
        /\ newBCA.terminateVal = <<>> /\ newBCA.terminateBot = 0
        /\ newBCA.decision = None /\ newBCA.unblock = 0 /\ newBCA.sentEchoes = {}
        /\ \A v \in Decisions : newBCA.bound[v] = {}
    BY DEF newBCA
  <2>2. None # bot /\ None \notin Val
    BY NoneAssumption DEF Decisions
  <2>3. Len(<<>>) = 0
    OBVIOUS
  <2>4. ApprovalsRight(newBCA) /\ BindsRight(newBCA)
    BY <2>1, <2>2, <2>3 DEF ApprovalsRight, BindsRight
  <2>5. TerminatesRight(newBCA) /\ DecidesRight(newBCA) /\ EchoesRight(newBCA)
    BY <2>1, <2>2, <2>3 DEF TerminatesRight, DecidesRight, EchoesRight
  <2> QED
    BY <2>4, <2>5 DEF LocalInv
<1>5. CountsGenuine /\ EchoesRooted
  <2>1. /\ \A v \in Val : newBCA.echoes[v] = {} /\ newBCA.voted[v] = {}
        /\ \A v \in Decisions : newBCA.bound[v] = {}
    BY DEF newBCA
  <2> QED
    BY <1>2, <1>3, <2>1 DEF CountsGenuine, EchoesRooted
<1> QED
  BY <1>2, <1>4, <1>5 DEF IInv

LEMMA NextInv == IInv /\ [Next]_vars => IInv'
<1> SUFFICES ASSUME IInv, [Next]_vars PROVE IInv'
  OBVIOUS
<1>1. CASE Next
  <2>1. TypeOK' /\ \A i \in Correct : LocalInv(node'[i])
    BY <1>1, StepAll DEF IInv
  <2> QED
    BY <1>1, <2>1, StepGenuine, StepRooted DEF IInv
<1>2. CASE UNCHANGED vars
  <2>1. node' = node
    BY <1>2 DEF vars
  <2>2. TypeOK' /\ (\A i \in Correct : LocalInv(node'[i])) /\ CountsGenuine'
    BY <2>1 DEF IInv, TypeOK, CountsGenuine
  <2>3. EchoesRooted'
    BY <2>1 DEF IInv, EchoesRooted, Proposers
  <2> QED
    BY <2>2, <2>3 DEF IInv
<1> QED
  BY <1>1, <1>2

\* The inductive invariant holds in every state of the first round's crusader
\* agreement (internalValidityBCA.go), whatever faulty nodes send.
THEOREM Invariance == Spec => []IInv
BY InitInv, NextInv, PTL DEF Spec

\* Every channel, count and decision has its type, whatever the network and the
\* faulty nodes do (ivbca, internalValidityBCA.go:16-40).
THEOREM TypeCorrect == Spec => []TypeOK
<1>1. IInv => TypeOK
  BY DEF IInv
<1> QED
  BY <1>1, Invariance, PTL

\* Two different values fit in approveVal and there are no more.
LEMMA ChannelsFit == IInv => ChannelsSuffice
<1> SUFFICES ASSUME IInv, NEW i \in Correct
             PROVE  /\ Len(node[i].approveVal) <= 2 /\ Len(node[i].bindVal) <= 1
                    /\ Len(node[i].terminateVal) <= 1 /\ node[i].terminateBot <= 2
                    /\ node[i].bindBot <= 1 /\ node[i].unblock <= 1
  BY DEF ChannelsSuffice
<1> DEFINE q == node[i].approveVal
<1>1. LocalInv(node[i]) /\ q \in Seq(Val)
  BY DEF IInv, TypeOK, NodeState
<1>2. \A x, y \in 1 .. Len(q) : q[x] = q[y] => x = y
  BY <1>1 DEF LocalInv, ApprovalsRight
<1>3. Len(q) \in Nat /\ \A x \in 1 .. Len(q) : q[x] \in Val
  BY <1>1, LenProperties, ElementOfSeq
<1>4. Len(q) <= 2
  <2> SUFFICES ASSUME Len(q) >= 3 PROVE FALSE
    BY <1>3
  <2> HIDE DEF q
  <2>1. 1 \in 1 .. Len(q) /\ 2 \in 1 .. Len(q) /\ 3 \in 1 .. Len(q)
    BY <1>3
  <2>2. q[1] # q[2] /\ q[1] # q[3] /\ q[2] # q[3]
    BY <1>2, <2>1
  <2>3. q[1] \in Val /\ q[2] \in Val /\ q[3] \in Val
    BY <1>3, <2>1
  <2> QED
    BY <2>2, <2>3 DEF Val
<1> QED
  BY <1>1, <1>4 DEF LocalInv, BindsRight, TerminatesRight, DecidesRight

\* No handler or goroutine of the first round ever blocks on a send: the
\* capacities that newBCA gives the channels suffice in every network
\* (internalValidityBCA.go:42-52).
THEOREM ChannelsSufficeHolds == Spec => []ChannelsSuffice
BY ChannelsFit, Invariance, PTL

-----------------------------------------------------------------------------
(***************************************************************************)
(* Binding.                                                                *)
(***************************************************************************)
\* The values that correct nodes bind are the same: two quorums of votes share a
\* correct node, which voted once.
LEMMA OneValueBound ==
  ASSUME IInv, NEW i \in Correct, NEW k \in Correct, node[i].bind \in Val, node[k].bind \in Val
  PROVE  node[i].bind = node[k].bind
<1> DEFINE v == node[i].bind
           w == node[k].bind
<1>1. Quorum(node[i].voted[v]) /\ Quorum(node[k].voted[w])
  BY DEF IInv, LocalInv, BindsRight
<1>2. node[i].voted[v] \in SUBSET Nodes /\ node[k].voted[w] \in SUBSET Nodes
  BY DEF IInv, TypeOK, NodeState
<1>3. PICK j \in Correct : j \in node[i].voted[v] /\ j \in node[k].voted[w]
  BY <1>1, <1>2, Disjoint
<1> QED
  BY <1>3 DEF IInv, CountsGenuine

\* A node that decided has n-f binds.
LEMMA DecidedOnQuorum ==
  ASSUME IInv, NEW i \in Correct, node[i].decision # None
  PROVE  Quorum(Binders(node[i])) /\ Binders(node[i]) \in SUBSET Nodes
<1>1. node[i] \in NodeState /\ DecidesRight(node[i])
  BY DEF IInv, TypeOK, LocalInv
<1>2. Binders(node[i]) \in SUBSET Nodes
  BY <1>1 DEF NodeState, Binders
<1>3. node[i].decision \in Val \/ node[i].decision = bot
  BY <1>1 DEF NodeState, Decisions
<1>4. \/ Quorum(Binders(node[i]))
      \/ \E d \in Decisions : Quorum(node[i].bound[d])
  BY <1>1, <1>3 DEF DecidesRight, Decisions
<1>5. \A d \in Decisions : node[i].bound[d] \in SUBSET Binders(node[i])
  BY <1>1 DEF NodeState, Binders
<1> QED
  BY <1>2, <1>4, <1>5, LargerSize

LEMMA BindingInv == IInv => Binding
<1> SUFFICES ASSUME IInv, NEW i \in Correct, node[i].decision # None
             PROVE  \E v \in Val : OutOfReach(v)
  BY DEF Binding, Decided
<1> DEFINE Q == Binders(node[i])
<1>1. Quorum(Q) /\ Q \in SUBSET Nodes
  BY DecidedOnQuorum
<1>2. \A j \in Correct : j \in Q => node[j].bind # None
  BY NoneAssumption DEF IInv, CountsGenuine, Binders
<1>3. PICK v \in Val : \A j \in Correct : node[j].bind # v
  <2>1. CASE \A j \in Correct : node[j].bind # 0
    BY <2>1 DEF Val
  <2>2. CASE \E j \in Correct : node[j].bind = 0
    <3>1. \A k \in Correct : node[k].bind # 1
      BY <2>2, OneValueBound DEF Val
    <3> QED
      BY <3>1 DEF Val
  <2> QED
    BY <2>1, <2>2
<1> DEFINE R == {j \in Correct : node[j].bind \in {v, None}}
<1>4. R \cup Faulty \in SUBSET ((Nodes \ Q) \cup Faulty)
  BY <1>2, <1>3 DEF Correct
<1>5. /\ Cardinality(R \cup Faulty) <= Cardinality((Nodes \ Q) \cup Faulty)
      /\ Cardinality(R \cup Faulty) \in Nat
  <2>1. (Nodes \ Q) \cup Faulty \in SUBSET Nodes
    BY Numbers
  <2>2. R \cup Faulty \in SUBSET Nodes
    BY <1>4, <2>1
  <2> HIDE DEF R, Q
  <2> QED
    BY <1>4, <2>1, <2>2, LargerSize, Sizes
<1>6. Cardinality((Nodes \ Q) \cup Faulty) <= Cardinality(Nodes \ Q) + Cardinality(Faulty)
  <2>1. IsFiniteSet(Nodes \ Q) /\ IsFiniteSet(Faulty)
    BY Sizes, Numbers
  <2>2. Cardinality((Nodes \ Q) \cup Faulty) = Cardinality(Nodes \ Q) + Cardinality(Faulty)
                                               - Cardinality((Nodes \ Q) \cap Faulty)
    BY <2>1, FS_Union
  <2>3. Cardinality(Nodes \ Q) \in Nat /\ Cardinality((Nodes \ Q) \cap Faulty) \in Nat
    BY Sizes
  <2> QED
    BY <2>2, <2>3, Numbers
<1>7. Cardinality(Nodes \ Q) <= F /\ Cardinality(Nodes \ Q) \in Nat
  <2> HIDE DEF Q
  <2>1. Nodes \cap Q = Q
    BY <1>1
  <2>2. Cardinality(Nodes \ Q) = N - Cardinality(Q)
    BY <2>1, Numbers, FS_Difference DEF N
  <2>3. Cardinality(Q) \in Nat /\ Cardinality(Nodes \ Q) \in Nat /\ Cardinality(Q) >= N - F
    BY <1>1, Sizes DEF Quorum
  <2> QED
    BY <2>2, <2>3, Numbers
<1>8. Cardinality((Nodes \ Q) \cup Faulty) \in Nat
  BY Sizes, Numbers
<1>9. Cardinality(R \cup Faulty) < N - F
  <2>1. \A a, b, c \in Nat : a <= b /\ b <= c + Cardinality(Faulty) /\ c <= F => a < N - F
    BY Numbers
  <2> HIDE DEF R, Q
  <2> QED
    BY <1>5, <1>6, <1>7, <1>8, <2>1
<1> QED
  BY <1>9 DEF OutOfReach

\* Once a correct node has decided in the first round, one value is out of
\* everybody's reach, in every network with n > 3f: the coin that is tossed after
\* the decision comes too late to choose the value (round.go:66-71).
THEOREM BindingHolds == Spec => []Binding
BY BindingInv, Invariance, PTL

-----------------------------------------------------------------------------
(***************************************************************************)
(* The first round implements CrusaderAgreement.                           *)
(***************************************************************************)
LEMMA ApprovedIsProposed ==
  ASSUME IInv, NEW i \in Correct, NEW v \in Val, Approved(node[i], v)
  PROVE  Enough(Proposers(v))
<1>1. node[i].echoes[v] \in SUBSET Nodes
  BY DEF IInv, TypeOK, NodeState
<1>2. Cardinality(node[i].echoes[v]) >= F + 1
  BY <1>1, QuorumIsLarge DEF Approved
<1> QED
  BY <1>2 DEF IInv, EchoesRooted

\* A correct node among n-f binders bound the value, one of its voters approved it.
LEMMA BoundIsProposed ==
  ASSUME IInv, NEW i \in Correct, NEW v \in Val, Quorum(node[i].bound[v])
  PROVE  Enough(Proposers(v))
<1>0. v \in Decisions /\ v # None
  BY NoneAssumption DEF Decisions
<1>1. \A k \in Correct : node[k].bound[v] \in SUBSET Nodes /\ node[k].voted[v] \in SUBSET Nodes
  BY <1>0 DEF IInv, TypeOK, NodeState
<1>2. PICK j \in Correct : j \in node[i].bound[v]
  BY <1>1, QuorumIsLarge
<1>3. node[j].bind = v
  BY <1>0, <1>2 DEF IInv, CountsGenuine
<1>4. Quorum(node[j].voted[v])
  BY <1>3 DEF IInv, LocalInv, BindsRight
<1>5. PICK k \in Correct : k \in node[j].voted[v]
  BY <1>1, <1>4, QuorumIsLarge
<1>6. node[k].vote = v
  BY <1>5 DEF IInv, CountsGenuine
<1>7. Approved(node[k], v)
  BY <1>0, <1>6 DEF IInv, LocalInv, ApprovalsRight
<1> QED
  BY <1>7, ApprovedIsProposed

LEMMA BotIsRooted ==
  ASSUME IInv, NEW i \in Correct, Both(node[i]) \/ Quorum(node[i].bound[bot])
  PROVE  \A v \in Val : Enough(Proposers(v))
<1>1. PICK j \in Correct : Both(node[j])
  <2>1. CASE Quorum(node[i].bound[bot])
    <3>1. node[i].bound[bot] \in SUBSET Nodes /\ bot \in Decisions
      BY DEF IInv, TypeOK, NodeState, Decisions
    <3>2. PICK j \in Correct : j \in node[i].bound[bot]
      BY <2>1, <3>1, QuorumIsLarge
    <3>3. node[j].bind = bot
      BY <3>1, <3>2 DEF IInv, CountsGenuine
    <3> QED
      BY <3>3 DEF IInv, LocalInv, BindsRight
  <2> QED
    BY <2>1
<1> QED
  BY <1>1, ApprovedIsProposed DEF Both

\* No two values have n-f binds at correct nodes.
LEMMA BoundAgree ==
  ASSUME IInv, NEW i \in Correct, NEW k \in Correct, NEW v \in Val, NEW w \in Val,
         Quorum(node[i].bound[v]), Quorum(node[k].bound[w])
  PROVE  v = w
<1>1. v \in Decisions /\ w \in Decisions
  BY DEF Decisions
<1>2. node[i].bound[v] \in SUBSET Nodes /\ node[k].bound[w] \in SUBSET Nodes
  BY <1>1 DEF IInv, TypeOK, NodeState
<1>3. PICK j \in Correct : j \in node[i].bound[v] /\ j \in node[k].bound[w]
  BY <1>2, Disjoint
<1> QED
  BY <1>1, <1>3 DEF IInv, CountsGenuine

\* Only a proposal and a decision of CrusaderAgreement are visible.
LEMMA StepVisible ==
  ASSUME NEW s \in NodeState, NEW t \in NodeState, LocalInv(s), After(s, t)
  PROVE  \/ \E v \in Val : s.est = None /\ t.est = v /\ t.decision = s.decision
         \/ /\ s.decision = None /\ t.decision \in Decisions /\ t.est = s.est
            /\ t.decision \in Val => Quorum(s.bound[t.decision])
            /\ t.decision = bot => Both(s) \/ Quorum(s.bound[bot])
         \/ t.est = s.est /\ t.decision = s.decision
<1>1. CASE AfterDecideVal(s, t) \/ AfterDecideBot(s, t)
  <2>1. DecidesRight(t)
    BY <1>1, DecideValLocal, DecideBotLocal DEF LocalInv
  <2>2. /\ s.decision = None /\ t.est = s.est /\ t.echoes = s.echoes /\ t.bound = s.bound
    BY <1>1 DEF AfterDecideVal, AfterDecideBot
  <2>3. t.decision \in Decisions
    <3>1. CASE AfterDecideVal(s, t)
      <4>1. s.terminateVal \in Seq(Decisions) /\ s.terminateVal # <<>> /\ t.decision = Head(s.terminateVal)
        BY <3>1 DEF AfterDecideVal, NodeState
      <4> QED
        BY <4>1, HeadTailProperties
    <3>2. CASE AfterDecideBot(s, t)
      BY <3>2 DEF AfterDecideBot, Decisions
    <3> QED
      BY <1>1, <3>1, <3>2
  <2>4. Both(t) => Both(s)
    BY <2>2 DEF Both, Approved
  <2> QED
    BY <2>1, <2>2, <2>3, <2>4 DEF DecidesRight
<1>2. CASE \E v \in Val : AfterPropose(s, t, v)
  BY <1>2 DEF AfterPropose
<1>3. CASE \/ \E j \in Nodes, v \in Val : AfterEcho(s, t, j, v) \/ AfterVote(s, t, j, v)
           \/ \E j \in Nodes, v \in Decisions : AfterBind(s, t, j, v)
  BY <1>3 DEF AfterEcho, AfterVote, AfterBind
<1>4. CASE \/ AfterFirst(s, t) \/ AfterSecond(s, t) \/ AfterUnblock(s, t)
           \/ AfterBindBot(s, t) \/ AfterBindVal(s, t)
  BY <1>4 DEF AfterFirst, AfterSecond, AfterUnblock, AfterBindBot, AfterBindVal
<1> QED
  BY <1>1, <1>2, <1>3, <1>4 DEF After

LEMMA RefinesInit == Init => CA!Init
<1> SUFFICES ASSUME Init PROVE CA!Init
  OBVIOUS
<1>1. \A i \in Correct : node[i].est = None /\ node[i].decision = None
  BY DEF Init, newBCA
<1> QED
  BY <1>1 DEF CA!Init

LEMMA EnoughMeans ==
  ASSUME NEW v \in Val, Enough(Proposers(v))
  PROVE  CA!Approvable(v)
<1>1. Proposers(v) \in SUBSET Correct
  BY DEF Proposers
<1>2. {i \in Correct : [k \in Correct |-> node[k].est][i] = v} = Proposers(v)
  BY DEF Proposers
<1> QED
  BY <1>1, <1>2 DEF Enough, CA!Approvable

LEMMA RefinesStep == IInv /\ [Next]_vars => [CA!Next]_(CA!vars)
<1> SUFFICES ASSUME IInv, [Next]_vars PROVE CA!Next \/ UNCHANGED CA!vars
  OBVIOUS
<1> DEFINE est == [k \in Correct |-> node[k].est]
           dec == [k \in Correct |-> node[k].decision]
<1>1. CASE UNCHANGED vars
  BY <1>1 DEF vars, CA!vars
<1>2. CASE Next
  <2>1. PICK i \in Correct, t \in NodeState : node' = [node EXCEPT ![i] = t] /\ After(node[i], t)
    BY <1>2, StepMoves DEF IInv
  <2>2. node'[i] = t /\ \A k \in Correct \ {i} : node'[k] = node[k]
    BY <2>1 DEF IInv, TypeOK
  <2>3. node[i] \in NodeState /\ LocalInv(node[i])
    BY DEF IInv, TypeOK
  <2>4. est' = [est EXCEPT ![i] = t.est] /\ dec' = [dec EXCEPT ![i] = t.decision]
    BY <2>2
  <2>5. ASSUME NEW v \in Val, node[i].est = None, t.est = v, t.decision = node[i].decision
        PROVE  CA!Next
    <3>1. dec' = dec /\ est' = [est EXCEPT ![i] = v] /\ est[i] = None
      BY <2>4, <2>5
    <3>2. CA!Propose(i, v)
      BY <3>1 DEF CA!Propose
    <3> QED
      BY <3>2 DEF CA!Next, CA!Val, Val
  <2>6. ASSUME node[i].decision = None, t.decision \in Decisions, t.est = node[i].est,
               t.decision \in Val => Quorum(node[i].bound[t.decision]),
               t.decision = bot => Both(node[i]) \/ Quorum(node[i].bound[bot])
        PROVE  CA!Next
    <3> DEFINE d == t.decision
    <3>1. est' = est /\ dec' = [dec EXCEPT ![i] = d] /\ dec[i] = None
      BY <2>4, <2>6
    <3>2. d \in Val => CA!Approvable(d)
      BY <2>6, BoundIsProposed, EnoughMeans
    <3>3. d = bot => \A v \in Val : CA!Approvable(v)
      BY <2>6, BotIsRooted, EnoughMeans
    <3>4. ASSUME d \in Val, NEW k \in Correct PROVE dec[k] # 1 - d
      <4>1. 1 - d \in Val /\ 1 - d # d
        BY <3>4 DEF Val
      <4>2. node[k].decision \in Val => Quorum(node[k].bound[node[k].decision])
        BY DEF IInv, LocalInv, DecidesRight
      <4>3. node[k].decision # 1 - d
        BY <2>6, <3>4, <4>1, <4>2, BoundAgree
      <4> QED
        BY <4>3
    <3>5. CA!Decide(i, d)
      BY <3>1, <3>2, <3>3, <3>4 DEF CA!Decide, CA!Val, Val, CA!bot, bot
    <3> QED
      BY <2>6, <3>5 DEF CA!Next, CA!Val, Val, CA!bot, bot, Decisions
  <2>7. ASSUME t.est = node[i].est, t.decision = node[i].decision
        PROVE  UNCHANGED CA!vars
    BY <2>2, <2>7 DEF CA!vars
  <2> QED
    BY <2>1, <2>3, <2>5, <2>6, <2>7, StepVisible
<1> QED
  BY <1>1, <1>2

\* The first round keeps what MMR relies on, in every network with n > 3f:
\* decisions other than bot agree, and what is decided, or made way for bot, was
\* proposed by more than f nodes, counting the faulty ones
\* (internalValidityBCA.go:84-229).
THEOREM Refinement == Spec => CASpec
BY Invariance, RefinesInit, RefinesStep, PTL DEF Spec, CASpec, CA!Spec

-----------------------------------------------------------------------------
(***************************************************************************)
(* Termination where the correct nodes proposed the same value.            *)
(***************************************************************************)
\* A node that has n-f echoes, votes or binds goes on, or has yet to read that it can.
KeepsGoing(s) ==
  /\ s.est # None => s.est \in s.sentEchoes
  /\ (\E v \in Val : Approved(s, v)) => s.vote # None \/ s.approveVal # <<>>
  /\ (\E v \in Val : Quorum(s.voted[v])) => s.bind # None \/ s.bindVal # <<>>
  /\ (\E v \in Decisions : Quorum(s.bound[v])) => s.decision # None \/ s.terminateVal # <<>>

AllKeepGoing == \A i \in Correct : KeepsGoing(node[i])

LEMMA NotEmptied ==
  ASSUME NEW S, NEW q \in Seq(S), NEW x \in S
  PROVE  Append(q, x) # <<>>
<1>1. Len(Append(q, x)) = Len(q) + 1 /\ Len(q) \in Nat
  BY AppendProperties, LenProperties
<1> QED
  BY <1>1

\* A channel that is appended to, where a condition holds, is not empty.
LEMMA AppendedTo ==
  ASSUME NEW S, NEW q \in Seq(S), NEW x \in S, NEW r, NEW c \in BOOLEAN,
         r = IF c THEN Append(q, x) ELSE q
  PROVE  (q # <<>> => r # <<>>) /\ (c => r # <<>>)
BY NotEmptied

\* A quorum is reached with its last member.
LEMMA JustReached ==
  ASSUME NEW S \in SUBSET Nodes, NEW j \in Nodes, j \notin S, Quorum(S \cup {j})
  PROVE  Quorum(S) \/ Cardinality(S \cup {j}) = N - F
<1>1. Cardinality(S \cup {j}) = Cardinality(S) + 1 /\ Cardinality(S) \in Nat
  BY OneMore
<1> QED
  BY <1>1, Numbers DEF Quorum

LEMMA EchoGoesOn ==
  ASSUME NEW s \in NodeState, NEW t \in NodeState, KeepsGoing(s),
         NEW j \in Nodes, NEW v \in Val, AfterEcho(s, t, j, v)
  PROVE  KeepsGoing(t)
<1>1. /\ s.echoes[v] \in SUBSET Nodes /\ j \notin s.echoes[v]
      /\ t.echoes[v] = s.echoes[v] \cup {j} /\ \A w \in Val \ {v} : t.echoes[w] = s.echoes[w]
  BY DEF AfterEcho, NodeState
<1>2. Quorum(t.echoes[v]) => Quorum(s.echoes[v]) \/ Cardinality(t.echoes[v]) = N - F
  BY <1>1, JustReached
<1>3. \A w \in Val : Approved(t, w) => Approved(s, w) \/ Cardinality(t.echoes[v]) = N - F
  BY <1>1, <1>2 DEF Approved
<1>4. s.approveVal \in Seq(Val)
  BY DEF NodeState
<1>5. /\ s.approveVal # <<>> => t.approveVal # <<>>
      /\ Cardinality(t.echoes[v]) = N - F => t.approveVal # <<>>
  BY <1>4, AppendedTo DEF AfterEcho
<1>6. t.vote = s.vote
  BY DEF AfterEcho
<1>7. (\E w \in Val : Approved(t, w)) => t.vote # None \/ t.approveVal # <<>>
  BY <1>3, <1>5, <1>6 DEF KeepsGoing
<1>8. /\ t.est = s.est /\ s.sentEchoes \subseteq t.sentEchoes
      /\ t.voted = s.voted /\ t.bind = s.bind /\ t.bindVal = s.bindVal
      /\ t.bound = s.bound /\ t.decision = s.decision /\ t.terminateVal = s.terminateVal
  BY DEF AfterEcho
<1> QED
  BY <1>7, <1>8 DEF KeepsGoing

LEMMA VoteGoesOn ==
  ASSUME NEW s \in NodeState, NEW t \in NodeState, KeepsGoing(s),
         NEW j \in Nodes, NEW v \in Val, AfterVote(s, t, j, v)
  PROVE  KeepsGoing(t)
<1>1. /\ s.voted[v] \in SUBSET Nodes /\ s.voted[1 - v] \in SUBSET Nodes
      /\ j \notin s.voted[v] /\ 1 - v \in Val
      /\ t.voted[v] = s.voted[v] \cup {j} /\ \A w \in Val \ {v} : t.voted[w] = s.voted[w]
      /\ t.voted[1 - v] = s.voted[1 - v]
  BY DEF AfterVote, NodeState, Voters, Val
<1>2. /\ Quorum(t.voted[v]) => Quorum(s.voted[v]) \/ Cardinality(t.voted[v]) = N - F
      /\ Quorum(s.voted[1 - v]) \/ Cardinality(t.voted[1 - v]) < N - F
  <2>1. Quorum(t.voted[v]) => Quorum(s.voted[v]) \/ Cardinality(t.voted[v]) = N - F
    BY <1>1, JustReached
  <2>2. Cardinality(s.voted[1 - v]) \in Nat
    BY <1>1, Sizes
  <2> QED
    BY <1>1, <2>1, <2>2, Numbers DEF Quorum
<1>3. \A w \in Val : Quorum(t.voted[w]) =>
        \/ \E x \in Val : Quorum(s.voted[x])
        \/ Cardinality(t.voted[v]) = N - F /\ Cardinality(t.voted[1 - v]) < N - F
  BY <1>1, <1>2
<1>4. s.bindVal \in Seq(Val)
  BY DEF NodeState
<1>5. /\ s.bindVal # <<>> => t.bindVal # <<>>
      /\ Cardinality(t.voted[v]) = N - F /\ Cardinality(t.voted[1 - v]) < N - F => t.bindVal # <<>>
  BY <1>4, AppendedTo DEF AfterVote
<1>6. t.bind = s.bind
  BY DEF AfterVote
<1>7. (\E w \in Val : Quorum(t.voted[w])) => t.bind # None \/ t.bindVal # <<>>
  BY <1>3, <1>5, <1>6 DEF KeepsGoing
<1>8. /\ t.est = s.est /\ s.sentEchoes = t.sentEchoes
      /\ t.echoes = s.echoes /\ t.vote = s.vote /\ t.approveVal = s.approveVal
      /\ t.bound = s.bound /\ t.decision = s.decision /\ t.terminateVal = s.terminateVal
  BY DEF AfterVote
<1> QED
  BY <1>7, <1>8 DEF KeepsGoing, Approved

LEMMA BindGoesOn ==
  ASSUME NEW s \in NodeState, NEW t \in NodeState, KeepsGoing(s),
         NEW j \in Nodes, NEW v \in Decisions, AfterBind(s, t, j, v)
  PROVE  KeepsGoing(t)
<1>1. /\ s.bound[v] \in SUBSET Nodes /\ j \notin s.bound[v]
      /\ t.bound[v] = s.bound[v] \cup {j} /\ \A w \in Decisions \ {v} : t.bound[w] = s.bound[w]
  BY DEF AfterBind, NodeState, Binders
<1>2. Quorum(t.bound[v]) => Quorum(s.bound[v]) \/ Cardinality(t.bound[v]) = N - F
  BY <1>1, JustReached
<1>3. \A w \in Decisions : Quorum(t.bound[w]) => Quorum(s.bound[w]) \/ Cardinality(t.bound[v]) = N - F
  BY <1>1, <1>2
<1>4. s.terminateVal \in Seq(Decisions)
  BY DEF NodeState
<1>5. /\ s.terminateVal # <<>> => t.terminateVal # <<>>
      /\ Cardinality(t.bound[v]) = N - F => t.terminateVal # <<>>
  BY <1>4, AppendedTo DEF AfterBind
<1>6. t.decision = s.decision
  BY DEF AfterBind
<1>7. (\E w \in Decisions : Quorum(t.bound[w])) => t.decision # None \/ t.terminateVal # <<>>
  BY <1>3, <1>5, <1>6 DEF KeepsGoing
<1>8. /\ t.est = s.est /\ s.sentEchoes = t.sentEchoes
      /\ t.echoes = s.echoes /\ t.vote = s.vote /\ t.approveVal = s.approveVal
      /\ t.voted = s.voted /\ t.bind = s.bind /\ t.bindVal = s.bindVal
  BY DEF AfterBind
<1> QED
  BY <1>7, <1>8 DEF KeepsGoing, Approved

LEMMA StepGoesOn ==
  ASSUME NEW s \in NodeState, NEW t \in NodeState, LocalInv(s), KeepsGoing(s), After(s, t)
  PROVE  KeepsGoing(t)
<1>1. CASE \E v \in Val : AfterPropose(s, t, v)
  BY <1>1 DEF AfterPropose, KeepsGoing, Approved
<1>2. CASE AfterFirst(s, t)
  <2>1. t.vote # None
    BY <1>2, FirstLocal DEF AfterFirst, LocalInv, ApprovalsRight
  <2> QED
    BY <1>2, <2>1 DEF AfterFirst, KeepsGoing
<1>3. CASE AfterSecond(s, t) \/ AfterUnblock(s, t)
  <2>1. t.vote # None
    BY <1>3 DEF AfterSecond, AfterUnblock, LocalInv, ApprovalsRight
  <2> QED
    BY <1>3, <2>1 DEF AfterSecond, AfterUnblock, KeepsGoing
<1>4. CASE AfterBindBot(s, t) \/ AfterBindVal(s, t)
  <2>1. t.bind # None
    <3>1. CASE AfterBindBot(s, t)
      BY <3>1, NoneAssumption DEF AfterBindBot, Decisions
    <3>2. CASE AfterBindVal(s, t)
      BY <3>2, HeadTailProperties, NoneAssumption DEF AfterBindVal, NodeState, Decisions
    <3> QED
      BY <1>4, <3>1, <3>2
  <2> QED
    BY <1>4, <2>1 DEF AfterBindBot, AfterBindVal, KeepsGoing, Approved
<1>5. CASE AfterDecideVal(s, t) \/ AfterDecideBot(s, t)
  <2>1. t.decision # None
    <3>1. CASE AfterDecideBot(s, t)
      BY <3>1, NoneAssumption DEF AfterDecideBot, Decisions
    <3>2. CASE AfterDecideVal(s, t)
      BY <3>2, HeadTailProperties, NoneAssumption DEF AfterDecideVal, NodeState
    <3> QED
      BY <1>5, <3>1, <3>2
  <2> QED
    BY <1>5, <2>1 DEF AfterDecideVal, AfterDecideBot, KeepsGoing, Approved
<1> QED
  BY <1>1, <1>2, <1>3, <1>4, <1>5, EchoGoesOn, VoteGoesOn, BindGoesOn DEF After

LEMMA GoingInv == Spec => []AllKeepGoing
<1>1. Init => AllKeepGoing
  <2> SUFFICES ASSUME Init PROVE KeepsGoing(newBCA)
    BY DEF Init, AllKeepGoing
  <2>1. ~Quorum({})
    BY FS_EmptySet, Numbers DEF Quorum
  <2>2. /\ \A v \in Val : newBCA.echoes[v] = {} /\ newBCA.voted[v] = {}
        /\ \A v \in Decisions : newBCA.bound[v] = {} /\ newBCA.est = None
    BY DEF newBCA
  <2>3. newBCA.est = None
    BY DEF newBCA
  <2> QED
    BY <2>1, <2>2, <2>3 DEF KeepsGoing, Approved
<1>2. IInv /\ AllKeepGoing /\ [Next]_vars => AllKeepGoing'
  <2> SUFFICES ASSUME IInv, AllKeepGoing, [Next]_vars, NEW i \in Correct PROVE KeepsGoing(node'[i])
    BY DEF AllKeepGoing
  <2>1. CASE Next
    <3>1. PICK k \in Correct, t \in NodeState : node' = [node EXCEPT ![k] = t] /\ After(node[k], t)
      BY <2>1, StepMoves DEF IInv
    <3>2. node'[k] = t /\ (i # k => node'[i] = node[i])
      BY <3>1 DEF IInv, TypeOK
    <3>3. node[k] \in NodeState /\ LocalInv(node[k]) /\ KeepsGoing(node[k]) /\ KeepsGoing(node[i])
      BY DEF IInv, TypeOK, AllKeepGoing
    <3> QED
      BY <3>1, <3>2, <3>3, StepGoesOn
  <2>2. CASE UNCHANGED vars
    BY <2>2 DEF vars, AllKeepGoing
  <2> QED
    BY <2>1, <2>2
<1> QED
  BY <1>1, <1>2, Invariance, PTL DEF Spec

\* The correct nodes are a quorum.
LEMMA CorrectQuorum ==
  ASSUME NEW S \in SUBSET Nodes, Correct \subseteq S
  PROVE  Quorum(S)
<1>1. Cardinality(Correct) = N - Cardinality(Faulty)
  <2>1. Nodes \cap Faulty = Faulty
    BY Numbers
  <2> QED
    BY <2>1, Numbers, FS_Difference DEF Correct, N
<1>2. Quorum(Correct)
  BY <1>1, Numbers DEF Quorum
<1> QED
  BY <1>2, LargerSize

LEMMA UnanimousInv == IInv /\ AllKeepGoing => UnanimousTermination
<1> SUFFICES ASSUME IInv, AllKeepGoing, Quiescent, NEW v \in Val,
                    \A i \in Correct : node[i].est = v
             PROVE  \A i \in Correct : Decided(i)
  BY DEF UnanimousTermination
<1>1. /\ v \in Decisions /\ v # None /\ v # bot
      /\ \A w \in Decisions : w # None
  BY NoneAssumption DEF Decisions, Val, bot
<1>2. \A i \in Correct : node[i] \in NodeState /\ LocalInv(node[i]) /\ KeepsGoing(node[i])
  BY DEF IInv, TypeOK, AllKeepGoing
<1>3. \A i \in Correct, w \in Val : Approved(node[i], w) => w = v
  <2> TAKE i \in Correct, w \in Val
  <2> SUFFICES ASSUME Approved(node[i], w) PROVE w = v
    OBVIOUS
  <2>1. Proposers(w) # {}
    BY ApprovedIsProposed DEF Enough
  <2> QED
    BY <2>1 DEF Proposers
<1>4. \A i \in Correct : Approved(node[i], v)
  <2> TAKE i \in Correct
  <2> SUFFICES ASSUME ~Approved(node[i], v) PROVE FALSE
    OBVIOUS
  <2>1. node[i].echoes[v] \in SUBSET Nodes
    BY <1>2 DEF NodeState
  <2>2. \A j \in Correct : v \in node[j].sentEchoes
    BY <1>1, <1>2 DEF KeepsGoing
  <2>3. \A j \in Correct : j \in node[i].echoes[v]
    BY <2>2 DEF Quiescent, Approved, Quorum, len
  <2>4. Quorum(node[i].echoes[v])
    BY <2>1, <2>3, CorrectQuorum
  <2> QED
    BY <2>4 DEF Approved
<1>5. \A i \in Correct : node[i].vote = v
  <2> TAKE i \in Correct
  <2>1. node[i].vote # None \/ node[i].approveVal # <<>>
    BY <1>2, <1>4 DEF KeepsGoing
  <2>2. node[i].approveVal = <<>> \/ node[i].voter = "done"
    BY DEF Quiescent
  <2>3. node[i].vote # None
    BY <1>2, <2>1, <2>2 DEF LocalInv, ApprovalsRight
  <2>4. node[i].vote \in Val /\ Approved(node[i], node[i].vote)
    BY <1>2, <2>3 DEF NodeState, LocalInv, ApprovalsRight
  <2> QED
    BY <1>3, <2>4
<1>6. \A i \in Correct : node[i].bind = v
  <2> TAKE i \in Correct
  <2>1. node[i].bind # None
    <3> SUFFICES ASSUME node[i].bind = None PROVE FALSE
      OBVIOUS
    <3>1. ASSUME NEW j \in Correct PROVE j \in node[i].voted[v]
      <4>1. j \in Voters(node[i])
        BY <1>1, <1>5 DEF Quiescent
      <4>2. PICK w \in Val : j \in node[i].voted[w]
        BY <4>1 DEF Voters
      <4>3. node[j].vote = w
        BY <4>2 DEF IInv, CountsGenuine
      <4> QED
        BY <1>5, <4>2, <4>3
    <3>2. Quorum(node[i].voted[v])
      BY <1>2, <3>1, CorrectQuorum DEF NodeState
    <3> QED
      BY <1>2, <3>2 DEF KeepsGoing, Quiescent
  <2>2. node[i].bind # bot
    <3>1. ~Both(node[i])
      BY <1>3 DEF Both, Val
    <3> QED
      BY <1>2, <3>1 DEF LocalInv, BindsRight
  <2>3. node[i].bind \in Val
    BY <1>2, <2>1, <2>2 DEF NodeState, Decisions
  <2>4. Quorum(node[i].voted[node[i].bind]) /\ node[i].voted[node[i].bind] \in SUBSET Nodes
    BY <1>2, <2>3 DEF LocalInv, BindsRight, NodeState
  <2>5. PICK j \in Correct : j \in node[i].voted[node[i].bind]
    BY <2>4, QuorumIsLarge
  <2>6. node[j].vote = node[i].bind
    BY <2>3, <2>5 DEF IInv, CountsGenuine
  <2> QED
    BY <1>5, <2>6
<1> TAKE i \in Correct
<1> SUFFICES ASSUME node[i].decision = None PROVE FALSE
  BY DEF Decided
<1>7. ASSUME NEW j \in Correct PROVE j \in node[i].bound[v]
  <2>1. j \in Binders(node[i])
    BY <1>1, <1>6 DEF Quiescent, Decided
  <2>2. PICK w \in Decisions : j \in node[i].bound[w]
    BY <2>1 DEF Binders
  <2>3. node[j].bind = w
    BY <2>2 DEF IInv, CountsGenuine
  <2> QED
    BY <1>6, <2>2, <2>3
<1>8. Quorum(node[i].bound[v])
  BY <1>1, <1>2, <1>7, CorrectQuorum DEF NodeState
<1> QED
  BY <1>1, <1>2, <1>8 DEF KeepsGoing, Quiescent, Decided

\* Where the correct nodes propose the same value the first round never gets
\* stuck: once what they sent is handled they have all decided, whatever the
\* faulty nodes echo, vote and bind, in every network with n > 3f
\* (internalValidityBCA.go:84).
THEOREM UnanimousTerminationHolds == Spec => []UnanimousTermination
BY UnanimousInv, GoingInv, Invariance, PTL

-----------------------------------------------------------------------------
(***************************************************************************)
(* Every step gets a node on.                                              *)
(***************************************************************************)
LEMMA ProgressParts ==
  ASSUME NEW s, NEW t, Progress(t) = Progress(s)
  PROVE  /\ t.est = s.est /\ t.echoes = s.echoes /\ t.voted = s.voted /\ t.bound = s.bound
         /\ t.voter = s.voter /\ t.bind = s.bind /\ t.decision = s.decision
BY DEF Progress

LEMMA StepIsForward ==
  ASSUME NEW s \in NodeState, NEW t \in NodeState, LocalInv(s), After(s, t)
  PROVE  Forward(s, t)
<1>1. /\ s.sentEchoes \subseteq t.sentEchoes
      /\ s.est # None => t.est = s.est
      /\ s.vote # None => t.vote = s.vote
      /\ s.bind # None => t.bind = s.bind
      /\ s.decision # None => t.decision = s.decision
  BY StepGrows
<1>2. \A v \in Val : s.echoes[v] \subseteq t.echoes[v]
  <2>1. CASE \E j \in Nodes, v \in Val : AfterEcho(s, t, j, v)
    BY <2>1 DEF AfterEcho, NodeState
  <2>2. CASE t.echoes = s.echoes
    BY <2>2
  <2> QED
    BY <2>1, <2>2 DEF After, AfterPropose, AfterVote, AfterBind, AfterFirst, AfterSecond,
       AfterUnblock, AfterBindBot, AfterBindVal, AfterDecideVal, AfterDecideBot
<1>3. \A v \in Val : s.voted[v] \subseteq t.voted[v]
  <2>1. CASE \E j \in Nodes, v \in Val : AfterVote(s, t, j, v)
    BY <2>1 DEF AfterVote, NodeState
  <2>2. CASE t.voted = s.voted
    BY <2>2
  <2> QED
    BY <2>1, <2>2 DEF After, AfterPropose, AfterEcho, AfterBind, AfterFirst, AfterSecond,
       AfterUnblock, AfterBindBot, AfterBindVal, AfterDecideVal, AfterDecideBot
<1>4. \A v \in Decisions : s.bound[v] \subseteq t.bound[v]
  <2>1. CASE \E j \in Nodes, v \in Decisions : AfterBind(s, t, j, v)
    BY <2>1 DEF AfterBind, NodeState
  <2>2. CASE t.bound = s.bound
    BY <2>2
  <2> QED
    BY <2>1, <2>2 DEF After, AfterPropose, AfterEcho, AfterVote, AfterFirst, AfterSecond,
       AfterUnblock, AfterBindBot, AfterBindVal, AfterDecideVal, AfterDecideBot
<1>5. (s.voter # "first" => t.voter # "first") /\ (s.voter = "done" => t.voter = "done")
  BY DEF After, AfterPropose, AfterEcho, AfterVote, AfterBind, AfterFirst, AfterSecond,
     AfterUnblock, AfterBindBot, AfterBindVal, AfterDecideVal, AfterDecideBot
<1> QED
  BY <1>1, <1>2, <1>3, <1>4, <1>5 DEF Forward

LEMMA StepProgresses ==
  ASSUME NEW s \in NodeState, NEW t \in NodeState, After(s, t)
  PROVE  Progress(t) # Progress(s)
<1> SUFFICES ASSUME Progress(t) = Progress(s) PROVE FALSE
  OBVIOUS
<1>1. /\ t.est = s.est /\ t.echoes = s.echoes /\ t.voted = s.voted /\ t.bound = s.bound
      /\ t.voter = s.voter /\ t.bind = s.bind /\ t.decision = s.decision
  BY ProgressParts
<1>2. None \notin Decisions /\ None \notin Val /\ bot # None
  BY NoneAssumption DEF Decisions
<1>3. CASE \E v \in Val : AfterPropose(s, t, v)
  BY <1>1, <1>2, <1>3 DEF AfterPropose
<1>4. CASE \E j \in Nodes, v \in Val : AfterEcho(s, t, j, v)
  BY <1>1, <1>4 DEF AfterEcho, NodeState
<1>5. CASE \E j \in Nodes, v \in Val : AfterVote(s, t, j, v)
  <2>1. PICK j \in Nodes, v \in Val : AfterVote(s, t, j, v)
    BY <1>5
  <2>2. j \in t.voted[v]
    BY <2>1 DEF AfterVote, NodeState
  <2> QED
    BY <1>1, <2>1, <2>2 DEF AfterVote, Voters
<1>6. CASE \E j \in Nodes, v \in Decisions : AfterBind(s, t, j, v)
  <2>1. PICK j \in Nodes, v \in Decisions : AfterBind(s, t, j, v)
    BY <1>6
  <2>2. j \in t.bound[v]
    BY <2>1 DEF AfterBind, NodeState
  <2> QED
    BY <1>1, <2>1, <2>2 DEF AfterBind, Binders
<1>7. CASE AfterFirst(s, t) \/ AfterSecond(s, t) \/ AfterUnblock(s, t)
  BY <1>1, <1>7 DEF AfterFirst, AfterSecond, AfterUnblock
<1>8. CASE AfterBindBot(s, t) \/ AfterDecideBot(s, t)
  BY <1>1, <1>2, <1>8 DEF AfterBindBot, AfterDecideBot
<1>9. CASE AfterBindVal(s, t)
  <2>1. t.bind \in Val
    BY <1>9 DEF AfterBindVal, NodeState
  <2> QED
    BY <1>1, <1>2, <1>9, <2>1 DEF AfterBindVal
<1>10. CASE AfterDecideVal(s, t)
  <2>1. t.decision \in Decisions
    BY <1>10 DEF AfterDecideVal, NodeState
  <2> QED
    BY <1>1, <1>2, <1>10, <2>1 DEF AfterDecideVal
<1> QED
  BY <1>3, <1>4, <1>5, <1>6, <1>7, <1>8, <1>9, <1>10 DEF After

LEMMA StepGetsOn == IInv /\ [Next]_vars => [GetsOn]_vars
<1> SUFFICES ASSUME IInv, Next PROVE GetsOn
  OBVIOUS
<1>1. TypeOK /\ \A k \in Correct : LocalInv(node[k])
  BY DEF IInv
<1>2. PICK i \in Correct, t \in NodeState : node' = [node EXCEPT ![i] = t] /\ After(node[i], t)
  BY <1>1, StepMoves
<1>3. node'[i] = t /\ \A k \in Correct \ {i} : node'[k] = node[k]
  BY <1>1, <1>2 DEF TypeOK
<1>4. node[i] \in NodeState
  BY <1>1 DEF TypeOK
<1> QED
  BY <1>1, <1>2, <1>3, <1>4, StepIsForward, StepProgresses DEF GetsOn

\* No behaviour of the first round goes on for ever, whatever faulty nodes send and
\* however often: each step does something at a node that it does once
\* (internalValidityBCA.go:74-165).  With fair delivery it ends where UnanimousTermination
\* and QuiescentTermination look.
THEOREM EveryStepCountsHolds == Spec => EveryStepCounts
BY StepGetsOn, Invariance, PTL DEF Spec, EveryStepCounts
=============================================================================
