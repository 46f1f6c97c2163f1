----------------------------- MODULE EVBCAProofs -----------------------------
(***************************************************************************)
(* The crusader agreement of a later round in every network with n > 3f,   *)
(* whatever the round before ended with: its channels, that a decision of  *)
(* the round before stands, and that it implements CrusaderAgreement.      *)
(*                                                                         *)
(* Correct nodes never echo the coin: who estimates it is fast-forwarded,  *)
(* and without them no node sees f+1 echoes of it.  So the coin is         *)
(* approved by those that are fast-forwarded and nobody else, and once;    *)
(* the other value is approved on n-f echoes, as in the first round.       *)
(* Correct nodes may bind different values here.  Decisions agree since    *)
(* two quorums of binds share a correct node, which binds once.            *)
(***************************************************************************)
EXTENDS EVBCA, FiniteSetTheorems, SequenceTheorems, TLAPS

Decisions == Val \cup {bot}

-----------------------------------------------------------------------------
(***************************************************************************)
(* The inductive invariant: the state s of one node, where c is the coin.  *)
(***************************************************************************)
Quorum(S) == Cardinality(S) >= N - F

\* The coin is approved by being fast-forwarded, the other value by echoes.
Approved(s, c, v) == Quorum(s.echoes[v]) \/ (v = c /\ s.est = c)
Both(s, c) == \A v \in Val : Approved(s, c, v)

\* Nobody but a faulty node echoes the coin.
CoinSilent(s, c) == c \notin s.sentEchoes /\ s.echoes[c] \subseteq Faulty

\* What waitToVote has read and has still to read are different approved values,
\* and it has something to read once there is one.
ApprovalsRight(s, c) ==
  /\ \A x \in 1 .. Len(s.approveVal) : Approved(s, c, s.approveVal[x]) /\ s.approveVal[x] # s.vote
  /\ \A x, y \in 1 .. Len(s.approveVal) : s.approveVal[x] = s.approveVal[y] => x = y
  /\ s.vote # None => Approved(s, c, s.vote)
  /\ s.voter = "first" <=> s.vote = None
  /\ s.voter = "done" => Both(s, c)
  /\ (\E v \in Val : Approved(s, c, v)) => s.vote # None \/ s.approveVal # <<>>

\* What may be bound, and how often bindValChan has been sent to at most: once by
\* fastForward and once by n-f votes.
Bindable(s, c, v) == Quorum(s.voted[v]) \/ (v = c /\ s.est = c)
AnyQuorum(s) == \E v \in Val : Quorum(s.voted[v])
BindsSent(s, c) == (IF s.est = c THEN 1 ELSE 0) + (IF AnyQuorum(s) THEN 1 ELSE 0)

BindsRight(s, c) ==
  /\ s.bindBot <= 1 /\ (s.voter # "done" => s.bindBot = 0)
  /\ s.bind = bot => s.voter = "done"
  /\ \A x \in 1 .. Len(s.bindVal) : Bindable(s, c, s.bindVal[x])
  /\ s.bind \in Val => Bindable(s, c, s.bind)
  /\ Len(s.bindVal) + (IF s.bind \in Val THEN 1 ELSE 0) <= BindsSent(s, c)
  /\ \A v, w \in Val : v # w => s.voted[v] \cap s.voted[w] = {}
  /\ (\E v \in Val : Bindable(s, c, v)) => s.bind # None \/ s.bindVal # <<>>

\* Bot is signalled once by waitToVote and once by the binds, which are never bot.
TerminatesRight(s) ==
  /\ \A v, w \in Decisions : v # w => s.bound[v] \cap s.bound[w] = {}
  /\ s.bound[bot] = {}
  /\ Len(s.terminateVal) <= 1
  /\ \A x \in 1 .. Len(s.terminateVal) : Quorum(s.bound[s.terminateVal[x]])
  /\ (s.terminateBot = 0 \/ s.voter = "done" \/ Quorum(R!Binders(s)))
  /\ s.terminateBot > 1 => s.voter = "done" /\ Quorum(R!Binders(s))
  /\ s.terminateBot <= 2

DecidesRight(s) ==
  /\ s.decision \in Val => Quorum(s.bound[s.decision])
  /\ s.decision = bot => s.voter = "done"
  /\ s.unblock <= 1 /\ (s.decision = None => s.unblock = 0)
  /\ (\E v \in Val : Quorum(s.bound[v])) => s.decision # None \/ s.terminateVal # <<>>

EchoesRight(s, c) ==
  /\ \A v \in s.sentEchoes : s.est = v \/ Cardinality(s.echoes[v]) >= F + 1
  /\ s.est \notin {None, c} => s.est \in s.sentEchoes

LocalInv(s, c) ==
  /\ CoinSilent(s, c) /\ ApprovalsRight(s, c) /\ BindsRight(s, c)
  /\ TerminatesRight(s) /\ DecidesRight(s) /\ EchoesRight(s, c)

(***************************************************************************)
(* The nodes together.                                                     *)
(***************************************************************************)
\* The round was entered with an outcome of the round before, and a node that
\* proposed to it proposed what it was to.
EnteredRight ==
  /\ \E o \in Outcomes : prev = o.prev /\ coin = o.coin /\ decided = o.decided
  /\ \A i \in Correct : node[i].est # None => Proposes(i) /\ node[i].est = Estimate(i)

\* What is counted for a correct peer is what it sent.
CountsGenuine ==
  \A i, j \in Correct :
    /\ \A v \in Val : j \in node[i].echoes[v] => v \in node[j].sentEchoes
    /\ \A v \in Val : j \in node[i].voted[v] => node[j].vote = v
    /\ \A v \in Val : j \in node[i].bound[v] => node[j].bind = v

\* What f+1 nodes echo was proposed by a correct one.
Proposers(v) == {i \in Correct : node[i].est = v}
EchoesRooted ==
  \A i \in Correct, v \in Val : Cardinality(node[i].echoes[v]) >= F + 1 => Proposers(v) # {}

IInv ==
  /\ TypeOK /\ (\A i \in Correct : LocalInv(node[i], coin))
  /\ EnteredRight /\ CountsGenuine /\ EchoesRooted

-----------------------------------------------------------------------------
(***************************************************************************)
(* What is taken from IVBCA means the same here.                           *)
(***************************************************************************)
LEMMA SameSize == \A S : R!Cardinality(S) = Cardinality(S)
BY DEF R!Cardinality, Cardinality

LEMMA SameNames ==
  R!N = N /\ R!Val = Val /\ R!bot = bot /\ R!Decisions = Decisions /\ R!Correct = Correct
BY SameSize DEF R!N, N, R!Val, Val, R!bot, bot, R!Decisions, Decisions, R!Correct, Correct

LEMMA Values ==
  /\ None \notin Decisions /\ None # bot /\ None \notin Val
  /\ bot \notin Val /\ bot \in Decisions /\ Val \subseteq Decisions
  /\ \A v \in Val : 1 - v \in Val /\ 1 - v # v /\ v \in Decisions /\ v # None /\ v # bot
  /\ \A v, w, x \in Val : v = w \/ v = x \/ w = x
BY NoneAssumption DEF Decisions, Val, bot

LEMMA Fields ==
  ASSUME NEW s \in R!NodeState
  PROVE  /\ s.est \in Val \cup {None} /\ s.echoes \in [Val -> SUBSET Nodes]
         /\ s.voted \in [Val -> SUBSET Nodes] /\ s.bound \in [Decisions -> SUBSET Nodes]
         /\ s.sentEchoes \in SUBSET Val /\ s.vote \in Val \cup {None}
         /\ s.bind \in Decisions \cup {None} /\ s.approveVal \in Seq(Val) /\ s.bindBot \in Nat
         /\ s.bindVal \in Seq(Val) /\ s.terminateBot \in Nat /\ s.terminateVal \in Seq(Decisions)
         /\ s.unblock \in Nat /\ s.voter \in {"first", "second", "done"}
         /\ s.decision \in Decisions \cup {None}
BY SameNames DEF R!NodeState

-----------------------------------------------------------------------------
(***************************************************************************)
(* Sets of nodes and their sizes.                                          *)
(***************************************************************************)
LEMMA Numbers ==
  /\ N \in Nat /\ F \in Nat /\ 3 * F < N /\ Cardinality(Faulty) \in Nat
  /\ Cardinality(Faulty) <= F /\ IsFiniteSet(Nodes) /\ IsFiniteSet(Faulty)
  /\ Faulty \subseteq Nodes /\ Correct \subseteq Nodes
<1>1. IsFiniteSet(Nodes) /\ Faulty \in SUBSET Nodes
  BY NodesAssumption
<1>2. IsFiniteSet(Faulty)
  BY <1>1, FS_Subset
<1> QED
  BY <1>1, <1>2, FS_CardinalityType, ThresholdAssumption DEF N, Correct

LEMMA Sizes ==
  ASSUME NEW S \in SUBSET Nodes
  PROVE  IsFiniteSet(S) /\ Cardinality(S) \in Nat /\ Cardinality(S) <= N
BY Numbers, FS_Subset, FS_CardinalityType DEF N

LEMMA LargerSize ==
  ASSUME NEW S \in SUBSET Nodes, NEW T \in SUBSET S
  PROVE  Cardinality(T) <= Cardinality(S) /\ (Quorum(T) => Quorum(S))
<1>1. IsFiniteSet(S) /\ Cardinality(S) \in Nat /\ Cardinality(T) \in Nat /\ T \in SUBSET Nodes
  BY Sizes
<1>2. Cardinality(T) <= Cardinality(S)
  BY <1>1, FS_Subset
<1> QED
  BY <1>1, <1>2, Numbers DEF Quorum

LEMMA OneMore ==
  ASSUME NEW S \in SUBSET Nodes, NEW j \in Nodes, j \notin S
  PROVE  /\ S \cup {j} \in SUBSET Nodes /\ Cardinality(S \cup {j}) = Cardinality(S) + 1
         /\ Cardinality(S) \in Nat
         /\ Quorum(S) => Quorum(S \cup {j})
         /\ Quorum(S \cup {j}) => Quorum(S) \/ Cardinality(S \cup {j}) = N - F
         /\ Cardinality(S \cup {j}) = N - F => Quorum(S \cup {j}) /\ ~Quorum(S)
<1>1. /\ S \cup {j} \in SUBSET Nodes /\ Cardinality(S \cup {j}) = Cardinality(S) + 1
      /\ Cardinality(S) \in Nat
  BY Sizes, FS_AddElement
<1> QED
  BY <1>1, Numbers DEF Quorum

LEMMA JustReached ==
  ASSUME NEW S \in SUBSET Nodes, NEW T, NEW j \in Nodes, j \notin S, T = S \cup {j}
  PROVE  /\ Cardinality(T) = N - F => Quorum(T) /\ ~Quorum(S)
         /\ Quorum(T) => Quorum(S) \/ Cardinality(T) = N - F
BY OneMore

\* Faulty nodes are no quorum, and two quorums share a correct node.
LEMMA FaultyNoQuorum ==
  ASSUME NEW S \in SUBSET Faulty
  PROVE  ~Quorum(S) /\ ~(Cardinality(S) >= F + 1)
<1>1. Cardinality(S) <= Cardinality(Faulty) /\ Cardinality(S) \in Nat
  BY Numbers, Sizes, FS_Subset
<1> QED
  BY <1>1, Numbers DEF Quorum

LEMMA HasCorrect ==
  ASSUME NEW S \in SUBSET Nodes, Quorum(S) \/ Cardinality(S) >= F + 1
  PROVE  \E j \in Correct : j \in S
<1>1. ~(S \subseteq Faulty)
  BY FaultyNoQuorum
<1> QED
  BY <1>1 DEF Correct

LEMMA QuorumIsLarge ==
  ASSUME NEW S \in SUBSET Nodes, Quorum(S)
  PROVE  Cardinality(S) >= F + 1
BY Sizes, Numbers DEF Quorum

LEMMA Disjoint ==
  ASSUME NEW S \in SUBSET Nodes, NEW T \in SUBSET Nodes, Quorum(S), Quorum(T)
  PROVE  S \cap T # {} /\ \E j \in Correct : j \in S /\ j \in T
<1>1. IsFiniteSet(S) /\ IsFiniteSet(T)
  BY Sizes
<1>2. Cardinality(S \cup T) = Cardinality(S) + Cardinality(T) - Cardinality(S \cap T)
  BY <1>1, FS_Union
<1>3. /\ Cardinality(S \cup T) \in Nat /\ Cardinality(S \cup T) <= N
      /\ Cardinality(S) \in Nat /\ Cardinality(T) \in Nat /\ Cardinality(S \cap T) \in Nat
  BY Sizes
<1>4. Cardinality(S \cap T) >= F + 1
  BY <1>2, <1>3, Numbers DEF Quorum
<1>5. PICK j \in Correct : j \in S \cap T
  BY <1>4, HasCorrect
<1> QED
  BY <1>5

LEMMA CorrectQuorum ==
  ASSUME NEW S \in SUBSET Nodes, Correct \subseteq S
  PROVE  Quorum(S)
<1>1. Cardinality(Correct) = N - Cardinality(Faulty)
  <2>1. Nodes \cap Faulty = Faulty
    BY Numbers
  <2> QED
    BY <2>1, Numbers, FS_Difference DEF Correct, N
<1>2. Quorum(Correct)
  BY <1>1, Numbers DEF Quorum
<1> QED
  BY <1>2, LargerSize

(***************************************************************************)
(* Channels.                                                               *)
(***************************************************************************)
LEMMA Sent ==
  ASSUME NEW S, NEW q \in Seq(S), NEW x \in S
  PROVE  /\ Append(q, x) \in Seq(S) /\ Len(Append(q, x)) = Len(q) + 1 /\ Len(q) \in Nat
         /\ Append(q, x) # <<>> /\ Append(q, x)[Len(q) + 1] = x
         /\ \A y \in 1 .. Len(q) : Append(q, x)[y] = q[y] /\ q[y] \in S
         /\ \A y \in 1 .. Len(Append(q, x)) : y \in 1 .. Len(q) \/ y = Len(q) + 1
<1>1. /\ Append(q, x) \in Seq(S) /\ Len(Append(q, x)) = Len(q) + 1 /\ Len(q) \in Nat
      /\ Append(q, x)[Len(q) + 1] = x /\ \A y \in 1 .. Len(q) : Append(q, x)[y] = q[y]
  BY AppendProperties, LenProperties
<1>2. \A y \in 1 .. Len(q) : q[y] \in S
  BY ElementOfSeq
<1> QED
  BY <1>1, <1>2

LEMMA Received ==
  ASSUME NEW S, NEW q \in Seq(S), q # <<>>
  PROVE  /\ Head(q) \in S /\ Head(q) = q[1] /\ Tail(q) \in Seq(S) /\ 1 \in 1 .. Len(q)
         /\ Len(q) \in Nat \ {0} /\ Len(Tail(q)) = Len(q) - 1
         /\ \A y \in 1 .. Len(Tail(q)) : Tail(q)[y] = q[y + 1] /\ y + 1 \in 1 .. Len(q)
<1>1. Len(q) \in Nat \ {0}
  BY EmptySeq, LenProperties
<1>2. /\ Head(q) \in S /\ Tail(q) \in Seq(S) /\ Len(Tail(q)) = Len(q) - 1
      /\ \A y \in 1 .. Len(Tail(q)) : Tail(q)[y] = q[y + 1]
  BY HeadTailProperties
<1>3. Head(q) = q[1]
  OBVIOUS
<1> QED
  BY <1>1, <1>2, <1>3

\* What is left after a receive is as different as it was.
LEMMA ReceivedApart ==
  ASSUME NEW S, NEW q \in Seq(S), q # <<>>,
         \A a, b \in 1 .. Len(q) : q[a] = q[b] => a = b
  PROVE  \A x, y \in 1 .. Len(Tail(q)) : Tail(q)[x] = Tail(q)[y] => x = y
<1> SUFFICES ASSUME NEW x \in 1 .. Len(Tail(q)), NEW y \in 1 .. Len(Tail(q)), Tail(q)[x] = Tail(q)[y]
             PROVE  x = y
  OBVIOUS
<1>1. /\ q[x + 1] = q[y + 1]
      /\ x + 1 \in 1 .. Len(q) /\ y + 1 \in 1 .. Len(q)
  BY Received
<1>2. x + 1 = y + 1
  BY <1>1
<1>3. x \in Int /\ y \in Int
  BY Received
<1> QED
  BY <1>2, <1>3

-----------------------------------------------------------------------------
(***************************************************************************)
(* What the handlers and goroutines do to a node: from state s to state t. *)
(***************************************************************************)
KeepsEst(s, t) == t.est = s.est /\ t.sentEchoes = s.sentEchoes
KeepsVote(s, t) == t.approveVal = s.approveVal /\ t.voter = s.voter /\ t.vote = s.vote
KeepsBind(s, t) == t.bindBot = s.bindBot /\ t.bindVal = s.bindVal /\ t.bind = s.bind
KeepsEnd(s, t) ==
  /\ t.terminateBot = s.terminateBot /\ t.terminateVal = s.terminateVal
  /\ t.unblock = s.unblock /\ t.decision = s.decision

AfterForward(s, t, c) ==
  /\ s.est = None /\ t.est = c /\ t.sentEchoes = s.sentEchoes
  /\ t.approveVal = Append(s.approveVal, c) /\ t.bindVal = Append(s.bindVal, c)
  /\ t.voter = s.voter /\ t.vote = s.vote /\ t.bindBot = s.bindBot /\ t.bind = s.bind
  /\ t.echoes = s.echoes /\ t.voted = s.voted /\ t.bound = s.bound /\ KeepsEnd(s, t)

AfterPropose(s, t, v) ==
  /\ s.est = None /\ t.est = v /\ t.sentEchoes = s.sentEchoes \cup {v}
  /\ t.echoes = s.echoes /\ t.voted = s.voted /\ t.bound = s.bound
  /\ KeepsVote(s, t) /\ KeepsBind(s, t) /\ KeepsEnd(s, t)

AfterEcho(s, t, c, j, v) ==
  LET k == Cardinality(t.echoes[v]) IN
  /\ j \notin s.echoes[v] /\ t.echoes = [s.echoes EXCEPT ![v] = @ \cup {j}]
  /\ t.sentEchoes = (IF k = F + 1 /\ ~(v \in s.sentEchoes \/ (s.est = c /\ v = c))
                     THEN s.sentEchoes \cup {v} ELSE s.sentEchoes)
  /\ t.approveVal = (IF k = N - F THEN Append(s.approveVal, v) ELSE s.approveVal)
  /\ t.est = s.est /\ t.voter = s.voter /\ t.vote = s.vote
  /\ t.voted = s.voted /\ t.bound = s.bound /\ KeepsBind(s, t) /\ KeepsEnd(s, t)

AfterVote(s, t, j, v) ==
  /\ j \notin R!Voters(s) /\ t.voted = [s.voted EXCEPT ![v] = @ \cup {j}]
  /\ t.bindVal = (IF Cardinality(t.voted[v]) = N - F /\ Cardinality(t.voted[1 - v]) < N - F
                  THEN Append(s.bindVal, v) ELSE s.bindVal)
  /\ t.bindBot = s.bindBot /\ t.bind = s.bind
  /\ t.echoes = s.echoes /\ t.bound = s.bound
  /\ KeepsEst(s, t) /\ KeepsVote(s, t) /\ KeepsEnd(s, t)

AfterBind(s, t, j, v) ==
  LET all  == Cardinality(t.bound[v]) = N - F
      some == ~all /\ Cardinality(R!Binders(t)) = N - F
  IN
  /\ j \notin R!Binders(s) /\ t.bound = [s.bound EXCEPT ![v] = @ \cup {j}]
  /\ t.terminateVal = (IF all THEN Append(s.terminateVal, v) ELSE s.terminateVal)
  /\ t.terminateBot = (IF some THEN s.terminateBot + 1 ELSE s.terminateBot)
  /\ t.unblock = s.unblock /\ t.decision = s.decision
  /\ t.echoes = s.echoes /\ t.voted = s.voted
  /\ KeepsEst(s, t) /\ KeepsVote(s, t) /\ KeepsBind(s, t)

AfterFirst(s, t) ==
  /\ s.voter = "first" /\ s.approveVal # <<>>
  /\ t.voter = "second" /\ t.vote = Head(s.approveVal) /\ t.approveVal = Tail(s.approveVal)
  /\ t.echoes = s.echoes /\ t.voted = s.voted /\ t.bound = s.bound
  /\ KeepsEst(s, t) /\ KeepsBind(s, t) /\ KeepsEnd(s, t)

AfterSecond(s, t) ==
  /\ s.voter = "second" /\ s.approveVal # <<>> /\ Head(s.approveVal) # s.vote
  /\ t.voter = "done" /\ t.vote = s.vote /\ t.approveVal = Tail(s.approveVal)
  /\ t.bindBot = s.bindBot + 1 /\ t.terminateBot = s.terminateBot + 1
  /\ t.bindVal = s.bindVal /\ t.bind = s.bind
  /\ t.terminateVal = s.terminateVal /\ t.unblock = s.unblock /\ t.decision = s.decision
  /\ t.echoes = s.echoes /\ t.voted = s.voted /\ t.bound = s.bound /\ KeepsEst(s, t)

AfterBindBot(s, t) ==
  /\ s.bind = None /\ s.bindBot > 0
  /\ t.bind = bot /\ t.bindBot = s.bindBot - 1 /\ t.bindVal = s.bindVal
  /\ t.echoes = s.echoes /\ t.voted = s.voted /\ t.bound = s.bound
  /\ KeepsEst(s, t) /\ KeepsVote(s, t) /\ KeepsEnd(s, t)

AfterBindVal(s, t) ==
  /\ s.bind = None /\ s.bindVal # <<>>
  /\ t.bind = Head(s.bindVal) /\ t.bindVal = Tail(s.bindVal) /\ t.bindBot = s.bindBot
  /\ t.echoes = s.echoes /\ t.voted = s.voted /\ t.bound = s.bound
  /\ KeepsEst(s, t) /\ KeepsVote(s, t) /\ KeepsEnd(s, t)

AfterDecideVal(s, t) ==
  /\ s.decision = None /\ s.terminateVal # <<>> /\ t.unblock = s.unblock + 1
  /\ t.decision = Head(s.terminateVal) /\ t.terminateVal = Tail(s.terminateVal)
  /\ t.terminateBot = s.terminateBot
  /\ t.echoes = s.echoes /\ t.voted = s.voted /\ t.bound = s.bound
  /\ KeepsEst(s, t) /\ KeepsVote(s, t) /\ KeepsBind(s, t)

AfterDecideBot(s, t) ==
  /\ s.decision = None /\ s.terminateBot >= 2 /\ t.unblock = s.unblock + 1
  /\ t.decision = bot /\ t.terminateBot = s.terminateBot - 2
  /\ t.terminateVal = s.terminateVal
  /\ t.echoes = s.echoes /\ t.voted = s.voted /\ t.bound = s.bound
  /\ KeepsEst(s, t) /\ KeepsVote(s, t) /\ KeepsBind(s, t)

\* A step takes one node from its state to such a state t.
Moves(i, t) == t \in R!NodeState /\ node' = [node EXCEPT ![i] = t]

LEMMA ProposeMoves ==
  ASSUME TypeOK, NEW i \in Correct, propose(i)
  PROVE  /\ Proposes(i)
         /\ \E t : Moves(i, t) /\ \/ Estimate(i) = coin /\ AfterForward(node[i], t, coin)
                                  \/ /\ Estimate(i) # coin
                                     /\ AfterPropose(node[i], t, Estimate(i))
<1> DEFINE e == Estimate(i)
           s == [node[i] EXCEPT !.est = e]
           t1 == fastForward(s, e)
           t2 == broadcastEcho(s, e)
<1>1. node[i] \in R!NodeState /\ e \in Val
  BY DEF TypeOK, Estimate
<1>2. node[i].est = None /\ Proposes(i)
  BY DEF propose
<1> HIDE DEF e
<1>3. s \in R!NodeState
  BY <1>1, SameNames DEF R!NodeState
<1>4. /\ s.est = e /\ s.echoes = node[i].echoes /\ s.voted = node[i].voted /\ s.bound = node[i].bound
      /\ s.sentEchoes = node[i].sentEchoes /\ KeepsVote(node[i], s) /\ KeepsBind(node[i], s)
      /\ KeepsEnd(node[i], s)
  BY <1>1 DEF R!NodeState, KeepsVote, KeepsBind, KeepsEnd
<1> HIDE DEF s
<1>5. t1 \in R!NodeState
  <2>1. Append(s.approveVal, e) \in Seq(Val) /\ Append(s.bindVal, e) \in Seq(Val)
    BY <1>1, <1>3, Fields, Sent
  <2> QED
    BY <1>3, <2>1, SameNames DEF R!NodeState, fastForward
<1>6. e = coin => AfterForward(node[i], t1, coin)
  BY <1>2, <1>3, <1>4 DEF R!NodeState, fastForward, AfterForward, KeepsVote, KeepsBind, KeepsEnd
<1>7. t2 \in R!NodeState
  <2>1. s.sentEchoes \cup {e} \in SUBSET Val
    BY <1>1, <1>3, Fields
  <2> QED
    BY <1>3, <2>1, SameNames DEF R!NodeState, broadcastEcho
<1>8. AfterPropose(node[i], t2, e)
  BY <1>2, <1>3, <1>4 DEF R!NodeState, broadcastEcho, AfterPropose, KeepsVote, KeepsBind, KeepsEnd
<1>9. node' = [node EXCEPT ![i] = IF e = coin THEN t1 ELSE t2]
  BY DEF propose, e, s
<1>10. e = Estimate(i)
  BY DEF e
<1> QED
  BY <1>2, <1>5, <1>6, <1>7, <1>8, <1>9, <1>10 DEF Moves

LEMMA EchoMoves ==
  ASSUME TypeOK, NEW i \in Correct, NEW j \in Nodes, NEW v \in Val, submitEcho(i, j, v)
  PROVE  \E t : Moves(i, t) /\ AfterEcho(node[i], t, coin, j, v)
<1> DEFINE s == [node[i] EXCEPT !.echoes[v] = @ \cup {j}]
           k == len(s.echoes[v])
           b == IF k = F + 1 /\ ~SentEcho(i, v) THEN broadcastEcho(s, v) ELSE s
           t == [b EXCEPT !.approveVal = IF k = N - F THEN Append(@, v) ELSE @]
<1>1. node[i] \in R!NodeState
  BY DEF TypeOK
<1>2. s \in R!NodeState
  BY <1>1, SameNames DEF R!NodeState
<1>3. /\ s.echoes = [node[i].echoes EXCEPT ![v] = @ \cup {j}]
      /\ s.voted = node[i].voted /\ s.bound = node[i].bound
      /\ KeepsEst(node[i], s) /\ KeepsVote(node[i], s) /\ KeepsBind(node[i], s) /\ KeepsEnd(node[i], s)
  BY <1>1 DEF R!NodeState, KeepsEst, KeepsVote, KeepsBind, KeepsEnd
<1>4. j \notin node[i].echoes[v] /\ node' = [node EXCEPT ![i] = t]
  BY DEF submitEcho
<1> HIDE DEF s, k
<1>5. b \in R!NodeState
  <2>1. s.sentEchoes \cup {v} \in SUBSET R!Val
    BY <1>2, Fields, SameNames
  <2>2. broadcastEcho(s, v) \in R!NodeState
    BY <1>2, <2>1 DEF R!NodeState, broadcastEcho
  <2> QED
    BY <1>2, <2>2
<1>6. /\ b.echoes = s.echoes /\ b.voted = s.voted /\ b.bound = s.bound /\ b.est = s.est
      /\ b.sentEchoes = (IF k = F + 1 /\ ~SentEcho(i, v) THEN s.sentEchoes \cup {v} ELSE s.sentEchoes)
      /\ KeepsVote(s, b) /\ KeepsBind(s, b) /\ KeepsEnd(s, b)
  BY <1>2 DEF R!NodeState, broadcastEcho, KeepsVote, KeepsBind, KeepsEnd
<1> HIDE DEF b
<1>7. t \in R!NodeState
  <2>1. (IF k = N - F THEN Append(b.approveVal, v) ELSE b.approveVal) \in Seq(R!Val)
    BY <1>5, Fields, Sent, SameNames
  <2> QED
    BY <1>5, <2>1 DEF R!NodeState
<1>8. /\ t.echoes = b.echoes /\ t.voted = b.voted /\ t.bound = b.bound /\ KeepsEst(b, t)
      /\ t.approveVal = (IF k = N - F THEN Append(b.approveVal, v) ELSE b.approveVal)
      /\ t.voter = b.voter /\ t.vote = b.vote /\ KeepsBind(b, t) /\ KeepsEnd(b, t)
  BY <1>5 DEF R!NodeState, KeepsEst, KeepsBind, KeepsEnd
<1>9. AfterEcho(node[i], t, coin, j, v)
  <2> HIDE DEF t
  <2>1. k = Cardinality(t.echoes[v])
    BY <1>6, <1>8 DEF k, len
  <2>2. SentEcho(i, v) <=> v \in node[i].sentEchoes \/ (node[i].est = coin /\ v = coin)
    BY DEF SentEcho
  <2>3. t.echoes = [node[i].echoes EXCEPT ![v] = @ \cup {j}]
    BY <1>3, <1>6, <1>8
  <2> QED
    BY <1>3, <1>4, <1>6, <1>8, <2>1, <2>2, <2>3
       DEF AfterEcho, KeepsEst, KeepsVote, KeepsBind, KeepsEnd
<1> QED
  BY <1>4, <1>7, <1>9 DEF Moves

LEMMA VoteMoves ==
  ASSUME TypeOK, NEW i \in Correct, NEW j \in Nodes, NEW v \in Val, submitVote(i, j, v)
  PROVE  \E t : Moves(i, t) /\ AfterVote(node[i], t, j, v)
<1> DEFINE s == [node[i] EXCEPT !.voted[v] = @ \cup {j}]
           c == R!len(s.voted[v]) = R!N - F /\ R!len(s.voted[1 - v]) < R!N - F
           t == [s EXCEPT !.bindVal = IF c THEN Append(@, v) ELSE @]
<1>1. node[i] \in R!NodeState
  BY DEF TypeOK
<1>2. s \in R!NodeState
  BY <1>1, SameNames DEF R!NodeState
<1>3. /\ s.voted = [node[i].voted EXCEPT ![v] = @ \cup {j}]
      /\ s.echoes = node[i].echoes /\ s.bound = node[i].bound
      /\ KeepsEst(node[i], s) /\ KeepsVote(node[i], s) /\ KeepsBind(node[i], s) /\ KeepsEnd(node[i], s)
  BY <1>1 DEF R!NodeState, KeepsEst, KeepsVote, KeepsBind, KeepsEnd
<1>4. j \notin R!Voters(node[i]) /\ node' = [node EXCEPT ![i] = t]
  BY DEF submitVote, R!submitVote
<1>5. c <=> Cardinality(s.voted[v]) = N - F /\ Cardinality(s.voted[1 - v]) < N - F
  BY SameSize, SameNames DEF R!len
<1> HIDE DEF s, c
<1>6. t \in R!NodeState
  <2>1. (IF c THEN Append(s.bindVal, v) ELSE s.bindVal) \in Seq(R!Val)
    BY <1>2, Fields, Sent, SameNames
  <2> QED
    BY <1>2, <2>1 DEF R!NodeState
<1>7. /\ t.voted = s.voted /\ t.echoes = s.echoes /\ t.bound = s.bound
      /\ t.bindVal = (IF c THEN Append(s.bindVal, v) ELSE s.bindVal)
      /\ t.bindBot = s.bindBot /\ t.bind = s.bind
      /\ KeepsEst(s, t) /\ KeepsVote(s, t) /\ KeepsEnd(s, t)
  BY <1>2 DEF R!NodeState, KeepsEst, KeepsVote, KeepsEnd
<1>8. AfterVote(node[i], t, j, v)
  <2> HIDE DEF t
  <2> QED
    BY <1>3, <1>4, <1>5, <1>7 DEF AfterVote, KeepsEst, KeepsVote, KeepsBind, KeepsEnd
<1> QED
  BY <1>4, <1>6, <1>8 DEF Moves

LEMMA BindMoves ==
  ASSUME TypeOK, NEW i \in Correct, NEW j \in Nodes, NEW v \in Val, submitBind(i, j, v)
  PROVE  \E t : Moves(i, t) /\ AfterBind(node[i], t, j, v)
<1> DEFINE s == [node[i] EXCEPT !.bound[v] = @ \cup {j}]
           c == R!len(s.bound[v]) = R!N - F
           d == R!len(R!Binders(s)) = R!N - F
           t == IF c THEN [s EXCEPT !.terminateVal = Append(@, v)]
                ELSE IF d THEN [s EXCEPT !.terminateBot = @ + 1] ELSE s
<1>1. node[i] \in R!NodeState
  BY DEF TypeOK
<1>2. s \in R!NodeState
  <2>1. [node[i].bound EXCEPT ![v] = @ \cup {j}] \in [R!Decisions -> SUBSET Nodes]
    BY <1>1, Fields, SameNames, Values
  <2> QED
    BY <1>1, <2>1 DEF R!NodeState
<1>3. /\ s.bound = [node[i].bound EXCEPT ![v] = @ \cup {j}]
      /\ s.echoes = node[i].echoes /\ s.voted = node[i].voted
      /\ KeepsEst(node[i], s) /\ KeepsVote(node[i], s) /\ KeepsBind(node[i], s) /\ KeepsEnd(node[i], s)
  BY <1>1 DEF R!NodeState, KeepsEst, KeepsVote, KeepsBind, KeepsEnd
<1>4. j \notin R!Binders(node[i]) /\ node' = [node EXCEPT ![i] = t]
  BY DEF submitBind, R!submitBind
<1>5. /\ c <=> Cardinality(s.bound[v]) = N - F
      /\ d <=> Cardinality(R!Binders(s)) = N - F
  BY SameSize, SameNames DEF R!len
<1> HIDE DEF s, c, d
<1>6. t \in R!NodeState
  <2>1. Append(s.terminateVal, v) \in Seq(Decisions) /\ s.terminateBot + 1 \in Nat
    BY <1>2, Fields, Sent, Values
  <2>2. [s EXCEPT !.terminateVal = Append(@, v)] \in R!NodeState
    BY <1>2, <2>1, SameNames DEF R!NodeState
  <2>3. [s EXCEPT !.terminateBot = @ + 1] \in R!NodeState
    BY <1>2, <2>1, SameNames DEF R!NodeState
  <2> QED
    BY <1>2, <2>2, <2>3
<1>7. /\ t.bound = s.bound /\ t.echoes = s.echoes /\ t.voted = s.voted
      /\ t.terminateVal = (IF c THEN Append(s.terminateVal, v) ELSE s.terminateVal)
      /\ t.terminateBot = (IF ~c /\ d THEN s.terminateBot + 1 ELSE s.terminateBot)
      /\ t.unblock = s.unblock /\ t.decision = s.decision
      /\ KeepsEst(s, t) /\ KeepsVote(s, t) /\ KeepsBind(s, t)
  BY <1>2 DEF R!NodeState, KeepsEst, KeepsVote, KeepsBind
<1>8. R!Binders(t) = R!Binders(s)
  BY <1>7 DEF R!Binders
<1>9. AfterBind(node[i], t, j, v)
  <2> HIDE DEF t
  <2> QED
    BY <1>3, <1>4, <1>5, <1>7, <1>8 DEF AfterBind, KeepsEst, KeepsVote, KeepsBind, KeepsEnd
<1> QED
  BY <1>4, <1>6, <1>9 DEF Moves

\* waitToVote never reads the value it voted for a second time.
LEMMA VoterMoves ==
  ASSUME TypeOK, NEW i \in Correct, waitToVote(i), ApprovalsRight(node[i], coin)
  PROVE  \E t : Moves(i, t) /\ (AfterFirst(node[i], t) \/ AfterSecond(node[i], t))
<1> DEFINE s == node[i]
           v == Head(s.approveVal)
           a == [s EXCEPT !.approveVal = Tail(@)]
           t1 == [a EXCEPT !.voter = "second", !.vote = v]
           t2 == [a EXCEPT !.voter = "done", !.bindBot = @ + 1, !.terminateBot = @ + 1]
<1>1. s \in R!NodeState
  BY DEF TypeOK
<1>2. s.approveVal \in Seq(Val) /\ s.approveVal # <<>> /\ s.bindBot \in Nat /\ s.terminateBot \in Nat
  BY <1>1, Fields DEF waitToVote
<1>3. v \in Val /\ Tail(s.approveVal) \in Seq(Val) /\ 1 \in 1 .. Len(s.approveVal) /\ v = s.approveVal[1]
  BY <1>2, Received
<1>4. v # s.vote
  BY <1>3 DEF ApprovalsRight
<1>5. \/ s.voter = "first" /\ node' = [node EXCEPT ![i] = t1]
      \/ s.voter = "second" /\ node' = [node EXCEPT ![i] = t2]
  BY <1>4 DEF waitToVote
<1> HIDE DEF v
<1>6. a \in R!NodeState
  BY <1>1, <1>3, SameNames DEF R!NodeState
<1>7. /\ a.echoes = s.echoes /\ a.voted = s.voted /\ a.bound = s.bound /\ KeepsEst(s, a)
      /\ KeepsBind(s, a) /\ KeepsEnd(s, a) /\ a.voter = s.voter /\ a.vote = s.vote
      /\ a.approveVal = Tail(s.approveVal)
  BY <1>1 DEF R!NodeState, KeepsEst, KeepsBind, KeepsEnd
<1> HIDE DEF a
<1>8. t1 \in R!NodeState /\ t2 \in R!NodeState
  <2>1. v \in R!Val /\ a.bindBot + 1 \in Nat /\ a.terminateBot + 1 \in Nat
    BY <1>3, <1>6, Fields, SameNames
  <2>2. t1 \in R!NodeState
    BY <1>6, <2>1 DEF R!NodeState
  <2>3. t2 \in R!NodeState
    BY <1>6, <2>1 DEF R!NodeState
  <2> QED
    BY <2>2, <2>3
<1>9. s.voter = "first" => AfterFirst(s, t1)
  <2>1. /\ t1.echoes = a.echoes /\ t1.voted = a.voted /\ t1.bound = a.bound /\ KeepsEst(a, t1)
        /\ KeepsBind(a, t1) /\ KeepsEnd(a, t1) /\ t1.approveVal = a.approveVal
        /\ t1.voter = "second" /\ t1.vote = v
    BY <1>6 DEF R!NodeState, KeepsEst, KeepsBind, KeepsEnd
  <2> HIDE DEF t1
  <2> QED
    BY <1>2, <1>7, <2>1 DEF AfterFirst, KeepsEst, KeepsBind, KeepsEnd, v
<1>10. s.voter = "second" => AfterSecond(s, t2)
  <2>1. /\ t2.echoes = a.echoes /\ t2.voted = a.voted /\ t2.bound = a.bound /\ KeepsEst(a, t2)
        /\ t2.approveVal = a.approveVal /\ t2.vote = a.vote /\ t2.bindVal = a.bindVal
        /\ t2.bind = a.bind /\ t2.terminateVal = a.terminateVal /\ t2.unblock = a.unblock
        /\ t2.decision = a.decision /\ t2.voter = "done"
        /\ t2.bindBot = a.bindBot + 1 /\ t2.terminateBot = a.terminateBot + 1
    BY <1>6 DEF R!NodeState, KeepsEst
  <2> HIDE DEF t2
  <2> QED
    BY <1>2, <1>4, <1>7, <2>1 DEF AfterSecond, KeepsEst, KeepsBind, KeepsEnd, v
<1> QED
  BY <1>5, <1>8, <1>9, <1>10 DEF Moves

LEMMA BinderMoves ==
  ASSUME TypeOK, NEW i \in Correct, waitToBind(i)
  PROVE  \E t : Moves(i, t) /\ (AfterBindBot(node[i], t) \/ AfterBindVal(node[i], t))
<1> DEFINE s == node[i]
           t1 == [s EXCEPT !.bind = bot, !.bindBot = @ - 1]
           t2 == [s EXCEPT !.bind = Head(s.bindVal), !.bindVal = Tail(@)]
<1>1. s \in R!NodeState
  BY DEF TypeOK
<1>2. ASSUME s.bind = None, s.bindBot > 0 PROVE t1 \in R!NodeState /\ AfterBindBot(s, t1)
  <2>1. s.bindBot - 1 \in Nat /\ bot \in R!Decisions
    BY <1>1, <1>2, Fields, SameNames, Values
  <2>2. t1 \in R!NodeState
    BY <1>1, <2>1 DEF R!NodeState
  <2> QED
    BY <1>1, <1>2, <2>2 DEF R!NodeState, AfterBindBot, KeepsEst, KeepsVote, KeepsEnd
<1>3. ASSUME s.bind = None, s.bindVal # <<>> PROVE t2 \in R!NodeState /\ AfterBindVal(s, t2)
  <2>1. Head(s.bindVal) \in R!Decisions /\ Tail(s.bindVal) \in Seq(R!Val)
    BY <1>1, <1>3, Fields, SameNames, Values, Received
  <2>2. t2 \in R!NodeState
    BY <1>1, <2>1 DEF R!NodeState
  <2> QED
    BY <1>1, <1>3, <2>2 DEF R!NodeState, AfterBindVal, KeepsEst, KeepsVote, KeepsEnd
<1>4. \/ s.bind = None /\ s.bindBot > 0 /\ node' = [node EXCEPT ![i] = t1]
      \/ s.bind = None /\ s.bindVal # <<>> /\ node' = [node EXCEPT ![i] = t2]
  BY SameNames DEF waitToBind, R!waitToBind
<1> QED
  BY <1>2, <1>3, <1>4 DEF Moves

LEMMA DeciderMoves ==
  ASSUME TypeOK, NEW i \in Correct, waitToDecide(i)
  PROVE  \E t : Moves(i, t) /\ (AfterDecideVal(node[i], t) \/ AfterDecideBot(node[i], t))
<1> DEFINE s == node[i]
           t1 == [[s EXCEPT !.decision = Head(s.terminateVal), !.unblock = @ + 1]
                    EXCEPT !.terminateVal = Tail(@)]
           t2 == [[s EXCEPT !.decision = bot, !.unblock = @ + 1] EXCEPT !.terminateBot = @ - 2]
<1>1. s \in R!NodeState
  BY DEF TypeOK
<1>2. ASSUME s.decision = None, s.terminateVal # <<>> PROVE t1 \in R!NodeState /\ AfterDecideVal(s, t1)
  <2>1. /\ Head(s.terminateVal) \in R!Decisions /\ Tail(s.terminateVal) \in Seq(R!Decisions)
        /\ s.unblock + 1 \in Nat
    BY <1>1, <1>2, Fields, SameNames, Received
  <2>2. t1 \in R!NodeState
    BY <1>1, <2>1 DEF R!NodeState
  <2> QED
    BY <1>1, <1>2, <2>2 DEF R!NodeState, AfterDecideVal, KeepsEst, KeepsVote, KeepsBind
<1>3. ASSUME s.decision = None, s.terminateBot >= 2 PROVE t2 \in R!NodeState /\ AfterDecideBot(s, t2)
  <2>1. s.terminateBot - 2 \in Nat /\ s.unblock + 1 \in Nat /\ bot \in R!Decisions
    BY <1>1, <1>3, Fields, SameNames, Values
  <2>2. t2 \in R!NodeState
    BY <1>1, <2>1 DEF R!NodeState
  <2> QED
    BY <1>1, <1>3, <2>2 DEF R!NodeState, AfterDecideBot, KeepsEst, KeepsVote, KeepsBind
<1>4. \/ s.decision = None /\ s.terminateVal # <<>> /\ node' = [node EXCEPT ![i] = t1]
      \/ s.decision = None /\ s.terminateBot >= 2 /\ node' = [node EXCEPT ![i] = t2]
  BY SameNames DEF waitToDecide, R!waitToDecide
<1> QED
  BY <1>2, <1>3, <1>4 DEF Moves

-----------------------------------------------------------------------------
(***************************************************************************)
(* They keep the state of a node in order.                                 *)
(***************************************************************************)
\* The parts only look at some of the fields.
LEMMA PartsLook ==
  ASSUME NEW c \in Val, NEW s \in R!NodeState, NEW t \in R!NodeState, LocalInv(s, c)
  PROVE  /\ ( t.echoes = s.echoes /\ t.sentEchoes = s.sentEchoes ) => CoinSilent(t, c)
         /\ ( t.echoes = s.echoes /\ t.est = s.est /\ KeepsVote(s, t) ) => ApprovalsRight(t, c)
         /\ ( /\ t.voted = s.voted /\ t.est = s.est /\ t.voter = s.voter
              /\ KeepsBind(s, t) ) => BindsRight(t, c)
         /\ ( /\ t.bound = s.bound /\ t.voter = s.voter /\ t.terminateVal = s.terminateVal
              /\ t.terminateBot = s.terminateBot ) => TerminatesRight(t)
         /\ ( /\ t.bound = s.bound /\ t.voter = s.voter /\ t.terminateVal = s.terminateVal
              /\ t.decision = s.decision /\ t.unblock = s.unblock ) => DecidesRight(t)
         /\ ( t.echoes = s.echoes /\ KeepsEst(s, t) ) => EchoesRight(t, c)
<1>1. t.bound = s.bound => R!Binders(t) = R!Binders(s)
  BY DEF R!Binders
<1>2. /\ CoinSilent(s, c) /\ ApprovalsRight(s, c) /\ BindsRight(s, c) /\ TerminatesRight(s)
      /\ DecidesRight(s) /\ EchoesRight(s, c)
  BY DEF LocalInv
<1>3. ( t.echoes = s.echoes /\ t.sentEchoes = s.sentEchoes ) => CoinSilent(t, c)
  BY <1>2 DEF CoinSilent
<1>4. ( t.echoes = s.echoes /\ t.est = s.est /\ KeepsVote(s, t) ) => ApprovalsRight(t, c)
  BY <1>2 DEF ApprovalsRight, Approved, Both, KeepsVote
<1>5. ( /\ t.voted = s.voted /\ t.est = s.est /\ t.voter = s.voter
        /\ KeepsBind(s, t) ) => BindsRight(t, c)
  BY <1>2 DEF BindsRight, Bindable, BindsSent, AnyQuorum, KeepsBind
<1>6. ( /\ t.bound = s.bound /\ t.voter = s.voter /\ t.terminateVal = s.terminateVal
        /\ t.terminateBot = s.terminateBot ) => TerminatesRight(t)
  BY <1>1, <1>2 DEF TerminatesRight
<1>7. ( /\ t.bound = s.bound /\ t.voter = s.voter /\ t.terminateVal = s.terminateVal
        /\ t.decision = s.decision /\ t.unblock = s.unblock ) => DecidesRight(t)
  BY <1>2 DEF DecidesRight
<1>8. ( t.echoes = s.echoes /\ KeepsEst(s, t) ) => EchoesRight(t, c)
  BY <1>2 DEF EchoesRight, KeepsEst
<1> QED
  BY <1>3, <1>4, <1>5, <1>6, <1>7, <1>8

\* A value that was not approved before is sent to waitToVote.
LEMMA ApprovalSent ==
  ASSUME NEW c \in Val, NEW s \in R!NodeState, NEW t \in R!NodeState, ApprovalsRight(s, c), NEW v \in Val,
         ~Approved(s, c, v), Approved(t, c, v), \A w \in Val : Approved(s, c, w) => Approved(t, c, w),
         t.approveVal = Append(s.approveVal, v), t.vote = s.vote, t.voter = s.voter
  PROVE  ApprovalsRight(t, c)
<1> DEFINE q == s.approveVal
           r == t.approveVal
<1>1. q \in Seq(Val) /\ s.vote \in Val \cup {None}
  BY Fields
<1>2. /\ Len(r) = Len(q) + 1 /\ Len(q) \in Nat /\ r # <<>> /\ r[Len(q) + 1] = v
      /\ \A y \in 1 .. Len(q) : r[y] = q[y] /\ q[y] \in Val
      /\ \A y \in 1 .. Len(r) : y \in 1 .. Len(q) \/ y = Len(q) + 1
  BY <1>1, Sent
<1>3. (\A y \in 1 .. Len(q) : q[y] # v) /\ s.vote # v
  BY <1>2, Values DEF ApprovalsRight
<1>4. \A x \in 1 .. Len(r) : Approved(t, c, r[x]) /\ r[x] # t.vote
  <2> TAKE x \in 1 .. Len(r)
  <2>1. CASE x \in 1 .. Len(q)
    BY <1>2, <2>1 DEF ApprovalsRight
  <2>2. CASE x = Len(q) + 1
    BY <1>2, <1>3, <2>2
  <2> QED
    BY <1>2, <2>1, <2>2
<1>5. \A x, y \in 1 .. Len(r) : r[x] = r[y] => x = y
  <2> TAKE x, y \in 1 .. Len(r)
  <2>1. CASE x \in 1 .. Len(q) /\ y \in 1 .. Len(q)
    BY <1>2, <2>1 DEF ApprovalsRight
  <2>2. CASE x \in 1 .. Len(q) /\ y = Len(q) + 1
    BY <1>2, <1>3, <2>2
  <2>3. CASE y \in 1 .. Len(q) /\ x = Len(q) + 1
    BY <1>2, <1>3, <2>3
  <2> QED
    BY <1>2, <2>1, <2>2, <2>3
<1>6. /\ t.vote # None => Approved(t, c, t.vote)
      /\ t.voter = "first" <=> t.vote = None
      /\ t.voter = "done" => Both(t, c)
  BY <1>1 DEF ApprovalsRight, Both
<1> QED
  BY <1>2, <1>4, <1>5, <1>6 DEF ApprovalsRight

\* A value is sent to waitToBind for a reason there was not before.
LEMMA BindSent ==
  ASSUME NEW c \in Val, NEW s \in R!NodeState, NEW t \in R!NodeState, BindsRight(s, c), NEW v \in Val,
         Bindable(t, c, v), \A w \in Val : Bindable(s, c, w) => Bindable(t, c, w),
         BindsSent(t, c) = BindsSent(s, c) + 1,
         \A u, w \in Val : u # w => t.voted[u] \cap t.voted[w] = {},
         t.bindVal = Append(s.bindVal, v), t.bindBot = s.bindBot, t.bind = s.bind, t.voter = s.voter
  PROVE  BindsRight(t, c)
<1> DEFINE q == s.bindVal
           r == t.bindVal
<1>1. q \in Seq(Val)
  BY Fields
<1>2. /\ Len(r) = Len(q) + 1 /\ Len(q) \in Nat /\ r # <<>> /\ r[Len(q) + 1] = v
      /\ \A y \in 1 .. Len(q) : r[y] = q[y] /\ q[y] \in Val
      /\ \A y \in 1 .. Len(r) : y \in 1 .. Len(q) \/ y = Len(q) + 1
  BY <1>1, Sent
<1>3. \A x \in 1 .. Len(r) : Bindable(t, c, r[x])
  <2> TAKE x \in 1 .. Len(r)
  <2>1. CASE x \in 1 .. Len(q)
    BY <1>2, <2>1 DEF BindsRight
  <2>2. CASE x = Len(q) + 1
    BY <1>2, <2>2
  <2> QED
    BY <1>2, <2>1, <2>2
<1>4. Len(r) + (IF t.bind \in Val THEN 1 ELSE 0) <= BindsSent(t, c)
  <2>1. Len(q) + (IF s.bind \in Val THEN 1 ELSE 0) <= BindsSent(s, c)
    BY DEF BindsRight
  <2>2. BindsSent(s, c) \in Nat
    BY DEF BindsSent
  <2> HIDE DEF q, r
  <2>3. CASE s.bind \in Val
    BY <1>2, <2>1, <2>2, <2>3
  <2>4. CASE s.bind \notin Val
    BY <1>2, <2>1, <2>2, <2>4
  <2> QED
    BY <2>3, <2>4
<1>5. /\ t.bindBot <= 1 /\ (t.voter # "done" => t.bindBot = 0)
      /\ t.bind = bot => t.voter = "done"
      /\ t.bind \in Val => Bindable(t, c, t.bind)
  BY DEF BindsRight
<1> QED
  BY <1>2, <1>3, <1>4, <1>5 DEF BindsRight

LEMMA ForwardLocal ==
  ASSUME NEW c \in Val, NEW s \in R!NodeState, NEW t \in R!NodeState, LocalInv(s, c), AfterForward(s, t, c)
  PROVE  LocalInv(t, c)
<1>1. /\ s.est = None /\ t.est = c /\ c # None /\ s.est # c /\ t.echoes = s.echoes /\ t.voted = s.voted
      /\ t.sentEchoes = s.sentEchoes
  BY Values DEF AfterForward
<1>2. CoinSilent(s, c) /\ ApprovalsRight(s, c) /\ BindsRight(s, c) /\ EchoesRight(s, c)
  BY DEF LocalInv
<1>3. ApprovalsRight(t, c)
  <2>1. ~Approved(s, c, c)
    BY <1>1, <1>2, FaultyNoQuorum DEF CoinSilent, Approved
  <2>2. Approved(t, c, c) /\ \A w \in Val : Approved(s, c, w) => Approved(t, c, w)
    BY <1>1 DEF Approved
  <2> QED
    BY <1>2, <2>1, <2>2, ApprovalSent DEF AfterForward
<1>4. BindsRight(t, c)
  <2>1. Bindable(t, c, c) /\ \A w \in Val : Bindable(s, c, w) => Bindable(t, c, w)
    BY <1>1 DEF Bindable
  <2>2. BindsSent(t, c) = BindsSent(s, c) + 1
    BY <1>1 DEF BindsSent, AnyQuorum
  <2>3. \A u, w \in Val : u # w => t.voted[u] \cap t.voted[w] = {}
    BY <1>1, <1>2 DEF BindsRight
  <2> QED
    BY <1>2, <2>1, <2>2, <2>3, BindSent DEF AfterForward
<1>5. EchoesRight(t, c)
  <2>1. \A v \in s.sentEchoes : v # None
    BY Fields, Values
  <2> QED
    BY <1>1, <1>2, <2>1 DEF EchoesRight
<1> QED
  BY <1>1, <1>3, <1>4, <1>5, PartsLook DEF LocalInv, AfterForward, KeepsEnd

LEMMA ProposeLocal ==
  ASSUME NEW c \in Val, NEW s \in R!NodeState, NEW t \in R!NodeState, LocalInv(s, c),
         NEW v \in Val, v # c, AfterPropose(s, t, v)
  PROVE  LocalInv(t, c)
<1>1. /\ s.est = None /\ t.est = v /\ c # None /\ t.echoes = s.echoes /\ t.voted = s.voted
      /\ t.sentEchoes = s.sentEchoes \cup {v}
  BY Values DEF AfterPropose
<1>2. CoinSilent(s, c) /\ ApprovalsRight(s, c) /\ BindsRight(s, c) /\ EchoesRight(s, c)
  BY DEF LocalInv
<1>3. CoinSilent(t, c)
  BY <1>1, <1>2 DEF CoinSilent
<1>4. ApprovalsRight(t, c)
  <2>1. \A w : Approved(t, c, w) <=> Approved(s, c, w)
    BY <1>1 DEF Approved
  <2> QED
    BY <1>2, <2>1 DEF ApprovalsRight, Both, AfterPropose, KeepsVote
<1>5. BindsRight(t, c)
  <2>1. \A w : Bindable(t, c, w) <=> Bindable(s, c, w)
    BY <1>1 DEF Bindable
  <2>2. BindsSent(t, c) = BindsSent(s, c)
    BY <1>1 DEF BindsSent, AnyQuorum
  <2> QED
    BY <1>1, <1>2, <2>1, <2>2 DEF BindsRight, AfterPropose, KeepsBind, KeepsVote
<1>6. EchoesRight(t, c)
  <2>1. \A w \in s.sentEchoes : w # None
    BY Fields, Values
  <2> QED
    BY <1>1, <1>2, <2>1 DEF EchoesRight
<1> QED
  BY <1>1, <1>3, <1>4, <1>5, <1>6, PartsLook DEF LocalInv, AfterPropose, KeepsEnd, KeepsVote


\* Only faulty nodes echo the coin, so an echo approves the other value if any.
LEMMA EchoLocal ==
  ASSUME NEW c \in Val, NEW s \in R!NodeState, NEW t \in R!NodeState, LocalInv(s, c),
         NEW j \in Nodes, NEW v \in Val, AfterEcho(s, t, c, j, v), v = c => j \in Faulty
  PROVE  LocalInv(t, c)
<1> DEFINE k == Cardinality(t.echoes[v])
<1>1. /\ \A w \in Val : s.echoes[w] \in SUBSET Nodes /\ t.echoes[w] \in SUBSET Nodes
      /\ \A w \in Val : s.echoes[w] \in SUBSET t.echoes[w]
      /\ t.echoes[v] = s.echoes[v] \cup {j} /\ j \notin s.echoes[v]
      /\ \A w \in Val : w # v => t.echoes[w] = s.echoes[w]
  BY Fields DEF AfterEcho
<1>2. CoinSilent(s, c) /\ ApprovalsRight(s, c) /\ EchoesRight(s, c)
  BY DEF LocalInv
<1>3. t.est = s.est /\ t.vote = s.vote /\ t.voter = s.voter
  BY DEF AfterEcho
<1>4. t.echoes[c] \in SUBSET Faulty
  BY <1>1, <1>2 DEF CoinSilent
<1>5. v = c => k # F + 1 /\ k # N - F
  <2>1. k \in Nat
    BY <1>1, Sizes
  <2> QED
    BY <1>4, <2>1, FaultyNoQuorum, Numbers DEF Quorum
<1>6. CoinSilent(t, c)
  BY <1>2, <1>4, <1>5 DEF CoinSilent, AfterEcho
<1>7. \A w \in Val : Approved(s, c, w) => Approved(t, c, w)
  BY <1>1, <1>3, LargerSize DEF Approved
<1>8. ApprovalsRight(t, c)
  <2>1. /\ k = N - F => Quorum(t.echoes[v]) /\ ~Quorum(s.echoes[v])
        /\ Quorum(t.echoes[v]) => Quorum(s.echoes[v]) \/ k = N - F
    BY <1>1, JustReached
  <2> HIDE DEF k
  <2>2. CASE k = N - F
    <3>1. ~Approved(s, c, v) /\ Approved(t, c, v)
      BY <1>5, <2>2, <2>1 DEF Approved
    <3>2. t.approveVal = Append(s.approveVal, v)
      BY <2>2 DEF AfterEcho, k
    <3> QED
      BY <1>2, <1>3, <1>7, <3>1, <3>2, ApprovalSent
  <2>3. CASE k # N - F
    <3>1. \A w \in Val : Approved(t, c, w) => Approved(s, c, w)
      BY <1>1, <1>3, <2>3, <2>1 DEF Approved
    <3>2. t.approveVal = s.approveVal
      BY <2>3 DEF AfterEcho, k
    <3>3. \A x \in 1 .. Len(s.approveVal) : s.approveVal[x] \in Val
      BY Fields, ElementOfSeq
    <3>4. s.vote \in Val \cup {None}
      BY Fields
    <3> QED
      BY <1>2, <1>3, <1>7, <3>1, <3>2, <3>3, <3>4 DEF ApprovalsRight, Both
  <2> QED
    BY <2>2, <2>3
<1>9. EchoesRight(t, c)
  <2>1. \A w \in Val : Cardinality(s.echoes[w]) >= F + 1 => Cardinality(t.echoes[w]) >= F + 1
    <3> TAKE w \in Val
    <3>1. Cardinality(s.echoes[w]) <= Cardinality(t.echoes[w])
      BY <1>1, LargerSize
    <3>2. Cardinality(s.echoes[w]) \in Nat /\ Cardinality(t.echoes[w]) \in Nat
      BY <1>1, Sizes
    <3> QED
      BY <3>1, <3>2, Numbers
  <2>2. /\ \A w \in t.sentEchoes : w \in s.sentEchoes \/ (w = v /\ k = F + 1)
        /\ s.sentEchoes \subseteq t.sentEchoes
    BY DEF AfterEcho
  <2>3. \A w \in s.sentEchoes : w \in Val
    BY Fields
  <2> QED
    BY <1>2, <1>3, <2>1, <2>2, <2>3, Numbers DEF EchoesRight
<1> QED
  BY <1>3, <1>6, <1>8, <1>9, PartsLook DEF LocalInv, AfterEcho, KeepsEnd, KeepsBind

LEMMA VoteLocal ==
  ASSUME NEW c \in Val, NEW s \in R!NodeState, NEW t \in R!NodeState, LocalInv(s, c),
         NEW j \in Nodes, NEW v \in Val, AfterVote(s, t, j, v)
  PROVE  LocalInv(t, c)
<1> DEFINE k == Cardinality(t.voted[v])
           full == k = N - F /\ Cardinality(t.voted[1 - v]) < N - F
<1>1. /\ \A w \in Val : s.voted[w] \in SUBSET Nodes /\ t.voted[w] \in SUBSET Nodes
      /\ \A w \in Val : s.voted[w] \in SUBSET t.voted[w]
      /\ t.voted[v] = s.voted[v] \cup {j} /\ \A w \in Val : j \notin s.voted[w]
      /\ \A w \in Val : w # v => t.voted[w] = s.voted[w]
      /\ 1 - v \in Val /\ 1 - v # v
  <2>1. s.voted \in [Val -> SUBSET Nodes] /\ t.voted \in [Val -> SUBSET Nodes]
    BY Fields
  <2>2. \A w \in Val : j \notin s.voted[w]
    BY SameNames DEF AfterVote, R!Voters
  <2> QED
    BY <2>1, <2>2, Values DEF AfterVote
<1>2. BindsRight(s, c) /\ t.est = s.est /\ t.bindBot = s.bindBot /\ t.bind = s.bind /\ t.voter = s.voter
  BY DEF LocalInv, AfterVote, KeepsVote, KeepsEst
<1>3. \A u, w \in Val : u # w => t.voted[u] \cap t.voted[w] = {}
  <2>1. \A u, w \in Val : u # w => s.voted[u] \cap s.voted[w] = {}
    BY <1>2 DEF BindsRight
  <2> QED
    BY <1>1, <2>1
<1>4. \A w \in Val : Quorum(s.voted[w]) => Quorum(t.voted[w])
  BY <1>1, LargerSize
<1>5. \A w \in Val : Bindable(s, c, w) => Bindable(t, c, w)
  BY <1>2, <1>4 DEF Bindable
<1>6. BindsRight(t, c)
  <2>1. /\ k = N - F => Quorum(t.voted[v]) /\ ~Quorum(s.voted[v])
        /\ Quorum(t.voted[v]) => Quorum(s.voted[v]) \/ k = N - F
    BY <1>1, JustReached
  <2>2. CASE full
    <3>1. Quorum(t.voted[v]) /\ ~Quorum(s.voted[v])
      BY <2>2, <2>1
    <3>2. \A w \in Val : ~Quorum(s.voted[w])
      BY <1>1, <1>3, <1>4, <3>1, Disjoint
    <3>3. BindsSent(t, c) = BindsSent(s, c) + 1
      BY <1>2, <3>1, <3>2 DEF BindsSent, AnyQuorum
    <3>4. Bindable(t, c, v) /\ t.bindVal = Append(s.bindVal, v)
      BY <2>2, <3>1 DEF Bindable, AfterVote
    <3> QED
      BY <1>2, <1>3, <1>5, <3>3, <3>4, BindSent
  <2>3. CASE ~full
    <3>1. t.bindVal = s.bindVal
      BY <2>3 DEF AfterVote
    <3>2. \A x \in 1 .. Len(s.bindVal) : s.bindVal[x] \in Val
      BY Fields, ElementOfSeq
    <3>3. \A w \in Val : Quorum(t.voted[w]) => Quorum(s.voted[w])
      <4>1. ASSUME Quorum(t.voted[v]), ~Quorum(s.voted[v]) PROVE FALSE
        <5>1. k = N - F
          BY <2>1, <4>1
        <5>2. ~Quorum(t.voted[1 - v])
          BY <1>1, <1>3, <4>1, Disjoint
        <5>3. Cardinality(t.voted[1 - v]) \in Nat
          BY <1>1, Sizes
        <5> QED
          BY <2>3, <5>1, <5>2, <5>3, Numbers DEF Quorum
      <4> QED
        BY <1>1, <4>1
    <3>4. \A w \in Val : Bindable(t, c, w) <=> Bindable(s, c, w)
      BY <1>2, <1>5, <3>3 DEF Bindable
    <3>5. BindsSent(t, c) = BindsSent(s, c)
      BY <1>2, <1>4, <3>3 DEF BindsSent, AnyQuorum
    <3> QED
      BY <1>2, <1>3, <3>1, <3>2, <3>4, <3>5 DEF BindsRight
  <2> QED
    BY <2>2, <2>3
<1> QED
  BY <1>6, PartsLook DEF LocalInv, AfterVote, KeepsEst, KeepsVote, KeepsEnd

LEMMA BindLocal ==
  ASSUME NEW c \in Val, NEW s \in R!NodeState, NEW t \in R!NodeState, LocalInv(s, c),
         NEW j \in Nodes, NEW v \in Val, AfterBind(s, t, j, v)
  PROVE  LocalInv(t, c)
<1>1. /\ \A w \in Decisions : s.bound[w] \in SUBSET Nodes /\ t.bound[w] \in SUBSET Nodes
      /\ \A w \in Decisions : s.bound[w] \in SUBSET t.bound[w]
      /\ t.bound[v] = s.bound[v] \cup {j} /\ \A w \in Decisions : j \notin s.bound[w]
      /\ \A w \in Decisions \ {v} : t.bound[w] = s.bound[w]
      /\ v \in Decisions /\ v # bot /\ bot \in Decisions /\ Val \subseteq Decisions
  <2>1. s.bound \in [Decisions -> SUBSET Nodes] /\ t.bound \in [Decisions -> SUBSET Nodes]
    BY Fields
  <2>2. \A w \in Decisions : j \notin s.bound[w]
    BY SameNames DEF AfterBind, R!Binders
  <2> QED
    BY <2>1, <2>2, Values DEF AfterBind
<1>2. R!Binders(s) \in SUBSET Nodes /\ j \notin R!Binders(s) /\ R!Binders(t) = R!Binders(s) \cup {j}
  BY <1>1, SameNames DEF R!Binders
<1>3. /\ TerminatesRight(s) /\ DecidesRight(s) /\ t.voter = s.voter
      /\ t.decision = s.decision /\ t.unblock = s.unblock
  BY DEF LocalInv, AfterBind, KeepsVote
<1>4. /\ \A w \in Decisions : Quorum(s.bound[w]) => Quorum(t.bound[w])
      /\ Quorum(R!Binders(s)) => Quorum(R!Binders(t))
  BY <1>1, <1>2, LargerSize, OneMore
<1>5. \A w, x \in Decisions : w # x => t.bound[w] \cap t.bound[x] = {}
  BY <1>1, <1>3 DEF TerminatesRight
<1>6. /\ Len(t.terminateVal) <= 1 /\ \A x \in 1 .. Len(t.terminateVal) : Quorum(t.bound[t.terminateVal[x]])
      /\ (\E w \in Val : Quorum(t.bound[w])) => t.decision # None \/ t.terminateVal # <<>>
  <2>1. \A x \in 1 .. Len(s.terminateVal) :
          s.terminateVal[x] \in Decisions /\ Quorum(s.bound[s.terminateVal[x]])
    BY <1>3, Fields, ElementOfSeq DEF TerminatesRight
  <2>2. /\ Cardinality(t.bound[v]) = N - F => Quorum(t.bound[v]) /\ ~Quorum(s.bound[v])
        /\ Quorum(t.bound[v]) => Quorum(s.bound[v]) \/ Cardinality(t.bound[v]) = N - F
    BY <1>1, JustReached
  <2>3. CASE Cardinality(t.bound[v]) = N - F
    <3>1. t.terminateVal = Append(s.terminateVal, v) /\ s.terminateVal \in Seq(Decisions)
      BY <2>3, Fields DEF AfterBind
    <3>2. Quorum(t.bound[v]) /\ ~Quorum(s.bound[v])
      BY <2>3, <2>2
    <3>3. \A w \in Decisions : ~Quorum(s.bound[w])
      <4>1. ASSUME NEW w \in Decisions, w # v PROVE ~Quorum(s.bound[w])
        BY <1>1, <1>4, <1>5, <3>2, <4>1, Disjoint
      <4> QED
        BY <3>2, <4>1
    <3>4. Len(s.terminateVal) = 0
      BY <2>1, <3>1, <3>3, LenProperties
    <3>5. Len(t.terminateVal) = 1 /\ t.terminateVal[1] = v /\ t.terminateVal # <<>>
      BY <1>1, <3>1, <3>4, Sent
    <3> QED
      BY <3>2, <3>5
  <2>4. CASE Cardinality(t.bound[v]) # N - F
    <3>1. t.terminateVal = s.terminateVal
      BY <2>4 DEF AfterBind
    <3>2. \A w \in Val : Quorum(t.bound[w]) => Quorum(s.bound[w])
      BY <1>1, <2>4, <2>2
    <3> QED
      BY <1>3, <1>4, <2>1, <3>1, <3>2 DEF TerminatesRight, DecidesRight
  <2> QED
    BY <2>3, <2>4
<1>7. TerminatesRight(t)
  <2>1. \/ t.terminateBot = s.terminateBot
        \/ /\ t.terminateBot = s.terminateBot + 1
           /\ Quorum(R!Binders(t)) /\ ~Quorum(R!Binders(s))
    BY <1>2, OneMore DEF AfterBind
  <2>2. t.bound[bot] = {}
    BY <1>1, <1>3 DEF TerminatesRight
  <2>3. CASE t.terminateBot = s.terminateBot
    BY <1>3, <1>4, <1>5, <1>6, <2>2, <2>3 DEF TerminatesRight
  <2>4. CASE t.terminateBot = s.terminateBot + 1 /\ Quorum(R!Binders(t)) /\ ~Quorum(R!Binders(s))
    <3>1. s.terminateBot \in Nat
      BY Fields
    <3>2. s.terminateBot <= 1 /\ (s.terminateBot = 0 \/ s.voter = "done")
      BY <1>3, <2>4, <3>1 DEF TerminatesRight
    <3> QED
      BY <1>3, <1>5, <1>6, <2>2, <2>4, <3>1, <3>2 DEF TerminatesRight
  <2> QED
    BY <2>1, <2>3, <2>4
<1>8. DecidesRight(t)
  BY <1>1, <1>3, <1>4, <1>6 DEF DecidesRight
<1> QED
  BY <1>7, <1>8, PartsLook DEF AfterBind, LocalInv, KeepsEst, KeepsVote

LEMMA FirstLocal ==
  ASSUME NEW c \in Val, NEW s \in R!NodeState, NEW t \in R!NodeState, LocalInv(s, c), AfterFirst(s, t)
  PROVE  LocalInv(t, c)
<1>1. /\ s.approveVal \in Seq(Val) /\ s.approveVal # <<>> /\ s.voter = "first" /\ t.voter = "second"
      /\ t.approveVal = Tail(s.approveVal) /\ t.vote = Head(s.approveVal)
      /\ t.echoes = s.echoes /\ t.est = s.est
  BY Fields DEF AfterFirst, KeepsEst
<1>2. ApprovalsRight(s, c) /\ BindsRight(s, c) /\ TerminatesRight(s) /\ DecidesRight(s)
  BY DEF LocalInv
<1>3. /\ Len(s.approveVal) \in Nat \ {0} /\ t.vote = s.approveVal[1] /\ t.vote \in Val
      /\ 1 \in 1 .. Len(s.approveVal) /\ Len(t.approveVal) = Len(s.approveVal) - 1
      /\ \A x \in 1 .. Len(t.approveVal) :
           t.approveVal[x] = s.approveVal[x + 1] /\ x + 1 \in 1 .. Len(s.approveVal)
  BY <1>1, Received
<1>4. \A w : Approved(t, c, w) <=> Approved(s, c, w)
  BY <1>1 DEF Approved
<1>5. ApprovalsRight(t, c)
  <2>1. \A x \in 1 .. Len(t.approveVal) : Approved(t, c, t.approveVal[x]) /\ t.approveVal[x] # t.vote
    BY <1>2, <1>3, <1>4 DEF ApprovalsRight
  <2>2. \A x, y \in 1 .. Len(t.approveVal) : t.approveVal[x] = t.approveVal[y] => x = y
    BY <1>1, <1>2, ReceivedApart DEF ApprovalsRight
  <2>3. Approved(t, c, t.vote) /\ t.vote # None
    BY <1>2, <1>3, <1>4, Values DEF ApprovalsRight
  <2> QED
    BY <1>1, <2>1, <2>2, <2>3 DEF ApprovalsRight
<1>6. BindsRight(t, c)
  BY <1>1, <1>2 DEF AfterFirst, KeepsEst, KeepsBind, BindsRight, Bindable, BindsSent, AnyQuorum
<1>7. TerminatesRight(t) /\ DecidesRight(t)
  <2>1. R!Binders(t) = R!Binders(s)
    BY DEF AfterFirst, R!Binders
  <2> QED
    BY <1>1, <1>2, <2>1 DEF AfterFirst, KeepsEnd, TerminatesRight, DecidesRight
<1> QED
  BY <1>5, <1>6, <1>7, PartsLook DEF AfterFirst, LocalInv, KeepsEst

\* waitToVote ends when it has read two different values: both are approved.
LEMMA SecondLocal ==
  ASSUME NEW c \in Val, NEW s \in R!NodeState, NEW t \in R!NodeState, LocalInv(s, c), AfterSecond(s, t)
  PROVE  LocalInv(t, c)
<1>1. /\ s.approveVal \in Seq(Val) /\ s.approveVal # <<>> /\ s.voter = "second" /\ t.voter = "done"
      /\ t.approveVal = Tail(s.approveVal) /\ t.vote = s.vote /\ t.echoes = s.echoes /\ t.est = s.est
      /\ s.vote \in Val \cup {None} /\ s.terminateBot \in Nat /\ s.bindBot \in Nat
  BY Fields DEF AfterSecond, KeepsEst
<1>2. ApprovalsRight(s, c) /\ BindsRight(s, c) /\ TerminatesRight(s) /\ DecidesRight(s)
  BY DEF LocalInv
<1>3. /\ Len(s.approveVal) \in Nat \ {0} /\ s.approveVal[1] \in Val
      /\ 1 \in 1 .. Len(s.approveVal) /\ Len(t.approveVal) = Len(s.approveVal) - 1
      /\ \A x \in 1 .. Len(t.approveVal) :
           t.approveVal[x] = s.approveVal[x + 1] /\ x + 1 \in 1 .. Len(s.approveVal)
  BY <1>1, Received
<1>4. \A w : Approved(t, c, w) <=> Approved(s, c, w)
  BY <1>1 DEF Approved
<1>5. Both(t, c)
  <2>1. s.vote \in Val /\ s.approveVal[1] # s.vote /\ Approved(s, c, s.vote) /\ Approved(s, c, s.approveVal[1])
    BY <1>1, <1>2, <1>3 DEF ApprovalsRight
  <2>2. \A w \in Val : w = s.vote \/ w = s.approveVal[1]
    BY <1>3, <2>1, Values
  <2> QED
    BY <1>4, <2>1, <2>2 DEF Both
<1>6. ApprovalsRight(t, c)
  <2>1. \A x \in 1 .. Len(t.approveVal) : Approved(t, c, t.approveVal[x]) /\ t.approveVal[x] # t.vote
    BY <1>1, <1>2, <1>3, <1>4 DEF ApprovalsRight
  <2>2. \A x, y \in 1 .. Len(t.approveVal) : t.approveVal[x] = t.approveVal[y] => x = y
    BY <1>1, <1>2, ReceivedApart DEF ApprovalsRight
  <2>3. t.vote # None /\ Approved(t, c, t.vote)
    BY <1>1, <1>2, <1>4 DEF ApprovalsRight
  <2> QED
    BY <1>1, <1>5, <2>1, <2>2, <2>3 DEF ApprovalsRight
<1>7. BindsRight(t, c)
  <2>1. s.bindBot = 0
    BY <1>1, <1>2 DEF BindsRight
  <2>2. /\ t.bindBot = 1 /\ t.bindVal = s.bindVal /\ t.bind = s.bind /\ t.voted = s.voted
    BY <2>1 DEF AfterSecond
  <2>3. (\A w : Bindable(t, c, w) <=> Bindable(s, c, w)) /\ BindsSent(t, c) = BindsSent(s, c)
    BY <1>1, <2>2 DEF Bindable, BindsSent, AnyQuorum
  <2>4. Len(t.bindVal) + (IF t.bind \in Val THEN 1 ELSE 0) <= BindsSent(t, c)
    BY <1>2, <2>2, <2>3 DEF BindsRight
  <2>5. /\ \A x \in 1 .. Len(t.bindVal) : Bindable(t, c, t.bindVal[x])
        /\ t.bind \in Val => Bindable(t, c, t.bind)
        /\ \A v, w \in Val : v # w => t.voted[v] \cap t.voted[w] = {}
        /\ (\E v \in Val : Bindable(t, c, v)) => t.bind # None \/ t.bindVal # <<>>
    BY <1>2, <2>2, <2>3 DEF BindsRight
  <2>6. t.bindBot <= 1 /\ t.voter = "done"
    BY <1>1, <2>2
  <2> QED
    BY <2>4, <2>5, <2>6 DEF BindsRight
<1>8. TerminatesRight(t)
  <2>1. R!Binders(t) = R!Binders(s)
    BY DEF AfterSecond, R!Binders
  <2>2. /\ t.terminateBot = s.terminateBot + 1 /\ t.bound = s.bound /\ t.terminateVal = s.terminateVal
    BY DEF AfterSecond
  <2>3. s.terminateBot = 0 \/ (s.terminateBot = 1 /\ Quorum(R!Binders(s)))
    BY <1>1, <1>2 DEF TerminatesRight
  <2> QED
    BY <1>1, <1>2, <2>1, <2>2, <2>3 DEF TerminatesRight
<1>9. DecidesRight(t)
  BY <1>1, <1>2 DEF AfterSecond, DecidesRight
<1> QED
  BY <1>6, <1>7, <1>8, <1>9, PartsLook DEF AfterSecond, LocalInv, KeepsEst

LEMMA BindBotLocal ==
  ASSUME NEW c \in Val, NEW s \in R!NodeState, NEW t \in R!NodeState, LocalInv(s, c), AfterBindBot(s, t)
  PROVE  LocalInv(t, c)
<1>1. /\ s.bindBot \in Nat /\ s.bindBot > 0 /\ t.bindBot = s.bindBot - 1 /\ t.bind = bot /\ s.bind = None
      /\ t.bindVal = s.bindVal /\ t.voted = s.voted /\ t.est = s.est /\ t.voter = s.voter
  BY Fields DEF AfterBindBot, KeepsEst, KeepsVote
<1>2. BindsRight(s, c)
  BY DEF LocalInv
<1>3. s.voter = "done" /\ t.bindBot <= 1
  BY <1>1, <1>2 DEF BindsRight
<1>4. BindsRight(t, c)
  BY <1>1, <1>2, <1>3, Values DEF BindsRight, Bindable, BindsSent, AnyQuorum
<1> QED
  BY <1>4, PartsLook DEF AfterBindBot, LocalInv, KeepsEst, KeepsVote, KeepsEnd

LEMMA BindValLocal ==
  ASSUME NEW c \in Val, NEW s \in R!NodeState, NEW t \in R!NodeState, LocalInv(s, c), AfterBindVal(s, t)
  PROVE  LocalInv(t, c)
<1>1. /\ s.bindVal \in Seq(Val) /\ s.bindVal # <<>> /\ t.bind = Head(s.bindVal) /\ s.bind = None
      /\ t.bindVal = Tail(s.bindVal) /\ t.bindBot = s.bindBot
      /\ t.voted = s.voted /\ t.est = s.est /\ t.voter = s.voter
  BY Fields DEF AfterBindVal, KeepsEst, KeepsVote
<1>2. /\ Len(s.bindVal) \in Nat \ {0} /\ t.bind = s.bindVal[1] /\ t.bind \in Val
      /\ 1 \in 1 .. Len(s.bindVal) /\ Len(t.bindVal) = Len(s.bindVal) - 1
      /\ \A x \in 1 .. Len(t.bindVal) : t.bindVal[x] = s.bindVal[x + 1] /\ x + 1 \in 1 .. Len(s.bindVal)
  BY <1>1, Received
<1>3. BindsRight(s, c)
  BY DEF LocalInv
<1>4. (\A w : Bindable(t, c, w) <=> Bindable(s, c, w)) /\ BindsSent(t, c) = BindsSent(s, c)
  BY <1>1 DEF Bindable, BindsSent, AnyQuorum
<1>5. Len(t.bindVal) + (IF t.bind \in Val THEN 1 ELSE 0) <= BindsSent(t, c)
  <2>1. Len(s.bindVal) + (IF s.bind \in Val THEN 1 ELSE 0) <= BindsSent(s, c)
    BY <1>3 DEF BindsRight
  <2>2. s.bind \notin Val
    BY <1>1, Values
  <2>3. Len(s.bindVal) <= BindsSent(s, c)
    BY <1>2, <2>1, <2>2
  <2> QED
    BY <1>2, <1>4, <2>3
<1>6. (\A x \in 1 .. Len(t.bindVal) : Bindable(t, c, t.bindVal[x])) /\ Bindable(t, c, t.bind)
  BY <1>2, <1>3, <1>4 DEF BindsRight
<1>7. BindsRight(t, c)
  BY <1>1, <1>2, <1>3, <1>5, <1>6, Values DEF BindsRight
<1> QED
  BY <1>7, PartsLook DEF AfterBindVal, LocalInv, KeepsEst, KeepsVote, KeepsEnd

LEMMA DecideValLocal ==
  ASSUME NEW c \in Val, NEW s \in R!NodeState, NEW t \in R!NodeState, LocalInv(s, c), AfterDecideVal(s, t)
  PROVE  LocalInv(t, c)
<1>1. /\ s.terminateVal \in Seq(Decisions) /\ s.terminateVal # <<>> /\ s.decision = None
      /\ t.decision = Head(s.terminateVal) /\ t.terminateVal = Tail(s.terminateVal)
      /\ t.terminateBot = s.terminateBot /\ t.unblock = s.unblock + 1
      /\ t.bound = s.bound /\ t.voter = s.voter /\ s.unblock \in Nat
  BY Fields DEF AfterDecideVal, KeepsVote
<1>2. TerminatesRight(s) /\ DecidesRight(s)
  BY DEF LocalInv
<1>3. /\ t.decision = s.terminateVal[1] /\ t.decision \in Decisions /\ 1 \in 1 .. Len(s.terminateVal)
      /\ Len(s.terminateVal) \in Nat \ {0} /\ Len(t.terminateVal) = Len(s.terminateVal) - 1
  BY <1>1, Received
<1>4. Len(t.terminateVal) = 0 /\ Quorum(t.bound[t.decision])
  <2>1. Len(s.terminateVal) <= 1 /\ Quorum(s.bound[s.terminateVal[1]])
    BY <1>2, <1>3 DEF TerminatesRight
  <2>2. Len(s.terminateVal) = 1
    <3>1. \A m \in Nat \ {0} : m <= 1 => m = 1
      OBVIOUS
    <3> QED
      BY <1>3, <2>1, <3>1
  <2> QED
    BY <1>1, <1>3, <2>1, <2>2
<1>5. t.decision \in Val
  <2>1. ~Quorum({})
    BY FaultyNoQuorum
  <2>2. t.decision # bot
    BY <1>1, <1>2, <1>4, <2>1 DEF TerminatesRight
  <2> QED
    BY <1>3, <2>2 DEF Decisions
<1>6. TerminatesRight(t)
  <2>1. R!Binders(t) = R!Binders(s)
    BY <1>1 DEF R!Binders
  <2> QED
    BY <1>1, <1>2, <1>4, <2>1 DEF TerminatesRight
<1>7. DecidesRight(t)
  BY <1>1, <1>2, <1>4, <1>5, Values DEF DecidesRight
<1> QED
  BY <1>6, <1>7, PartsLook DEF AfterDecideVal, LocalInv, KeepsEst, KeepsVote, KeepsBind

LEMMA DecideBotLocal ==
  ASSUME NEW c \in Val, NEW s \in R!NodeState, NEW t \in R!NodeState, LocalInv(s, c), AfterDecideBot(s, t)
  PROVE  LocalInv(t, c)
<1>1. /\ s.terminateBot \in Nat /\ s.terminateBot >= 2 /\ t.terminateBot = s.terminateBot - 2
      /\ s.decision = None /\ t.decision = bot /\ t.terminateVal = s.terminateVal
      /\ t.unblock = s.unblock + 1 /\ t.bound = s.bound /\ t.voter = s.voter /\ s.unblock \in Nat
  BY Fields DEF AfterDecideBot, KeepsVote
<1>2. TerminatesRight(s) /\ DecidesRight(s)
  BY DEF LocalInv
<1>3. s.voter = "done" /\ t.terminateBot = 0
  BY <1>1, <1>2 DEF TerminatesRight
<1>4. TerminatesRight(t)
  <2>1. R!Binders(t) = R!Binders(s)
    BY <1>1 DEF R!Binders
  <2> QED
    BY <1>1, <1>2, <1>3, <2>1 DEF TerminatesRight
<1>5. DecidesRight(t)
  BY <1>1, <1>2, <1>3, Values DEF DecidesRight
<1> QED
  BY <1>4, <1>5, PartsLook DEF AfterDecideBot, LocalInv, KeepsEst, KeepsVote, KeepsBind

-----------------------------------------------------------------------------
(***************************************************************************)
(* Every step is one of these, with what the peer has sent.                *)
(***************************************************************************)
After(i, t) ==
  LET s == node[i] IN
  \/ Proposes(i) /\ Estimate(i) = coin /\ AfterForward(s, t, coin)
  \/ Proposes(i) /\ Estimate(i) # coin /\ AfterPropose(s, t, Estimate(i))
  \/ \E j \in Nodes, v \in Val : v \in R!EchoesFrom(j) /\ AfterEcho(s, t, coin, j, v)
  \/ \E j \in Nodes, v \in Val : v \in R!VotesFrom(j) /\ AfterVote(s, t, j, v)
  \/ \E j \in Nodes, v \in Val : v \in R!BindsFrom(j) /\ AfterBind(s, t, j, v)
  \/ AfterFirst(s, t) \/ AfterSecond(s, t)
  \/ AfterBindBot(s, t) \/ AfterBindVal(s, t)
  \/ AfterDecideVal(s, t) \/ AfterDecideBot(s, t)

LEMMA SentTypes ==
  ASSUME TypeOK, NEW j \in Nodes
  PROVE  /\ R!EchoesFrom(j) \subseteq Val /\ R!VotesFrom(j) \subseteq Val
         /\ j \in Correct => /\ R!EchoesFrom(j) = node[j].sentEchoes
                             /\ \A v \in R!VotesFrom(j) : node[j].vote = v
                             /\ \A v \in R!BindsFrom(j) : node[j].bind = v
         /\ j \notin Correct => j \in Faulty
<1>1. CASE j \in Correct
  <2>1. node[j].sentEchoes \subseteq Val /\ node[j].vote \in Val \cup {None}
    BY <1>1, Fields DEF TypeOK
  <2> QED
    BY <1>1, <2>1, SameNames DEF R!EchoesFrom, R!VotesFrom, R!BindsFrom
<1>2. CASE j \notin Correct
  BY <1>2, FaultySendsAssumption, SameNames DEF R!EchoesFrom, R!VotesFrom, Correct
<1> QED
  BY <1>1, <1>2

LEMMA EstimateType ==
  ASSUME TypeOK, NEW i \in Correct
  PROVE  Estimate(i) \in Val
BY DEF TypeOK, Estimate

LEMMA StepMoves ==
  ASSUME TypeOK, \A i \in Correct : LocalInv(node[i], coin), Next
  PROVE  /\ prev' = prev /\ coin' = coin /\ decided' = decided
         /\ \E i \in Correct, t \in R!NodeState : node' = [node EXCEPT ![i] = t] /\ After(i, t)
<1>1. PICK i \in Correct :
        \/ propose(i)
        \/ \E j \in Nodes : AnyEcho(i, j) \/ AnyVote(i, j) \/ AnyBind(i, j)
        \/ waitToVote(i) \/ waitToBind(i) \/ waitToDecide(i)
  BY DEF Next
<1>2. prev' = prev /\ coin' = coin /\ decided' = decided
  BY <1>1 DEF AnyEcho, AnyVote, AnyBind, propose, submitEcho, submitVote, submitBind,
              waitToVote, waitToBind, waitToDecide, before
<1> SUFFICES \E t : Moves(i, t) /\ After(i, t)
  BY <1>2 DEF Moves
<1>3. CASE propose(i)
  BY <1>3, ProposeMoves DEF After
<1>4. ASSUME NEW j \in Nodes, AnyEcho(i, j) PROVE \E t : Moves(i, t) /\ After(i, t)
  <2>1. PICK v \in Val : v \in R!EchoesFrom(j) /\ submitEcho(i, j, v)
    BY <1>4, SentTypes DEF AnyEcho
  <2>2. PICK t : Moves(i, t) /\ AfterEcho(node[i], t, coin, j, v)
    BY <2>1, EchoMoves
  <2> QED
    BY <2>1, <2>2 DEF After
<1>5. ASSUME NEW j \in Nodes, AnyVote(i, j) PROVE \E t : Moves(i, t) /\ After(i, t)
  <2>1. PICK v \in Val : v \in R!VotesFrom(j) /\ submitVote(i, j, v)
    BY <1>5, SentTypes DEF AnyVote
  <2>2. PICK t : Moves(i, t) /\ AfterVote(node[i], t, j, v)
    BY <2>1, VoteMoves
  <2> QED
    BY <2>1, <2>2 DEF After
<1>6. ASSUME NEW j \in Nodes, AnyBind(i, j) PROVE \E t : Moves(i, t) /\ After(i, t)
  <2>1. PICK v : v \in R!BindsFrom(j) /\ submitBind(i, j, v)
    BY <1>6 DEF AnyBind
  <2>2. v \in Val
    BY <2>1 DEF submitBind
  <2>3. PICK t : Moves(i, t) /\ AfterBind(node[i], t, j, v)
    BY <2>1, <2>2, BindMoves
  <2> QED
    BY <2>1, <2>2, <2>3 DEF After
<1>7. CASE waitToVote(i)
  <2>1. PICK t : Moves(i, t) /\ (AfterFirst(node[i], t) \/ AfterSecond(node[i], t))
    BY <1>7, VoterMoves DEF LocalInv
  <2> QED
    BY <2>1 DEF After
<1>8. CASE waitToBind(i)
  <2>1. PICK t : Moves(i, t) /\ (AfterBindBot(node[i], t) \/ AfterBindVal(node[i], t))
    BY <1>8, BinderMoves
  <2> QED
    BY <2>1 DEF After
<1>9. CASE waitToDecide(i)
  <2>1. PICK t : Moves(i, t) /\ (AfterDecideVal(node[i], t) \/ AfterDecideBot(node[i], t))
    BY <1>9, DeciderMoves
  <2> QED
    BY <2>1 DEF After
<1> QED
  BY <1>1, <1>3, <1>4, <1>5, <1>6, <1>7, <1>8, <1>9

LEMMA StepLocal ==
  ASSUME TypeOK, \A k \in Correct : LocalInv(node[k], coin),
         NEW i \in Correct, NEW t \in R!NodeState, After(i, t)
  PROVE  LocalInv(t, coin)
<1>1. node[i] \in R!NodeState /\ coin \in Val /\ LocalInv(node[i], coin)
  BY DEF TypeOK
<1>2. ASSUME NEW j \in Nodes, coin \in R!EchoesFrom(j) PROVE j \in Faulty
  BY <1>2, SentTypes DEF LocalInv, CoinSilent
<1>3. CASE \/ AfterForward(node[i], t, coin)
           \/ Estimate(i) # coin /\ AfterPropose(node[i], t, Estimate(i))
  BY <1>1, <1>3, EstimateType, ForwardLocal, ProposeLocal
<1>4. ASSUME NEW j \in Nodes, NEW v \in Val, v \in R!EchoesFrom(j), AfterEcho(node[i], t, coin, j, v)
      PROVE  LocalInv(t, coin)
  BY <1>1, <1>2, <1>4, EchoLocal
<1>5. ASSUME NEW j \in Nodes, NEW v \in Val, AfterVote(node[i], t, j, v) \/ AfterBind(node[i], t, j, v)
      PROVE  LocalInv(t, coin)
  BY <1>1, <1>5, VoteLocal, BindLocal
<1>6. CASE AfterFirst(node[i], t) \/ AfterSecond(node[i], t)
  BY <1>1, <1>6, FirstLocal, SecondLocal
<1>7. CASE AfterBindBot(node[i], t) \/ AfterBindVal(node[i], t)
  BY <1>1, <1>7, BindBotLocal, BindValLocal
<1>8. CASE AfterDecideVal(node[i], t) \/ AfterDecideBot(node[i], t)
  BY <1>1, <1>8, DecideValLocal, DecideBotLocal
<1> QED
  BY <1>3, <1>4, <1>5, <1>6, <1>7, <1>8 DEF After

\* What a node sent, proposed and decided stays, what it counts was sent, and it
\* proposes what it is to.
Grows(i, s, t) ==
  /\ s.sentEchoes \subseteq t.sentEchoes
  /\ s.est # None => t.est = s.est
  /\ s.vote # None => t.vote = s.vote
  /\ s.bind # None => t.bind = s.bind
  /\ s.decision # None => t.decision = s.decision
  /\ t.est # None => t.est = s.est \/ (Proposes(i) /\ t.est = Estimate(i))
  /\ \A v \in Val : \A j \in t.echoes[v] : j \in s.echoes[v] \/ v \in R!EchoesFrom(j)
  /\ \A v \in Val : \A j \in t.voted[v] : j \in s.voted[v] \/ v \in R!VotesFrom(j)
  /\ \A v \in Val : \A j \in t.bound[v] : j \in s.bound[v] \/ v \in R!BindsFrom(j)

LEMMA StepGrows ==
  ASSUME TypeOK, \A k \in Correct : LocalInv(node[k], coin),
         NEW i \in Correct, NEW t \in R!NodeState, After(i, t)
  PROVE  Grows(i, node[i], t)
<1> DEFINE s == node[i]
<1>1. s \in R!NodeState /\ (s.voter = "first" => s.vote = None)
  BY DEF TypeOK, LocalInv, ApprovalsRight
<1>2. CASE Proposes(i) /\ Estimate(i) = coin /\ AfterForward(s, t, coin)
  BY <1>2 DEF AfterForward, KeepsEnd, Grows
<1>3. CASE Proposes(i) /\ AfterPropose(s, t, Estimate(i))
  BY <1>3 DEF AfterPropose, KeepsEnd, KeepsVote, KeepsBind, Grows
<1>4. ASSUME NEW j \in Nodes, NEW v \in Val, v \in R!EchoesFrom(j), AfterEcho(s, t, coin, j, v)
      PROVE  Grows(i, s, t)
  <2>1. \A w \in Val : \A k \in t.echoes[w] : k \in s.echoes[w] \/ w \in R!EchoesFrom(k)
    BY <1>1, <1>4, Fields DEF AfterEcho
  <2> QED
    BY <1>4, <2>1 DEF AfterEcho, KeepsBind, KeepsEnd, Grows
<1>5. ASSUME NEW j \in Nodes, NEW v \in Val, v \in R!VotesFrom(j), AfterVote(s, t, j, v)
      PROVE  Grows(i, s, t)
  <2>1. \A w \in Val : \A k \in t.voted[w] : k \in s.voted[w] \/ w \in R!VotesFrom(k)
    BY <1>1, <1>5, Fields DEF AfterVote
  <2> QED
    BY <1>5, <2>1 DEF AfterVote, KeepsEst, KeepsVote, KeepsEnd, Grows
<1>6. ASSUME NEW j \in Nodes, NEW v \in Val, v \in R!BindsFrom(j), AfterBind(s, t, j, v)
      PROVE  Grows(i, s, t)
  <2>1. \A w \in Val : \A k \in t.bound[w] : k \in s.bound[w] \/ w \in R!BindsFrom(k)
    BY <1>1, <1>6, Fields, Values DEF AfterBind
  <2> QED
    BY <1>6, <2>1 DEF AfterBind, KeepsEst, KeepsVote, KeepsBind, Grows
<1>7. CASE AfterFirst(s, t) \/ AfterSecond(s, t)
  BY <1>1, <1>7 DEF AfterFirst, AfterSecond, KeepsEst, KeepsBind, KeepsEnd, Grows
<1>8. CASE AfterBindBot(s, t) \/ AfterBindVal(s, t)
  BY <1>8 DEF AfterBindBot, AfterBindVal, KeepsEst, KeepsVote, KeepsEnd, Grows
<1>9. CASE AfterDecideVal(s, t) \/ AfterDecideBot(s, t)
  BY <1>9 DEF AfterDecideVal, AfterDecideBot, KeepsEst, KeepsVote, KeepsBind, Grows
<1> QED
  BY <1>2, <1>3, <1>4, <1>5, <1>6, <1>7, <1>8, <1>9 DEF After

LEMMA StepAll ==
  ASSUME TypeOK, \A i \in Correct : LocalInv(node[i], coin), Next
  PROVE  /\ TypeOK' /\ prev' = prev /\ coin' = coin /\ decided' = decided
         /\ \A i \in Correct : LocalInv(node'[i], coin) /\ Grows(i, node[i], node'[i])
<1>1. /\ prev' = prev /\ coin' = coin /\ decided' = decided
      /\ \E i \in Correct, t \in R!NodeState : node' = [node EXCEPT ![i] = t] /\ After(i, t)
  BY StepMoves
<1>2. PICK k \in Correct, t \in R!NodeState : node' = [node EXCEPT ![k] = t] /\ After(k, t)
  BY <1>1
<1>3. node'[k] = t /\ \A i \in Correct \ {k} : node'[i] = node[i]
  BY <1>2 DEF TypeOK
<1>4. TypeOK'
  BY <1>1, <1>2 DEF TypeOK
<1>5. LocalInv(node'[k], coin) /\ Grows(k, node[k], node'[k])
  BY <1>2, <1>3, StepLocal, StepGrows
<1>6. \A i \in Correct \ {k} : LocalInv(node'[i], coin) /\ Grows(i, node[i], node'[i])
  BY <1>3 DEF Grows
<1> QED
  BY <1>1, <1>4, <1>5, <1>6

LEMMA StepGenuine ==
  ASSUME IInv, Next
  PROVE  CountsGenuine'
<1> SUFFICES ASSUME NEW i \in Correct, NEW j \in Correct, NEW v \in Val
             PROVE  /\ j \in node'[i].echoes[v] => v \in node'[j].sentEchoes
                    /\ j \in node'[i].voted[v] => node'[j].vote = v
                    /\ j \in node'[i].bound[v] => node'[j].bind = v
  BY DEF CountsGenuine
<1>1. TypeOK /\ (\A k \in Correct : LocalInv(node[k], coin)) /\ CountsGenuine
  BY DEF IInv
<1>2. Grows(i, node[i], node'[i]) /\ Grows(j, node[j], node'[j])
  BY <1>1, StepAll
<1>3. j \in Nodes /\ v # None
  BY Numbers, Values
<1>4. /\ v \in R!EchoesFrom(j) => v \in node[j].sentEchoes
      /\ v \in R!VotesFrom(j) => node[j].vote = v
      /\ v \in R!BindsFrom(j) => node[j].bind = v
  BY <1>1, <1>3, SentTypes
<1>5. j \in node'[i].echoes[v] => v \in node'[j].sentEchoes
  BY <1>1, <1>2, <1>4 DEF CountsGenuine, Grows
<1>6. j \in node'[i].voted[v] => node'[j].vote = v
  BY <1>1, <1>2, <1>3, <1>4 DEF CountsGenuine, Grows
<1>7. j \in node'[i].bound[v] => node'[j].bind = v
  BY <1>1, <1>2, <1>3, <1>4 DEF CountsGenuine, Grows
<1> QED
  BY <1>5, <1>6, <1>7

\* f+1 echoes are due to a proposal: a correct node among them proposed the
\* value, or repeated f+1 earlier ones.
LEMMA StepRooted ==
  ASSUME IInv, Next
  PROVE  EchoesRooted'
<1> SUFFICES ASSUME NEW i \in Correct, NEW v \in Val, Cardinality(node'[i].echoes[v]) >= F + 1
             PROVE  Proposers(v)' # {}
  BY DEF EchoesRooted
<1>1. TypeOK /\ (\A k \in Correct : LocalInv(node[k], coin)) /\ CountsGenuine
  BY DEF IInv
<1>2. TypeOK' /\ \A k \in Correct : Grows(k, node[k], node'[k])
  BY <1>1, StepAll
<1>3. node'[i].echoes[v] \in SUBSET Nodes
  BY <1>2, Fields DEF TypeOK
<1>4. PICK j \in Correct : j \in node'[i].echoes[v]
  BY <1>3, HasCorrect
<1>5. v \in node[j].sentEchoes
  <2>1. j \in node[i].echoes[v] \/ v \in R!EchoesFrom(j)
    BY <1>2, <1>4 DEF Grows
  <2> QED
    BY <1>1, <2>1, SentTypes, Numbers DEF CountsGenuine
<1>6. node[j].est = v \/ Cardinality(node[j].echoes[v]) >= F + 1
  BY <1>1, <1>5 DEF LocalInv, EchoesRight
<1>7. PICK k \in Correct : node[k].est = v
  BY <1>6 DEF IInv, EchoesRooted, Proposers
<1>8. node'[k].est = v
  BY <1>2, <1>7, Values DEF Grows
<1> QED
  BY <1>8 DEF Proposers

LEMMA StepEntered ==
  ASSUME IInv, Next
  PROVE  EnteredRight'
<1>1. TypeOK /\ (\A k \in Correct : LocalInv(node[k], coin)) /\ EnteredRight
  BY DEF IInv
<1>2. prev' = prev /\ coin' = coin /\ decided' = decided /\ \A i \in Correct : Grows(i, node[i], node'[i])
  BY <1>1, StepAll
<1>3. \A i \in Correct : Proposes(i)' = Proposes(i) /\ Estimate(i)' = Estimate(i)
  BY <1>2 DEF Proposes, Estimate
<1>4. ASSUME NEW i \in Correct, node'[i].est # None PROVE Proposes(i) /\ node'[i].est = Estimate(i)
  BY <1>1, <1>2, <1>4 DEF EnteredRight, Grows
<1> QED
  BY <1>1, <1>2, <1>3, <1>4 DEF EnteredRight

-----------------------------------------------------------------------------
(***************************************************************************)
(* The invariant, and what follows from it.                                *)
(***************************************************************************)
LEMMA InitInv == Init => IInv
<1> SUFFICES ASSUME Init PROVE IInv
  OBVIOUS
<1> DEFINE s == newEVBCA
<1>1. /\ s.est = None /\ s.sentEchoes = {} /\ s.approveVal = <<>> /\ s.vote = None /\ s.voter = "first"
      /\ s.bindBot = 0 /\ s.bind = None /\ s.bindVal = <<>> /\ s.terminateVal = <<>>
      /\ s.terminateBot = 0 /\ s.decision = None /\ s.unblock = 0
      /\ (\A v \in Val : s.echoes[v] = {} /\ s.voted[v] = {}) /\ \A v \in Decisions : s.bound[v] = {}
  BY SameNames DEF newEVBCA, R!newBCA
<1>2. s \in R!NodeState
  <2>1. <<>> \in Seq(R!Val) /\ <<>> \in Seq(R!Decisions)
    OBVIOUS
  <2> QED
    BY <2>1 DEF newEVBCA, R!newBCA, R!NodeState
<1>3. prev \in [Correct -> Val \cup {bot}] /\ coin \in Val /\ decided \subseteq Correct
  BY OutcomesAssumption DEF Init
<1>4. TypeOK /\ \A i \in Correct : node[i] = s
  BY <1>2, <1>3 DEF Init, TypeOK
<1> HIDE DEF s
<1>5. ~Quorum({}) /\ ~(Cardinality({}) >= F + 1) /\ Len(<<>>) = 0
  BY FaultyNoQuorum
<1>6. LocalInv(s, coin)
  <2>1. CoinSilent(s, coin) /\ EchoesRight(s, coin)
    BY <1>1, <1>3 DEF CoinSilent, EchoesRight
  <2>2. ~AnyQuorum(s) /\ \A v \in Val : ~Approved(s, coin, v) /\ ~Bindable(s, coin, v)
    BY <1>1, <1>3, <1>5, Values DEF Approved, Bindable, AnyQuorum
  <2>3. ApprovalsRight(s, coin)
    BY <1>1, <1>5, <2>2 DEF ApprovalsRight
  <2>4. BindsRight(s, coin)
    <3>1. BindsSent(s, coin) = 0
      BY <1>1, <1>3, <2>2, Values DEF BindsSent
    <3> QED
      BY <1>1, <1>5, <2>2, <3>1, Values DEF BindsRight
  <2>5. TerminatesRight(s)
    BY <1>1, <1>5, Values DEF TerminatesRight
  <2>6. DecidesRight(s)
    <3>1. \A v \in Val : ~Quorum(s.bound[v])
      BY <1>1, <1>5, Values
    <3> QED
      BY <1>1, <3>1, Values DEF DecidesRight
  <2> QED
    BY <2>1, <2>3, <2>4, <2>5, <2>6 DEF LocalInv
<1>7. CountsGenuine /\ EchoesRooted /\ EnteredRight
  BY <1>1, <1>4, <1>5, Values DEF CountsGenuine, EchoesRooted, EnteredRight, Init
<1> QED
  BY <1>4, <1>6, <1>7 DEF IInv

LEMMA NextInv == IInv /\ [Next]_vars => IInv'
<1> SUFFICES ASSUME IInv, [Next]_vars PROVE IInv'
  OBVIOUS
<1>1. CASE Next
  <2>1. TypeOK' /\ coin' = coin /\ \A i \in Correct : LocalInv(node'[i], coin)
    BY <1>1, StepAll DEF IInv
  <2> QED
    BY <1>1, <2>1, StepGenuine, StepRooted, StepEntered DEF IInv
<1>2. CASE UNCHANGED vars
  <2>1. node' = node /\ prev' = prev /\ coin' = coin /\ decided' = decided
    BY <1>2 DEF vars, before
  <2>2. TypeOK' /\ (\A i \in Correct : LocalInv(node'[i], coin')) /\ CountsGenuine'
    BY <2>1 DEF IInv, TypeOK, CountsGenuine
  <2>3. EchoesRooted' /\ EnteredRight'
    BY <2>1 DEF IInv, EchoesRooted, Proposers, EnteredRight, Proposes, Estimate
  <2> QED
    BY <2>2, <2>3 DEF IInv
<1> QED
  BY <1>1, <1>2

\* The inductive invariant holds in every state of a later round's crusader
\* agreement (externalValidityBCA.go), whatever the round before ended with and
\* whatever faulty nodes send.
THEOREM Invariance == Spec => []IInv
BY InitInv, NextInv, PTL DEF Spec

\* Every channel, count and decision has its type in every round after the first
\* one (evbca, externalValidityBCA.go:15-38).
THEOREM TypeCorrect == Spec => []TypeOK
<1>1. IInv => TypeOK
  BY DEF IInv
<1> QED
  BY <1>1, Invariance, PTL

\* approveVal holds different values; bindVal is sent to once by fastForward and
\* once by n-f votes.
LEMMA ChannelsFit == IInv => ChannelsSuffice
<1> SUFFICES ASSUME IInv, NEW i \in Correct
             PROVE  /\ Len(node[i].approveVal) <= 4
                    /\ Len(node[i].terminateVal) <= 1 /\ node[i].terminateBot <= 2
                    /\ node[i].bindBot <= 1 /\ node[i].unblock <= 1
                    /\ Len(node[i].bindVal) <= 2
                    /\ (Len(node[i].bindVal) = 2 => node[i].est = coin)
                    /\ (Len(node[i].bindVal) = 2 => node[i].bind \in {None, bot})
  BY DEF ChannelsSuffice
<1> DEFINE q == node[i].approveVal
           b == Len(node[i].bindVal)
<1>1. LocalInv(node[i], coin) /\ node[i] \in R!NodeState
  BY DEF IInv, TypeOK
<1>2. \A x, y \in 1 .. Len(q) : q[x] = q[y] => x = y
  BY <1>1 DEF LocalInv, ApprovalsRight
<1>3. /\ Len(q) \in Nat /\ \A x \in 1 .. Len(q) : q[x] \in Val
      /\ b \in Nat /\ node[i].bind \in Decisions \cup {None}
  BY <1>1, Fields, LenProperties, ElementOfSeq
<1>4. Len(q) <= 2
  <2> SUFFICES ASSUME Len(q) >= 3 PROVE FALSE
    BY <1>3
  <2> HIDE DEF q
  <2>1. 1 \in 1 .. Len(q) /\ 2 \in 1 .. Len(q) /\ 3 \in 1 .. Len(q)
    BY <1>3
  <2>2. q[1] # q[2] /\ q[1] # q[3] /\ q[2] # q[3]
    BY <1>2, <2>1
  <2> QED
    BY <1>3, <2>1, <2>2, Values
<1>5. b + (IF node[i].bind \in Val THEN 1 ELSE 0) <= BindsSent(node[i], coin)
  BY <1>1 DEF LocalInv, BindsRight
<1>6. BindsSent(node[i], coin) \in {0, 1, 2} /\ (BindsSent(node[i], coin) = 2 => node[i].est = coin)
  BY DEF BindsSent
<1>7. /\ b <= 2 /\ (b = 2 => node[i].est = coin) /\ (b = 2 => node[i].bind \notin Val)
  <2> HIDE DEF b
  <2> QED
    BY <1>3, <1>5, <1>6
<1>8. b = 2 => node[i].bind \in {None, bot}
  BY <1>3, <1>7 DEF Decisions
<1>9. Len(q) <= 4
  BY <1>3, <1>4
<1>10. /\ Len(node[i].terminateVal) <= 1 /\ node[i].terminateBot <= 2
       /\ node[i].bindBot <= 1 /\ node[i].unblock <= 1
  BY <1>1 DEF LocalInv, BindsRight, TerminatesRight, DecidesRight
<1> QED
  BY <1>7, <1>8, <1>9, <1>10

\* No channel of a later round is sent to when it is full, in any network, except
\* for bindValChan: there a second value may wait behind the one of fastForward,
\* and for good only where the node bound bot (externalValidityBCA.go:51-60, 140).
THEOREM ChannelsSufficeHolds == Spec => []ChannelsSuffice
BY ChannelsFit, Invariance, PTL

-----------------------------------------------------------------------------
(***************************************************************************)
(* What is decided was proposed, and no two values are.                    *)
(***************************************************************************)
LEMMA ApprovedIsProposed ==
  ASSUME IInv, NEW i \in Correct, NEW v \in Val, Approved(node[i], coin, v)
  PROVE  Proposers(v) # {}
<1>1. node[i].echoes[v] \in SUBSET Nodes
  BY Fields DEF IInv, TypeOK
<1>2. CASE Quorum(node[i].echoes[v])
  <2>1. Cardinality(node[i].echoes[v]) >= F + 1
    BY <1>1, <1>2, QuorumIsLarge
  <2> QED
    BY <2>1 DEF IInv, EchoesRooted
<1>3. CASE v = coin /\ node[i].est = coin
  BY <1>3 DEF Proposers
<1> QED
  BY <1>2, <1>3 DEF Approved

\* Who votes for the coin or binds it has it for an estimate, or was told by one
\* who has.
LEMMA BindIsProposed ==
  ASSUME IInv, NEW i \in Correct, NEW v \in Val, node[i].bind = v
  PROVE  Proposers(v) # {}
<1>0. node[i] \in R!NodeState /\ BindsRight(node[i], coin)
  BY DEF IInv, TypeOK, LocalInv
<1>1. Bindable(node[i], coin, v) /\ node[i].voted[v] \in SUBSET Nodes
  BY <1>0, Fields DEF BindsRight
<1>2. CASE Quorum(node[i].voted[v])
  <2>1. PICK k \in Correct : k \in node[i].voted[v]
    BY <1>1, <1>2, HasCorrect
  <2>2. node[k].vote = v /\ v # None
    BY <2>1, Values DEF IInv, CountsGenuine
  <2>3. Approved(node[k], coin, v)
    BY <2>2 DEF IInv, LocalInv, ApprovalsRight
  <2> QED
    BY <2>3, ApprovedIsProposed
<1>3. CASE v = coin /\ node[i].est = coin
  BY <1>3 DEF Proposers
<1> QED
  BY <1>1, <1>2, <1>3 DEF Bindable

LEMMA BoundIsProposed ==
  ASSUME IInv, NEW i \in Correct, NEW v \in Val, Quorum(node[i].bound[v])
  PROVE  Proposers(v) # {}
<1>1. node[i].bound[v] \in SUBSET Nodes
  BY Fields, Values DEF IInv, TypeOK
<1>2. PICK j \in Correct : j \in node[i].bound[v]
  BY <1>1, HasCorrect
<1>3. node[j].bind = v
  BY <1>2 DEF IInv, CountsGenuine
<1> QED
  BY <1>3, BindIsProposed

LEMMA BothAreProposed ==
  ASSUME IInv, NEW i \in Correct, node[i].voter = "done"
  PROVE  \A v \in Val : Proposers(v) # {}
<1>1. Both(node[i], coin)
  BY DEF IInv, LocalInv, ApprovalsRight
<1> QED
  BY <1>1, ApprovedIsProposed DEF Both

LEMMA DecidedIsProposed ==
  ASSUME IInv, NEW i \in Correct
  PROVE  /\ node[i].decision \in Decisions \cup {None}
         /\ node[i].decision \in Val => Proposers(node[i].decision) # {}
         /\ node[i].decision = bot => \A v \in Val : Proposers(v) # {}
<1>1. node[i] \in R!NodeState /\ DecidesRight(node[i])
  BY DEF IInv, TypeOK, LocalInv
<1> QED
  BY <1>1, Fields, BoundIsProposed, BothAreProposed DEF DecidesRight

\* No two values have n-f binds at correct nodes.
LEMMA BoundAgree ==
  ASSUME IInv, NEW i \in Correct, NEW k \in Correct, NEW v \in Val, NEW w \in Val,
         Quorum(node[i].bound[v]), Quorum(node[k].bound[w])
  PROVE  v = w
<1>1. node[i].bound[v] \in SUBSET Nodes /\ node[k].bound[w] \in SUBSET Nodes
  BY Fields, Values DEF IInv, TypeOK
<1>2. PICK j \in Correct : j \in node[i].bound[v] /\ j \in node[k].bound[w]
  BY <1>1, Disjoint
<1> QED
  BY <1>2 DEF IInv, CountsGenuine

\* Where a node decided in the round before, the others estimate the same.
LEMMA DecidedInv == IInv => DecidedStays
<1> SUFFICES ASSUME IInv, NEW k \in Correct, prev[k] = coin, NEW i \in Correct
             PROVE  node[i].decision \in {coin, None}
  BY DEF DecidedStays
<1>1. coin \in Val /\ EnteredRight
  BY DEF IInv, TypeOK
<1>2. PICK o \in Outcomes : prev = o.prev /\ coin = o.coin
  BY <1>1 DEF EnteredRight
<1>3. \A j \in Correct : prev[j] \in {coin, bot}
  BY <1>1, <1>2, OutcomesAssumption, Values
<1>4. \A j \in Correct : Estimate(j) = coin
  BY <1>3 DEF Estimate
<1>5. \A j \in Correct : node[j].est \in {coin, None}
  BY <1>1, <1>4 DEF EnteredRight
<1>6. \A v \in Val : Proposers(v) # {} => v = coin
  BY <1>5, Values DEF Proposers
<1>7. node[i].decision # bot
  <2>1. 1 - coin \in Val /\ 1 - coin # coin
    BY <1>1, Values
  <2> QED
    BY <1>6, <2>1, DecidedIsProposed
<1> QED
  BY <1>6, <1>7, DecidedIsProposed DEF Decisions

\* A decision of the round before stands in every network and whatever the other
\* nodes were given: who decides in this round decides the same
\* (externalValidityBCA.go:95-103, round.go:66-81).
THEOREM DecidedStaysHolds == Spec => []DecidedStays
BY DecidedInv, Invariance, PTL

-----------------------------------------------------------------------------
(***************************************************************************)
(* A later round implements CrusaderAgreement.                             *)
(***************************************************************************)
LEMMA RefinesInit == Init => CA!Init
<1> SUFFICES ASSUME Init PROVE CA!Init
  OBVIOUS
<1>1. \A i \in Correct : node[i].est = None /\ node[i].decision = None
  BY DEF Init, newEVBCA, R!newBCA
<1> QED
  BY <1>1 DEF CA!Init

LEMMA EnoughMeans ==
  ASSUME NEW v \in Val, Proposers(v) # {}
  PROVE  CA!Approvable(v)
<1>1. Proposers(v) \in SUBSET Correct
  BY DEF Proposers
<1>2. {i \in Correct : [k \in Correct |-> node[k].est][i] = v} = Proposers(v)
  BY DEF Proposers
<1> QED
  BY <1>1, <1>2 DEF CA!Approvable

\* Only a proposal and a decision of CrusaderAgreement are visible.
LEMMA StepVisible ==
  ASSUME TypeOK, NEW i \in Correct, NEW t \in R!NodeState, LocalInv(node[i], coin), After(i, t)
  PROVE  LET s == node[i] IN
         \/ \E v \in Val : s.est = None /\ t.est = v /\ t.decision = s.decision
         \/ /\ s.decision = None /\ t.decision \in Decisions /\ t.est = s.est
            /\ t.decision \in Val => Quorum(s.bound[t.decision])
            /\ t.decision = bot => s.voter = "done"
         \/ t.est = s.est /\ t.decision = s.decision
<1> DEFINE s == node[i]
<1>1. s \in R!NodeState /\ coin \in Val
  BY DEF TypeOK
<1>2. CASE AfterDecideVal(s, t) \/ AfterDecideBot(s, t)
  <2>1. DecidesRight(t)
    BY <1>1, <1>2, DecideValLocal, DecideBotLocal DEF LocalInv
  <2>2. s.decision = None /\ t.est = s.est /\ t.bound = s.bound /\ t.voter = s.voter
    BY <1>2 DEF AfterDecideVal, AfterDecideBot, KeepsEst, KeepsVote
  <2>3. t.decision \in Decisions
    BY <1>1, <1>2, Fields, Received, Values DEF AfterDecideVal, AfterDecideBot
  <2> QED
    BY <2>1, <2>2, <2>3 DEF DecidesRight
<1>3. CASE AfterForward(s, t, coin) \/ AfterPropose(s, t, Estimate(i))
  BY <1>1, <1>3, EstimateType DEF AfterForward, AfterPropose, KeepsEnd
<1>4. CASE \E j \in Nodes, v \in Val :
             AfterEcho(s, t, coin, j, v) \/ AfterVote(s, t, j, v) \/ AfterBind(s, t, j, v)
  BY <1>4 DEF AfterEcho, AfterVote, AfterBind, KeepsEst, KeepsEnd
<1>5. CASE AfterFirst(s, t) \/ AfterSecond(s, t) \/ AfterBindBot(s, t) \/ AfterBindVal(s, t)
  BY <1>5 DEF AfterFirst, AfterSecond, AfterBindBot, AfterBindVal, KeepsEst, KeepsEnd
<1> QED
  BY <1>2, <1>3, <1>4, <1>5 DEF After

LEMMA RefinesStep == IInv /\ [Next]_vars => [CA!Next]_(CA!vars)
<1> SUFFICES ASSUME IInv, [Next]_vars PROVE CA!Next \/ UNCHANGED CA!vars
  OBVIOUS
<1> DEFINE est == [k \in Correct |-> node[k].est]
           dec == [k \in Correct |-> node[k].decision]
<1>1. CASE UNCHANGED vars
  BY <1>1 DEF vars, CA!vars
<1>2. CASE Next
  <2>1. PICK i \in Correct, t \in R!NodeState : node' = [node EXCEPT ![i] = t] /\ After(i, t)
    BY <1>2, StepMoves DEF IInv
  <2>2. node'[i] = t /\ \A k \in Correct \ {i} : node'[k] = node[k]
    BY <2>1 DEF IInv, TypeOK
  <2>3. TypeOK /\ LocalInv(node[i], coin)
    BY DEF IInv
  <2>4. est' = [est EXCEPT ![i] = t.est] /\ dec' = [dec EXCEPT ![i] = t.decision]
    BY <2>2
  <2>5. ASSUME NEW v \in Val, node[i].est = None, t.est = v, t.decision = node[i].decision
        PROVE  CA!Next
    <3>1. dec' = dec /\ est' = [est EXCEPT ![i] = v] /\ est[i] = None
      BY <2>4, <2>5
    <3>2. CA!Propose(i, v)
      BY <3>1 DEF CA!Propose
    <3> QED
      BY <3>2 DEF CA!Next, CA!Val, Val
  <2>6. ASSUME node[i].decision = None, t.decision \in Decisions, t.est = node[i].est,
               t.decision \in Val => Quorum(node[i].bound[t.decision]),
               t.decision = bot => node[i].voter = "done"
        PROVE  CA!Next
    <3> DEFINE d == t.decision
    <3>1. est' = est /\ dec' = [dec EXCEPT ![i] = d] /\ dec[i] = None
      BY <2>4, <2>6
    <3>2. d \in Val => CA!Approvable(d)
      BY <2>6, BoundIsProposed, EnoughMeans
    <3>3. d = bot => \A v \in Val : CA!Approvable(v)
      BY <2>6, BothAreProposed, EnoughMeans
    <3>4. ASSUME d \in Val, NEW k \in Correct PROVE dec[k] # 1 - d
      <4>1. 1 - d \in Val /\ 1 - d # d
        BY <3>4, Values
      <4>2. node[k].decision \in Val => Quorum(node[k].bound[node[k].decision])
        BY DEF IInv, LocalInv, DecidesRight
      <4>3. node[k].decision # 1 - d
        BY <2>6, <3>4, <4>1, <4>2, BoundAgree
      <4> QED
        BY <4>3
    <3>5. CA!Decide(i, d)
      BY <3>1, <3>2, <3>3, <3>4 DEF CA!Decide, CA!Val, Val, CA!bot, bot
    <3> QED
      BY <2>6, <3>5 DEF CA!Next, CA!Val, Val, CA!bot, bot, Decisions
  <2>7. ASSUME t.est = node[i].est, t.decision = node[i].decision
        PROVE  UNCHANGED CA!vars
    BY <2>2, <2>7 DEF CA!vars
  <2> QED
    BY <2>1, <2>3, <2>5, <2>6, <2>7, StepVisible
<1> QED
  BY <1>1, <1>2

\* A later round keeps what MMR relies on, in every network with n > 3f and from
\* every outcome of the round before: decisions other than bot agree, and what is
\* decided, or makes way for bot, is the estimate of a correct node
\* (externalValidityBCA.go:69-235).
THEOREM Refinement == Spec => CASpec
BY Invariance, RefinesInit, RefinesStep, PTL DEF Spec, CASpec, CA!Spec

-----------------------------------------------------------------------------
(***************************************************************************)
(* Termination where the correct nodes propose the same value.             *)
(***************************************************************************)
LEMMA UnanimousInv == IInv => UnanimousTermination
<1> SUFFICES ASSUME IInv, Quiescent, NEW v \in Val,
                    \A i \in Correct : Proposes(i) /\ Estimate(i) = v
             PROVE  \A i \in Correct : node[i].decision # None
  BY DEF UnanimousTermination
<1>1. \A i \in Correct : node[i] \in R!NodeState /\ LocalInv(node[i], coin)
  BY DEF IInv, TypeOK
<1>2. v # None /\ v # bot /\ v \in Decisions
  BY Values
<1>3. \A w \in Val : Proposers(w) # {} => w = v
  BY Values DEF IInv, EnteredRight, Proposers
<1>4. \A i \in Correct : node[i].voter # "done"
  <2>1. 1 - v \in Val /\ 1 - v # v
    BY Values
  <2> QED
    BY <1>3, <2>1, BothAreProposed
<1>5. \A i \in Correct : node[i].bind \in {v, None}
  <2> TAKE i \in Correct
  <2>1. node[i].bind # bot
    BY <1>1, <1>4 DEF LocalInv, BindsRight
  <2>2. node[i].bind \in Decisions \cup {None}
    BY <1>1, Fields
  <2> QED
    BY <1>3, <2>1, <2>2, BindIsProposed DEF Decisions
<1>6. \A i \in Correct : Running(i)
  <2> TAKE i \in Correct
  <2> SUFFICES ASSUME ~Running(i) PROVE FALSE
    OBVIOUS
  <2>1. Len(node[i].bindVal) \in Nat /\ Len(node[i].bindVal) <= 2
    BY <1>1, Fields, LenProperties, ChannelsFit DEF ChannelsSuffice
  <2>2. Len(node[i].bindVal) = 2
    <3>1. \A m \in Nat : m <= 2 /\ ~(m <= 1) => m = 2
      OBVIOUS
    <3> QED
      BY <2>1, <3>1 DEF Running
  <2>3. node[i].bind = None
    BY <1>2, <1>5, <2>2, ChannelsFit, Values DEF ChannelsSuffice
  <2>4. node[i].bindVal = <<>>
    BY <2>3 DEF Quiescent
  <2> QED
    BY <2>2, <2>4
<1>7. \A i \in Correct : node[i].est = v
  BY <1>6 DEF Quiescent, IInv, EnteredRight
<1>8. \A i \in Correct : Approved(node[i], coin, v)
  <2> TAKE i \in Correct
  <2>1. CASE v = coin
    BY <1>7, <2>1 DEF Approved
  <2>2. CASE v # coin
    <3> SUFFICES ASSUME ~Quorum(node[i].echoes[v]) PROVE FALSE
      BY DEF Approved
    <3>1. \A j \in Correct : v \in node[j].sentEchoes
      BY <1>1, <1>2, <1>7, <2>2 DEF LocalInv, EchoesRight
    <3>2. \A j \in Correct : j \in node[i].echoes[v]
      BY <1>6, <3>1 DEF Quiescent, Quorum, len
    <3> QED
      BY <1>1, <3>2, Fields, CorrectQuorum
  <2> QED
    BY <2>1, <2>2
<1>9. \A i \in Correct : node[i].vote = v
  <2> TAKE i \in Correct
  <2>1. node[i].vote # None \/ node[i].approveVal # <<>>
    BY <1>1, <1>8 DEF LocalInv, ApprovalsRight
  <2>2. node[i].vote # None
    BY <1>4, <2>1 DEF Quiescent
  <2>3. node[i].vote \in Val
    BY <1>1, <2>2, Fields
  <2>4. Approved(node[i], coin, node[i].vote)
    BY <1>1, <2>2 DEF LocalInv, ApprovalsRight
  <2> QED
    BY <1>3, <2>3, <2>4, ApprovedIsProposed
<1>10. \A i \in Correct : node[i].bind = v
  <2> TAKE i \in Correct
  <2> SUFFICES ASSUME node[i].bind = None PROVE FALSE
    BY <1>5
  <2>1. ASSUME NEW j \in Correct PROVE j \in node[i].voted[v]
    <3>1. j \in R!Voters(node[i])
      BY <1>2, <1>6, <1>9 DEF Quiescent
    <3>2. PICK w \in Val : j \in node[i].voted[w]
      BY <3>1, SameNames DEF R!Voters
    <3> QED
      BY <1>9, <3>2 DEF IInv, CountsGenuine
  <2>2. Quorum(node[i].voted[v])
    BY <1>1, <2>1, Fields, CorrectQuorum
  <2>3. node[i].bindVal # <<>>
    BY <1>1, <2>2 DEF LocalInv, BindsRight, Bindable
  <2> QED
    BY <2>3 DEF Quiescent
<1> TAKE i \in Correct
<1> SUFFICES ASSUME node[i].decision = None PROVE FALSE
  OBVIOUS
<1>11. ASSUME NEW j \in Correct PROVE j \in node[i].bound[v]
  <2>1. j \in R!Binders(node[i])
    BY <1>6, <1>10 DEF Quiescent
  <2>2. PICK w \in Decisions : j \in node[i].bound[w]
    BY <2>1, SameNames DEF R!Binders
  <2>3. w \in Val
    BY <1>1, <2>2 DEF LocalInv, TerminatesRight, Decisions
  <2> QED
    BY <1>10, <2>2, <2>3 DEF IInv, CountsGenuine
<1>12. Quorum(node[i].bound[v])
  <2>1. node[i].bound[v] \in SUBSET Nodes
    BY <1>1, <1>2, Fields
  <2> QED
    BY <1>11, <2>1, CorrectQuorum
<1>13. node[i].terminateVal # <<>>
  BY <1>1, <1>12 DEF LocalInv, DecidesRight
<1> QED
  BY <1>13 DEF Quiescent

\* Where the correct nodes all propose the same value a later round never gets
\* stuck: once what they sent is handled they have all decided, in every network
\* with n > 3f, whether the value is the coin, which nobody echoes, or not, and
\* no invoker is left blocked (externalValidityBCA.go:98).
THEOREM UnanimousTerminationHolds == Spec => []UnanimousTermination
BY UnanimousInv, Invariance, PTL

-----------------------------------------------------------------------------
(***************************************************************************)
(* What it takes to decide the coin.                                       *)
(***************************************************************************)
\* Nobody approves the coin by echoes, so only fast-forwarded nodes vote for it.
LEMMA CoinVoter ==
  ASSUME IInv, NEW j \in Correct, node[j].vote = coin
  PROVE  j \in Proposers(coin)
<1>1. node[j] \in R!NodeState /\ LocalInv(node[j], coin) /\ coin \in Val
  BY DEF IInv, TypeOK
<1>2. coin # None
  BY <1>1, Values
<1>3. Approved(node[j], coin, coin)
  BY <1>1, <1>2 DEF LocalInv, ApprovalsRight
<1>4. ~Quorum(node[j].echoes[coin])
  BY <1>1, FaultyNoQuorum DEF LocalInv, CoinSilent
<1> QED
  BY <1>3, <1>4 DEF Approved, Proposers

\* Who binds the coin estimates it, or was sent n-f votes by nodes that do.
LEMMA CoinBinder ==
  ASSUME IInv, NEW j \in Correct, node[j].bind = coin
  PROVE  j \in Proposers(coin) \/ Quorum(Proposers(coin) \cup Faulty)
<1>1. node[j] \in R!NodeState /\ LocalInv(node[j], coin) /\ coin \in Val
  BY DEF IInv, TypeOK
<1>2. Bindable(node[j], coin, coin)
  BY <1>1 DEF LocalInv, BindsRight
<1>3. CASE node[j].est = coin
  BY <1>3 DEF Proposers
<1>4. CASE Quorum(node[j].voted[coin])
  <2>1. node[j].voted[coin] \in SUBSET Nodes
    BY <1>1, Fields
  <2>2. ASSUME NEW k \in node[j].voted[coin] PROVE k \in Proposers(coin) \cup Faulty
    <3>1. CASE k \in Correct
      BY <1>1, <2>2, <3>1, CoinVoter DEF IInv, CountsGenuine
    <3> QED
      BY <2>1, <3>1 DEF Correct
  <2>3. Proposers(coin) \cup Faulty \in SUBSET Nodes
    BY Numbers DEF Proposers
  <2> QED
    BY <1>4, <2>2, <2>3, LargerSize
<1> QED
  BY <1>2, <1>3, <1>4 DEF Bindable

LEMMA CoinQuorumInv == IInv => CoinNeedsQuorum
<1> SUFFICES ASSUME IInv, NEW i \in Correct, node[i].decision = coin
             PROVE  Quorum(Proposers(coin) \cup Faulty)
  BY DEF CoinNeedsQuorum, Quorum, Proposers, len
<1>1. node[i] \in R!NodeState /\ LocalInv(node[i], coin) /\ coin \in Val
  BY DEF IInv, TypeOK
<1>2. Quorum(node[i].bound[coin]) /\ node[i].bound[coin] \in SUBSET Nodes
  BY <1>1, Fields, Values DEF LocalInv, DecidesRight
<1> SUFFICES ASSUME ~Quorum(Proposers(coin) \cup Faulty) PROVE FALSE
  OBVIOUS
<1>3. ASSUME NEW k \in node[i].bound[coin] PROVE k \in Proposers(coin) \cup Faulty
  <2>1. CASE k \in Correct
    BY <1>1, <1>3, <2>1, CoinBinder DEF IInv, CountsGenuine
  <2> QED
    BY <1>2, <2>1 DEF Correct
<1>4. Proposers(coin) \cup Faulty \in SUBSET Nodes
  BY Numbers DEF Proposers
<1> QED
  BY <1>2, <1>3, <1>4, LargerSize

\* In every network with n > 3f the coin is decided only where n-f nodes, the faulty
\* ones included, have it for an estimate: without waitForPrevCoin, which newEVBCA
\* never starts, a node with the other value cannot come to the coin, and f+1 of
\* those keep the whole round from deciding it (externalValidityBCA.go:63, 98-103).
THEOREM CoinNeedsQuorumHolds == Spec => []CoinNeedsQuorum
BY CoinQuorumInv, Invariance, PTL

-----------------------------------------------------------------------------
(***************************************************************************)
(* Every step gets a node on.                                              *)
(***************************************************************************)
LEMMA ProgressParts ==
  ASSUME NEW s, NEW t, R!Progress(t) = R!Progress(s)
  PROVE  /\ t.est = s.est /\ t.echoes = s.echoes /\ t.voted = s.voted /\ t.bound = s.bound
         /\ t.voter = s.voter /\ t.bind = s.bind /\ t.decision = s.decision
BY DEF R!Progress

LEMMA StepIsForward ==
  ASSUME TypeOK, \A k \in Correct : LocalInv(node[k], coin),
         NEW i \in Correct, NEW t \in R!NodeState, After(i, t)
  PROVE  R!Forward(node[i], t)
<1> DEFINE s == node[i]
<1>0. /\ s \in R!NodeState
      /\ s.echoes \in [Val -> SUBSET Nodes] /\ s.voted \in [Val -> SUBSET Nodes]
      /\ s.bound \in [Decisions -> SUBSET Nodes]
  BY Fields DEF TypeOK
<1>1. /\ s.sentEchoes \subseteq t.sentEchoes
      /\ s.est # None => t.est = s.est
      /\ s.vote # None => t.vote = s.vote
      /\ s.bind # None => t.bind = s.bind
      /\ s.decision # None => t.decision = s.decision
  BY StepGrows DEF Grows
<1>2. \A v \in Val : s.echoes[v] \subseteq t.echoes[v]
  <2>1. CASE \E j \in Nodes, v \in Val : AfterEcho(s, t, coin, j, v)
    BY <1>0, <2>1 DEF AfterEcho
  <2>2. CASE t.echoes = s.echoes
    BY <2>2
  <2> QED
    BY <2>1, <2>2 DEF After, AfterForward, AfterPropose, AfterVote, AfterBind, AfterFirst,
       AfterSecond, AfterBindBot, AfterBindVal, AfterDecideVal, AfterDecideBot
<1>3. \A v \in Val : s.voted[v] \subseteq t.voted[v]
  <2>1. CASE \E j \in Nodes, v \in Val : AfterVote(s, t, j, v)
    BY <1>0, <2>1 DEF AfterVote
  <2>2. CASE t.voted = s.voted
    BY <2>2
  <2> QED
    BY <2>1, <2>2 DEF After, AfterForward, AfterPropose, AfterEcho, AfterBind, AfterFirst,
       AfterSecond, AfterBindBot, AfterBindVal, AfterDecideVal, AfterDecideBot
<1>4. \A v \in Decisions : s.bound[v] \subseteq t.bound[v]
  <2>1. CASE \E j \in Nodes, v \in Val : AfterBind(s, t, j, v)
    BY <1>0, <2>1 DEF AfterBind
  <2>2. CASE t.bound = s.bound
    BY <2>2
  <2> QED
    BY <2>1, <2>2 DEF After, AfterForward, AfterPropose, AfterEcho, AfterVote, AfterFirst,
       AfterSecond, AfterBindBot, AfterBindVal, AfterDecideVal, AfterDecideBot
<1>5. (s.voter # "first" => t.voter # "first") /\ (s.voter = "done" => t.voter = "done")
  BY DEF After, AfterForward, AfterPropose, AfterEcho, AfterVote, AfterBind, AfterFirst,
     AfterSecond, AfterBindBot, AfterBindVal, AfterDecideVal, AfterDecideBot, KeepsVote
<1> QED
  BY <1>1, <1>2, <1>3, <1>4, <1>5, SameNames DEF R!Forward

LEMMA StepProgresses ==
  ASSUME TypeOK, NEW i \in Correct, NEW t \in R!NodeState, After(i, t)
  PROVE  R!Progress(t) # R!Progress(node[i])
<1> DEFINE s == node[i]
<1> SUFFICES ASSUME R!Progress(t) = R!Progress(s) PROVE FALSE
  OBVIOUS
<1>1. /\ t.est = s.est /\ t.echoes = s.echoes /\ t.voted = s.voted /\ t.bound = s.bound
      /\ t.voter = s.voter /\ t.bind = s.bind /\ t.decision = s.decision
  BY ProgressParts
<1>2. /\ s \in R!NodeState /\ coin # None /\ Estimate(i) # None
      /\ s.echoes \in [Val -> SUBSET Nodes] /\ s.voted \in [Val -> SUBSET Nodes]
      /\ s.bound \in [Decisions -> SUBSET Nodes]
  BY Fields, EstimateType, Values DEF TypeOK
<1>3. CASE AfterForward(s, t, coin) \/ AfterPropose(s, t, Estimate(i))
  BY <1>1, <1>2, <1>3 DEF AfterForward, AfterPropose
<1>4. ASSUME NEW j \in Nodes, NEW v \in Val, AfterEcho(s, t, coin, j, v) PROVE FALSE
  BY <1>1, <1>2, <1>4 DEF AfterEcho
<1>5. ASSUME NEW j \in Nodes, NEW v \in Val, AfterVote(s, t, j, v) PROVE FALSE
  <2>1. j \in s.voted[v] /\ j \notin R!Voters(s)
    BY <1>1, <1>2, <1>5 DEF AfterVote
  <2> QED
    BY <2>1, SameNames DEF R!Voters
<1>6. ASSUME NEW j \in Nodes, NEW v \in Val, AfterBind(s, t, j, v) PROVE FALSE
  <2>1. j \in s.bound[v] /\ j \notin R!Binders(s)
    BY <1>1, <1>2, <1>6, Values DEF AfterBind
  <2> QED
    BY <2>1, SameNames, Values DEF R!Binders
<1>7. CASE AfterFirst(s, t) \/ AfterSecond(s, t)
  BY <1>1, <1>7 DEF AfterFirst, AfterSecond
<1>8. CASE AfterBindBot(s, t) \/ AfterDecideBot(s, t)
  BY <1>1, <1>8, Values DEF AfterBindBot, AfterDecideBot
<1>9. CASE AfterBindVal(s, t)
  <2>1. t.bind \in Val
    BY <1>2, <1>9, Fields, Received DEF AfterBindVal
  <2> QED
    BY <1>1, <1>9, <2>1, Values DEF AfterBindVal
<1>10. CASE AfterDecideVal(s, t)
  <2>1. t.decision \in Decisions
    BY <1>2, <1>10, Fields, Received DEF AfterDecideVal
  <2> QED
    BY <1>1, <1>10, <2>1, Values DEF AfterDecideVal
<1> QED
  BY <1>3, <1>4, <1>5, <1>6, <1>7, <1>8, <1>9, <1>10 DEF After

LEMMA StepGetsOn == IInv /\ [Next]_vars => [R!GetsOn]_vars
<1> SUFFICES ASSUME IInv, Next PROVE R!GetsOn
  OBVIOUS
<1>1. TypeOK /\ \A k \in Correct : LocalInv(node[k], coin)
  BY DEF IInv
<1>2. PICK i \in Correct, t \in R!NodeState : node' = [node EXCEPT ![i] = t] /\ After(i, t)
  BY <1>1, StepMoves
<1>3. node'[i] = t /\ \A k \in Correct \ {i} : node'[k] = node[k]
  BY <1>1, <1>2 DEF TypeOK
<1> QED
  BY <1>1, <1>2, <1>3, StepIsForward, StepProgresses, SameNames DEF R!GetsOn

\* No behaviour of a later round goes on for ever, whatever faulty nodes send and
\* however often; waitToVote never reads a value that it has voted for, so its loop
\* over approveValChan runs once (externalValidityBCA.go:175-195).
THEOREM EveryStepCountsHolds == Spec => EveryStepCounts
BY StepGetsOn, Invariance, PTL DEF Spec, EveryStepCounts
=============================================================================
