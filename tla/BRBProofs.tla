------------------------------ MODULE BRBProofs ------------------------------
(***************************************************************************)
(* The safety of BRB for every network of more than 3f nodes, every set of *)
(* at most f faulty ones and every set of messages, and its implementation *)
(* of ReliableBroadcast.                                                   *)
(*                                                                         *)
(* The argument is the classical one of reliable broadcast: a READY of a   *)
(* correct node rests on the echoes of n-f nodes, an output on the READYs  *)
(* of n-f nodes, and any two sets of n-f nodes share a correct one, which  *)
(* echoes only once.                                                       *)
(***************************************************************************)
EXTENDS BRB, FiniteSetTheorems, TLAPS

-----------------------------------------------------------------------------
(***************************************************************************)
(* The inductive invariant.                                                *)
(***************************************************************************)
EchoQuorum(m) ==
  \E Q \in SUBSET Nodes :
    Cardinality(Q) >= N - F /\ \A j \in Q \cap Correct : node[j].echo = m

ReadyQuorum(m) ==
  \E Q \in SUBSET Nodes :
    Cardinality(Q) >= N - F /\ \A j \in Q \cap Correct : node[j].ready = m

\* The phases of a node finish in order, each with what it sent.
Ordered(s) ==
  /\ s.ph1 <=> s.echo # NoMsg
  /\ s.ph2 <=> s.ready # NoMsg
  /\ s.ph2 => s.ph1
  /\ s.output # {} => s.ph2
  /\ s.delivered # NoMsg => s.delivered \in s.output
PhasesInOrder == \A i \in Correct : Ordered(node[i])

\* What a node counted for a correct peer is what that peer broadcast.
Counted(s) ==
  \A j \in Correct :
    /\ s.echoes[j] \in {NoMsg, node[j].echo}
    /\ s.readies[j] \in {NoMsg, node[j].ready}
CountsGenuine == \A i \in Correct : Counted(node[i])

\* A correct node echoes only what the origin stands behind.
Genuine(m) == m.sender = Origin /\ (Origin \in Correct => m = broadcast)
EchoesGenuine ==
  /\ broadcast # NoMsg => broadcast.sender = Origin
  /\ \A i \in Correct : node[i].echo # NoMsg => Genuine(node[i].echo)

\* A READY rests on a quorum of echoes, an output on a quorum of READYs.
Supported ==
  \A i \in Correct, m \in Msg :
    /\ node[i].ready = m => EchoQuorum(m)
    /\ m \in node[i].output => ReadyQuorum(m)

\* A node that has not acted on a threshold has not reached it.
Below(s) ==
  s.delivered = NoMsg => \A m \in Msg :
    /\ ~s.ph1 => numEchoes(s, m) < F + 1
    /\ ~s.ph2 => numEchoes(s, m) < N - F
    /\ ~s.ph2 => numReadies(s, m) < F + 1
    /\ s.output = {} => numReadies(s, m) < N - F
BelowThreshold == \A i \in Correct : Below(node[i])

IInv ==
  /\ TypeOK
  /\ PhasesInOrder
  /\ CountsGenuine
  /\ EchoesGenuine
  /\ Supported
  /\ BelowThreshold

-----------------------------------------------------------------------------
(***************************************************************************)
(* Quorums.                                                                *)
(***************************************************************************)

\* The thresholds of the three phases are ordered: f+1 <= n-f.
LEMMA ThresholdOrder == N \in Nat /\ F \in Nat /\ F + 1 <= N - F
  <1>1. N \in Nat
    BY NodesAssumption, FS_CardinalityType DEF N
  <1>2. N > 3 * F /\ F \in Nat
    BY FaultAssumption DEF N
  <1> QED
    BY <1>1, <1>2

\* Among f+1 nodes one is correct.
LEMMA CorrectMember ==
  ASSUME NEW Q \in SUBSET Nodes, Cardinality(Q) >= F + 1
  PROVE  \E j \in Q : j \in Correct
  <1> SUFFICES ASSUME \A j \in Q : j \notin Correct
               PROVE  FALSE
    OBVIOUS
  <1>1. Q \subseteq Faulty
    BY DEF Correct
  <1>2. IsFiniteSet(Faulty)
    BY NodesAssumption, FaultAssumption, FS_Subset
  <1>3. Cardinality(Q) <= Cardinality(Faulty) /\ IsFiniteSet(Q)
    BY <1>1, <1>2, FS_Subset
  <1>4. Cardinality(Q) \in Nat /\ Cardinality(Faulty) \in Nat
    BY <1>2, <1>3, FS_CardinalityType
  <1> QED
    BY <1>3, <1>4, FaultAssumption

\* Two sets of n-f nodes share a correct node.
LEMMA QuorumsMeet ==
  ASSUME NEW P \in SUBSET Nodes, NEW Q \in SUBSET Nodes,
         Cardinality(P) >= N - F, Cardinality(Q) >= N - F
  PROVE  \E j \in P \cap Q : j \in Correct
  <1>1. IsFiniteSet(P) /\ IsFiniteSet(Q) /\ IsFiniteSet(P \cap Q)
    BY NodesAssumption, FS_Subset
  <1>2. Cardinality(P \cup Q) = Cardinality(P) + Cardinality(Q) - Cardinality(P \cap Q)
    BY <1>1, FS_Union
  <1>3. Cardinality(P \cup Q) <= N /\ IsFiniteSet(P \cup Q)
    BY NodesAssumption, FS_Subset, P \cup Q \subseteq Nodes DEF N
  <1>4. /\ Cardinality(P) \in Nat /\ Cardinality(Q) \in Nat
        /\ Cardinality(P \cap Q) \in Nat /\ Cardinality(P \cup Q) \in Nat
    BY <1>1, <1>3, FS_CardinalityType
  <1>5. N > 3 * F /\ F \in Nat /\ N \in Nat
    BY FaultAssumption, ThresholdOrder DEF N
  <1>6. Cardinality(P \cap Q) >= F + 1
    BY <1>2, <1>3, <1>4, <1>5
  <1> QED
    BY <1>6, CorrectMember, P \cap Q \in SUBSET Nodes

\* The correct nodes among n-f are at least f+1.
LEMMA QuorumCorrect ==
  ASSUME NEW Q \in SUBSET Nodes, Cardinality(Q) >= N - F
  PROVE  Cardinality(Q \cap Correct) >= F + 1
  <1>1. /\ IsFiniteSet(Q) /\ IsFiniteSet(Faulty)
        /\ IsFiniteSet(Q \cap Faulty) /\ IsFiniteSet(Q \cap Correct)
    BY NodesAssumption, FaultAssumption, FS_Subset, Q \cap Correct \subseteq Nodes
  <1>2. Q \cap Correct = Q \ Faulty
    BY DEF Correct
  <1>3. Cardinality(Q \ Faulty) = Cardinality(Q) - Cardinality(Q \cap Faulty)
    BY <1>1, FS_Difference
  <1>4. Cardinality(Q \cap Faulty) <= Cardinality(Faulty)
    BY <1>1, FS_Subset, Q \cap Faulty \subseteq Faulty
  <1>5. /\ Cardinality(Q) \in Nat /\ Cardinality(Faulty) \in Nat
        /\ Cardinality(Q \cap Faulty) \in Nat
    BY <1>1, FS_CardinalityType
  <1>6. N > 3 * F /\ F \in Nat /\ N \in Nat /\ Cardinality(Faulty) <= F
    BY FaultAssumption, ThresholdOrder DEF N
  <1>7. Cardinality(Q \ Faulty) >= F + 1
    BY <1>3, <1>4, <1>5, <1>6
  <1> QED
    BY <1>2, <1>7

\* The correct nodes are themselves a quorum.
LEMMA CorrectQuorum ==
  ASSUME NEW Q \in SUBSET Nodes, Correct \subseteq Q
  PROVE  Cardinality(Q) >= N - F
  <1>1. IsFiniteSet(Q) /\ IsFiniteSet(Faulty) /\ IsFiniteSet(Nodes \cap Faulty)
    BY NodesAssumption, FaultAssumption, FS_Subset
  <1>2. Cardinality(Nodes \ Faulty) = Cardinality(Nodes) - Cardinality(Nodes \cap Faulty)
    BY <1>1, NodesAssumption, FS_Difference
  <1>3. Nodes \cap Faulty = Faulty
    BY FaultAssumption
  <1>4. Cardinality(Correct) <= Cardinality(Q) /\ IsFiniteSet(Correct)
    BY <1>1, FS_Subset
  <1>5. Cardinality(Q) \in Nat /\ Cardinality(Faulty) \in Nat /\ Cardinality(Correct) \in Nat
    BY <1>1, <1>4, FS_CardinalityType
  <1>6. Cardinality(Correct) = N - Cardinality(Faulty)
    BY <1>2, <1>3 DEF N, Correct
  <1>7. Cardinality(Faulty) <= F
    BY FaultAssumption
  <1> QED
    BY <1>4, <1>5, <1>6, <1>7, ThresholdOrder

\* Counting the vote of a peer that was not counted yet adds one to its
\* message and nothing to the others.
LEMMA CountOne ==
  ASSUME NEW votes \in [Nodes -> MaybeMsg], NEW j \in Nodes, votes[j] = NoMsg,
         NEW m \in Msg
  PROVE  /\ Cardinality(Supporters([votes EXCEPT ![j] = m], m))
              = Cardinality(Supporters(votes, m)) + 1
         /\ \A k \in Msg \ {m} :
              Supporters([votes EXCEPT ![j] = m], k) = Supporters(votes, k)
         /\ \A k \in Msg : Cardinality(Supporters(votes, k)) \in Nat
  <1>1. \A k \in Msg : IsFiniteSet(Supporters(votes, k))
    BY NodesAssumption, FS_Subset DEF Supporters
  <1>2. j \notin Supporters(votes, m)
    BY MsgAssumption DEF Supporters
  <1>3. Supporters([votes EXCEPT ![j] = m], m) = Supporters(votes, m) \cup {j}
    BY DEF Supporters
  <1>4. \A k \in Msg \ {m} : Supporters([votes EXCEPT ![j] = m], k) = Supporters(votes, k)
    BY MsgAssumption DEF Supporters
  <1> QED
    BY <1>1, <1>2, <1>3, <1>4, FS_AddElement, FS_CardinalityType

-----------------------------------------------------------------------------
(***************************************************************************)
(* What the handlers do to the state of a node.                            *)
(***************************************************************************)

LEMMA SendEffect ==
  ASSUME NEW s \in NodeState, NEW m \in Msg, ~s.ph1
  PROVE  /\ Phase1Send(s, m) \in NodeState
         /\ Phase1Send(s, m) = [s EXCEPT !.ph1 = TRUE, !.echo = m]
  BY DEF Phase1Send, sendEcho, NodeState, MaybeMsg

\* An ECHO is counted; the node echoes it only on f+1 echoes and is ready
\* for it only on n-f.
EchoOutcome(s, t, j, m) ==
  /\ t \in NodeState
  /\ t.echoes = [s.echoes EXCEPT ![j] = m]
  /\ t.readies = s.readies /\ t.output = s.output /\ t.delivered = s.delivered
  /\ \/ t.ph1 = s.ph1 /\ t.echo = s.echo
     \/ ~s.ph1 /\ t.ph1 /\ t.echo = m /\ numEchoes(t, m) = F + 1
  /\ \/ t.ph2 = s.ph2 /\ t.ready = s.ready
     \/ ~s.ph2 /\ t.ph2 /\ t.ph1 /\ t.ready = m /\ numEchoes(t, m) = N - F
  /\ numEchoes(t, m) = F + 1 => t.ph1
  /\ (numEchoes(t, m) = N - F /\ t.ph1) => t.ph2

LEMMA EchoEffect ==
  ASSUME NEW s \in NodeState, NEW j \in Nodes, NEW m \in Msg,
         NEW t, t = Phase1Echo(countEcho(s, m, j), m)
  PROVE  EchoOutcome(s, t, j, m)
  <1> USE DEF EchoOutcome
  <1> DEFINE c == countEcho(s, m, j)
  <1>1. /\ c \in NodeState
        /\ c.echoes = [s.echoes EXCEPT ![j] = m]
        /\ c.readies = s.readies /\ c.output = s.output /\ c.delivered = s.delivered
        /\ c.ph1 = s.ph1 /\ c.echo = s.echo /\ c.ph2 = s.ph2 /\ c.ready = s.ready
    BY DEF countEcho, NodeState, MaybeMsg
  <1> HIDE DEF c
  <1> DEFINE e == sendEcho(c, m)
  <1>2. /\ e \in NodeState
        /\ e.echoes = c.echoes
        /\ e.readies = s.readies /\ e.output = s.output /\ e.delivered = s.delivered
        /\ e.ph1 /\ e.echo = m /\ e.ph2 = s.ph2 /\ e.ready = s.ready
    BY <1>1 DEF sendEcho, NodeState, MaybeMsg
  <1> HIDE DEF e
  <1>3. ASSUME NEW d \in NodeState, d.ph1, d.echoes = c.echoes, NEW r, r = Phase2Echo(d, m)
        PROVE  /\ r \in NodeState
               /\ r.echoes = d.echoes /\ r.readies = d.readies
               /\ r.output = d.output /\ r.delivered = d.delivered
               /\ r.ph1 = d.ph1 /\ r.echo = d.echo
               /\ \/ r.ph2 = d.ph2 /\ r.ready = d.ready
                  \/ ~d.ph2 /\ r.ph2 /\ r.ph1 /\ r.ready = m /\ numEchoes(r, m) = N - F
               /\ numEchoes(r, m) = N - F => r.ph2
    <2>1. CASE ~d.ph2 /\ numEchoes(d, m) = N - F
      <3>1. r = [d EXCEPT !.ph2 = TRUE, !.ready = m]
        BY <1>3, <2>1 DEF Phase2Echo, sendReady
      <3>2. r.echoes = d.echoes /\ r.ph2 /\ r.ready = m /\ r \in NodeState
        BY <3>1 DEF NodeState, MaybeMsg
      <3>3. numEchoes(r, m) = N - F
        BY <2>1, <3>2 DEF numEchoes
      <3>4. /\ r.readies = d.readies /\ r.output = d.output
            /\ r.delivered = d.delivered /\ r.ph1 = d.ph1 /\ r.echo = d.echo
        BY <3>1 DEF NodeState
      <3> QED
        BY <1>3, <2>1, <3>2, <3>3, <3>4
    <2>2. CASE ~(~d.ph2 /\ numEchoes(d, m) = N - F)
      BY <1>3, <2>2 DEF Phase2Echo
    <2> QED
      BY <2>1, <2>2
  <1>4. t = Phase1Echo(c, m)
    BY DEF c
  <1>5. CASE s.ph1
    <2>1. t = Phase2Echo(c, m)
      BY <1>1, <1>4, <1>5 DEF Phase1Echo
    <2>2. c.ph1
      BY <1>1, <1>5
    <2>3. /\ t \in NodeState
          /\ t.echoes = c.echoes /\ t.readies = c.readies
          /\ t.output = c.output /\ t.delivered = c.delivered
          /\ t.ph1 = c.ph1 /\ t.echo = c.echo
          /\ \/ t.ph2 = c.ph2 /\ t.ready = c.ready
             \/ ~c.ph2 /\ t.ph2 /\ t.ph1 /\ t.ready = m /\ numEchoes(t, m) = N - F
          /\ numEchoes(t, m) = N - F => t.ph2
      BY <1>1, <1>3, <2>1, <2>2
    <2> QED
      BY <1>1, <2>2, <2>3
  <1>6. CASE ~s.ph1 /\ numEchoes(c, m) = F + 1
    <2>1. t = Phase2Echo(e, m)
      BY <1>1, <1>4, <1>6 DEF Phase1Echo, e
    <2>2. numEchoes(t, m) = numEchoes(c, m)
      BY <1>2, <1>3, <2>1 DEF numEchoes
    <2> QED
      BY <1>1, <1>2, <1>3, <1>6, <2>1, <2>2
  <1>7. CASE ~s.ph1 /\ numEchoes(c, m) # F + 1
    BY <1>1, <1>4, <1>7 DEF Phase1Echo
  <1> QED
    BY <1>5, <1>6, <1>7

LEMMA Phase3Effect ==
  ASSUME NEW s \in NodeState, NEW m \in Msg, NEW t, t = Phase3Ready(s, m)
  PROVE  /\ t \in NodeState
         /\ t.echoes = s.echoes /\ t.readies = s.readies /\ t.delivered = s.delivered
         /\ t.ph1 = s.ph1 /\ t.echo = s.echo /\ t.ph2 = s.ph2 /\ t.ready = s.ready
         /\ numReadies(t, m) = numReadies(s, m)
         /\ \/ t.output = s.output /\ numReadies(s, m) # N - F
            \/ t.output = s.output \cup {m} /\ numReadies(s, m) = N - F
  <1>1. CASE numReadies(s, m) = N - F
    <2>1. t = [s EXCEPT !.output = @ \cup {m}]
      BY <1>1 DEF Phase3Ready
    <2>2. /\ t \in NodeState /\ t.output = s.output \cup {m}
          /\ t.echoes = s.echoes /\ t.readies = s.readies /\ t.delivered = s.delivered
          /\ t.ph1 = s.ph1 /\ t.echo = s.echo /\ t.ph2 = s.ph2 /\ t.ready = s.ready
      BY <2>1 DEF NodeState
    <2> QED
      BY <1>1, <2>2 DEF numReadies
  <1>2. CASE numReadies(s, m) # N - F
    BY <1>2 DEF Phase3Ready
  <1> QED
    BY <1>1, <1>2

LEMMA Phase2Effect ==
  ASSUME NEW s \in NodeState, NEW m \in Msg, NEW t, t = Phase2Ready(s, m)
  PROVE  /\ t \in NodeState
         /\ t.echoes = s.echoes /\ t.readies = s.readies /\ t.delivered = s.delivered
         /\ t.ph1 = s.ph1 /\ t.echo = s.echo
         /\ numReadies(t, m) = numReadies(s, m)
         /\ \/ t.ph2 = s.ph2 /\ t.ready = s.ready
            \/ ~s.ph2 /\ t.ph2 /\ t.ready = m /\ numReadies(s, m) = F + 1
         /\ \/ t.output = s.output
            \/ t.output = s.output \cup {m} /\ t.ph2 /\ numReadies(s, m) = N - F
         /\ numReadies(s, m) = F + 1 => t.ph2
         /\ (numReadies(s, m) = N - F /\ t.ph2) => m \in t.output
  <1>1. CASE s.ph2
    <2>1. t = Phase3Ready(s, m)
      BY <1>1 DEF Phase2Ready
    <2>2. t.ph2
      BY <1>1, <2>1, Phase3Effect
    <2> QED
      BY <1>1, <2>1, <2>2, Phase3Effect
  <1>2. CASE ~s.ph2 /\ numReadies(s, m) = F + 1
    <2> DEFINE r == sendReady(s, m)
    <2>1. /\ r \in NodeState
          /\ r.echoes = s.echoes /\ r.readies = s.readies /\ r.delivered = s.delivered
          /\ r.ph1 = s.ph1 /\ r.echo = s.echo /\ r.output = s.output
          /\ r.ph2 /\ r.ready = m
      BY DEF sendReady, NodeState, MaybeMsg
    <2>2. t = Phase3Ready(r, m)
      BY <1>2 DEF Phase2Ready
    <2> HIDE DEF r
    <2>3. numReadies(r, m) = numReadies(s, m)
      BY <2>1 DEF numReadies
    <2> QED
      BY <1>2, <2>1, <2>2, <2>3, Phase3Effect
  <1>3. CASE ~s.ph2 /\ numReadies(s, m) # F + 1
    BY <1>3 DEF Phase2Ready
  <1> QED
    BY <1>1, <1>2, <1>3

\* A READY is counted; the node joins it on f+1 READYs and outputs on n-f.
ReadyOutcome(s, t, j, m) ==
  /\ t \in NodeState
  /\ t.readies = [s.readies EXCEPT ![j] = m]
  /\ t.echoes = s.echoes /\ t.delivered = s.delivered
  /\ \/ t.ph1 = s.ph1 /\ t.echo = s.echo
     \/ ~s.ph1 /\ t.ph1 /\ t.echo = m /\ numReadies(t, m) = F + 1
  /\ \/ t.ph2 = s.ph2 /\ t.ready = s.ready
     \/ ~s.ph2 /\ t.ph2 /\ t.ready = m /\ numReadies(t, m) = F + 1
  /\ t.ph2 => t.ph1
  /\ \/ t.output = s.output
     \/ t.output = s.output \cup {m} /\ t.ph2 /\ numReadies(t, m) = N - F
  /\ numReadies(t, m) = F + 1 => t.ph2
  /\ (numReadies(t, m) = N - F /\ t.ph2) => m \in t.output

LEMMA ReadyEffect ==
  ASSUME NEW s \in NodeState, NEW j \in Nodes, NEW m \in Msg, s.ph2 => s.ph1,
         NEW t, t = Phase1Ready(countReady(s, m, j), m)
  PROVE  ReadyOutcome(s, t, j, m)
  <1> USE DEF ReadyOutcome
  <1> DEFINE c == countReady(s, m, j)
  <1>1. /\ c \in NodeState
        /\ c.readies = [s.readies EXCEPT ![j] = m]
        /\ c.echoes = s.echoes /\ c.output = s.output /\ c.delivered = s.delivered
        /\ c.ph1 = s.ph1 /\ c.echo = s.echo /\ c.ph2 = s.ph2 /\ c.ready = s.ready
    BY DEF countReady, NodeState, MaybeMsg
  <1>2. t = Phase1Ready(c, m)
    OBVIOUS
  <1> HIDE DEF c
  <1>3. CASE s.ph1
    <2>1. t = Phase2Ready(c, m)
      BY <1>1, <1>2, <1>3 DEF Phase1Ready
    <2>2. t.ph1
      BY <1>1, <1>3, <2>1, Phase2Effect
    <2> QED
      BY <1>1, <1>3, <2>1, <2>2, Phase2Effect
  <1>4. CASE ~s.ph1 /\ numReadies(c, m) = F + 1
    <2> DEFINE e == sendEcho(c, m)
    <2>1. /\ e \in NodeState
          /\ e.readies = c.readies
          /\ e.echoes = s.echoes /\ e.output = s.output /\ e.delivered = s.delivered
          /\ e.ph1 /\ e.echo = m /\ e.ph2 = s.ph2 /\ e.ready = s.ready
      BY <1>1 DEF sendEcho, NodeState, MaybeMsg
    <2>2. t = Phase2Ready(e, m)
      BY <1>1, <1>2, <1>4 DEF Phase1Ready
    <2> HIDE DEF e
    <2>3. numReadies(e, m) = numReadies(c, m)
      BY <2>1 DEF numReadies
    <2> QED
      BY <1>1, <1>4, <2>1, <2>2, <2>3, Phase2Effect
  <1>5. CASE ~s.ph1 /\ numReadies(c, m) # F + 1
    BY <1>1, <1>2, <1>5 DEF Phase1Ready
  <1> QED
    BY <1>3, <1>4, <1>5

-----------------------------------------------------------------------------
(***************************************************************************)
(* Initialization.                                                         *)
(***************************************************************************)
LEMMA InitInv == Init => IInv
  <1> SUFFICES ASSUME Init
               PROVE  IInv
    OBVIOUS
  <1>1. newBrbHandler \in NodeState
    BY DEF newBrbHandler, NodeState, MaybeMsg
  <1>2. \A i \in Correct : node[i] = newBrbHandler
    BY DEF Init
  <1>3. TypeOK
    BY <1>1 DEF Init, TypeOK, MaybeMsg
  <1>4. PhasesInOrder /\ EchoesGenuine /\ Supported
    BY <1>2, MsgAssumption DEF Init, PhasesInOrder, Ordered, EchoesGenuine, Supported, newBrbHandler
  <1>5. CountsGenuine
    BY <1>2 DEF CountsGenuine, Counted, newBrbHandler, Correct
  <1>6. BelowThreshold
    <2>1. \A m \in Msg : /\ Supporters(newBrbHandler.readies, m) = {}
                         /\ Supporters(newBrbHandler.echoes, m) = {}
      BY MsgAssumption DEF Supporters, newBrbHandler
    <2>2. \A m \in Msg : numReadies(newBrbHandler, m) = 0 /\ numEchoes(newBrbHandler, m) = 0
      BY <2>1, FS_EmptySet DEF numReadies, numEchoes
    <2> QED
      BY <1>2, <2>2, ThresholdOrder DEF BelowThreshold, Below
  <1> QED
    BY <1>3, <1>4, <1>5, <1>6 DEF IInv

-----------------------------------------------------------------------------
(***************************************************************************)
(* One node taking a step.  A new echo must be genuine, a new READY and a  *)
(* new output must rest on a quorum, and the node must keep its own part   *)
(* of the invariant; the rest of the invariant then follows, because what  *)
(* a node has sent never changes.                                          *)
(***************************************************************************)
LEMMA NodeStep ==
  ASSUME IInv, NEW i \in Correct, NEW t \in NodeState,
         node' = [node EXCEPT ![i] = t], broadcast' = broadcast,
         t.echo = node[i].echo \/ (node[i].echo = NoMsg /\ Genuine(t.echo)),
         t.ready = node[i].ready \/ (node[i].ready = NoMsg /\ EchoQuorum(t.ready)),
         \A m \in t.output : m \in node[i].output \/ ReadyQuorum(m),
         Ordered(t), Counted(t), Below(t)
  PROVE  IInv'
  <1>1. TypeOK'
    BY DEF IInv, TypeOK
  <1>2. node'[i] = t /\ \A k \in Correct \ {i} : node'[k] = node[k]
    BY DEF IInv, TypeOK
  <1>3. \A k \in Correct :
          /\ node[k].echo # NoMsg => node'[k].echo = node[k].echo
          /\ node[k].ready # NoMsg => node'[k].ready = node[k].ready
    BY <1>2
  <1>4. \A m \in Msg : EchoQuorum(m) => EchoQuorum(m)'
    BY <1>3, MsgAssumption DEF EchoQuorum
  <1>5. \A m \in Msg : ReadyQuorum(m) => ReadyQuorum(m)'
    BY <1>3, MsgAssumption DEF ReadyQuorum
  <1>6. PhasesInOrder'
    <2> SUFFICES ASSUME NEW k \in Correct
                 PROVE  Ordered(node'[k])
      BY DEF PhasesInOrder
    <2> QED
      BY <1>2 DEF IInv, PhasesInOrder
  <1>7. CountsGenuine'
    <2> SUFFICES ASSUME NEW k \in Correct, NEW j \in Correct
                 PROVE  /\ node'[k].echoes[j] \in {NoMsg, node'[j].echo}
                        /\ node'[k].readies[j] \in {NoMsg, node'[j].ready}
      BY DEF CountsGenuine, Counted
    <2>1. /\ node'[k].echoes[j] \in {NoMsg, node[j].echo}
          /\ node'[k].readies[j] \in {NoMsg, node[j].ready}
      BY <1>2 DEF IInv, CountsGenuine, Counted
    <2> QED
      BY <1>3, <2>1
  <1>8. EchoesGenuine'
    <2> SUFFICES ASSUME NEW k \in Correct, node'[k].echo # NoMsg
                 PROVE  Genuine(node'[k].echo)
      BY DEF EchoesGenuine, Genuine, IInv
    <2> QED
      BY <1>2 DEF IInv, EchoesGenuine
  <1>9. Supported'
    <2> SUFFICES ASSUME NEW k \in Correct, NEW m \in Msg
                 PROVE  /\ node'[k].ready = m => EchoQuorum(m)'
                        /\ m \in node'[k].output => ReadyQuorum(m)'
      BY DEF Supported
    <2>1. node'[k].ready = m => EchoQuorum(m)
      BY <1>2 DEF IInv, Supported
    <2>2. m \in node'[k].output => ReadyQuorum(m)
      BY <1>2 DEF IInv, Supported
    <2> QED
      BY <1>4, <1>5, <2>1, <2>2
  <1>10. BelowThreshold'
    <2> SUFFICES ASSUME NEW k \in Correct
                 PROVE  Below(node'[k])
      BY DEF BelowThreshold
    <2> QED
      BY <1>2 DEF IInv, BelowThreshold
  <1> QED
    BY <1>1, <1>6, <1>7, <1>8, <1>9, <1>10 DEF IInv

\* f+1 counted echoes hold a correct one, and n-f of them are a quorum.
LEMMA FromEchoes ==
  ASSUME IInv, NEW t \in NodeState, Counted(t), NEW m \in Msg
  PROVE  /\ numEchoes(t, m) >= F + 1 => Genuine(m)
         /\ numEchoes(t, m) >= N - F => EchoQuorum(m)
  <1> DEFINE Q == Supporters(t.echoes, m)
  <1>1. Q \in SUBSET Nodes /\ Cardinality(Q) = numEchoes(t, m)
    BY DEF Supporters, numEchoes
  <1>2. \A j \in Q \cap Correct : node[j].echo = m
    BY MsgAssumption DEF Supporters, Counted
  <1>3. ASSUME numEchoes(t, m) >= F + 1
        PROVE  Genuine(m)
    <2>1. PICK j \in Q : j \in Correct
      BY <1>1, <1>3, CorrectMember
    <2> QED
      BY <1>2, <2>1, MsgAssumption DEF IInv, EchoesGenuine
  <1> QED
    BY <1>1, <1>2, <1>3 DEF EchoQuorum

LEMMA FromReadies ==
  ASSUME IInv, NEW t \in NodeState, Counted(t), NEW m \in Msg
  PROVE  /\ numReadies(t, m) >= F + 1 => EchoQuorum(m)
         /\ numReadies(t, m) >= N - F => ReadyQuorum(m)
  <1> DEFINE Q == Supporters(t.readies, m)
  <1>1. Q \in SUBSET Nodes /\ Cardinality(Q) = numReadies(t, m)
    BY DEF Supporters, numReadies
  <1>2. \A j \in Q \cap Correct : node[j].ready = m
    BY MsgAssumption DEF Supporters, Counted
  <1>3. ASSUME numReadies(t, m) >= F + 1
        PROVE  EchoQuorum(m)
    <2>1. PICK j \in Q : j \in Correct
      BY <1>1, <1>3, CorrectMember
    <2> QED
      BY <1>2, <2>1 DEF IInv, Supported
  <1> QED
    BY <1>1, <1>2, <1>3 DEF ReadyQuorum

\* A message with a quorum of echoes is genuine.
LEMMA QuorumGenuine ==
  ASSUME IInv, NEW m \in Msg, EchoQuorum(m)
  PROVE  Genuine(m)
  <1>1. PICK Q \in SUBSET Nodes :
          Cardinality(Q) >= N - F /\ \A j \in Q \cap Correct : node[j].echo = m
    BY DEF EchoQuorum
  <1>2. PICK j \in Q : j \in Correct
    BY <1>1, QuorumsMeet
  <1> QED
    BY <1>1, <1>2, MsgAssumption DEF IInv, EchoesGenuine

-----------------------------------------------------------------------------
(***************************************************************************)
(* The actions.                                                            *)
(***************************************************************************)
LEMMA BRBroadcastInv ==
  ASSUME IInv, NEW c \in Contents, BRBroadcast(c)
  PROVE  IInv'
  <1>1. broadcast = NoMsg /\ node' = node /\ Origin \in Correct /\ broadcast' \in Msg
    BY MsgAssumption DEF BRBroadcast, Msg
  <1>2. \A k \in Correct : node[k].echo = NoMsg
    BY <1>1, MsgAssumption DEF IInv, TypeOK, NodeState, MaybeMsg, EchoesGenuine, Genuine
  <1>3. TypeOK' /\ PhasesInOrder' /\ CountsGenuine' /\ Supported' /\ BelowThreshold'
    BY <1>1 DEF IInv, TypeOK, MaybeMsg, PhasesInOrder, CountsGenuine, Counted,
                Supported, EchoQuorum, ReadyQuorum, BelowThreshold
  <1>4. EchoesGenuine'
    BY <1>1, <1>2 DEF EchoesGenuine, BRBroadcast
  <1> QED
    BY <1>3, <1>4 DEF IInv

LEMMA HandleSendInv ==
  ASSUME IInv, NEW i \in Correct, NEW m \in Sends, HandleSend(i, m)
  PROVE  IInv'
  <1> DEFINE s == node[i]
             t == Phase1Send(s, m)
  <1>1. s \in NodeState /\ broadcast \in MaybeMsg /\ Ordered(s) /\ Counted(s) /\ Below(s)
    BY DEF IInv, TypeOK, PhasesInOrder, CountsGenuine, BelowThreshold
  <1>2. m \in Msg /\ Genuine(m)
    <2>1. CASE Origin \in Correct
      <3>1. m = broadcast /\ broadcast # NoMsg
        BY <2>1 DEF Sends
      <3> QED
        BY <1>1, <2>1, <3>1 DEF MaybeMsg, Genuine, IInv, EchoesGenuine
    <2>2. CASE Origin \notin Correct
      BY <2>2, MsgAssumption DEF Sends, Msg, Genuine
    <2> QED
      BY <2>1, <2>2
  <1>3. ~s.ph1 /\ node' = [node EXCEPT ![i] = t] /\ broadcast' = broadcast
    BY DEF HandleSend
  <1>4. t \in NodeState /\ t = [s EXCEPT !.ph1 = TRUE, !.echo = m]
    BY <1>1, <1>2, <1>3, SendEffect
  <1>5. /\ t.ph1 /\ t.echo = m /\ t.ph2 = s.ph2 /\ t.ready = s.ready
        /\ t.echoes = s.echoes /\ t.readies = s.readies
        /\ t.output = s.output /\ t.delivered = s.delivered
    BY <1>1, <1>4 DEF NodeState
  <1>6. s.echo = NoMsg
    BY <1>1, <1>3 DEF Ordered
  <1> HIDE DEF t, s
  <1>7. Ordered(t) /\ Counted(t) /\ Below(t)
    BY <1>1, <1>2, <1>5, MsgAssumption DEF Ordered, Counted, Below, numReadies, numEchoes
  <1> QED
    BY <1>2, <1>3, <1>4, <1>5, <1>6, <1>7, NodeStep DEF s

LEMMA HandleEchoInv ==
  ASSUME IInv, NEW i \in Correct, NEW j \in Nodes, NEW m \in EchoesFrom(j),
         HandleEcho(i, j, m)
  PROVE  IInv'
  <1> DEFINE s == node[i]
             t == Phase1Echo(countEcho(s, m, j), m)
  <1>1. s \in NodeState /\ Ordered(s) /\ Counted(s) /\ Below(s)
    BY DEF IInv, TypeOK, PhasesInOrder, CountsGenuine, BelowThreshold
  <1>2. m \in Msg /\ (j \in Correct => m = node[j].echo)
    BY MsgAssumption DEF EchoesFrom, IInv, TypeOK, NodeState, MaybeMsg
  <1>3. /\ node' = [node EXCEPT ![i] = t] /\ broadcast' = broadcast
        /\ s.echoes[j] = NoMsg /\ s.delivered = NoMsg
    BY DEF HandleEcho, Open
  <1>4. EchoOutcome(s, t, j, m)
    BY <1>1, <1>2, EchoEffect
  <1> HIDE DEF t, s
  <1> USE DEF EchoOutcome
  <1>5. Counted(t)
    BY <1>1, <1>2, <1>4 DEF Counted, Correct, NodeState
  <1>6. Ordered(t)
    BY <1>1, <1>2, <1>4, MsgAssumption DEF Ordered
  <1>7. Below(t)
    <2> SUFFICES ASSUME NEW k \in Msg
                 PROVE  /\ ~t.ph1 => numEchoes(t, k) < F + 1
                        /\ ~t.ph2 => numEchoes(t, k) < N - F
                        /\ ~t.ph2 => numReadies(t, k) < F + 1
                        /\ t.output = {} => numReadies(t, k) < N - F
      BY DEF Below
    <2>1. /\ ~s.ph1 => numEchoes(s, k) < F + 1
          /\ ~s.ph2 => numEchoes(s, k) < N - F
          /\ ~s.ph2 => numReadies(s, k) < F + 1
          /\ s.output = {} => numReadies(s, k) < N - F
      BY <1>1, <1>3 DEF Below
    <2>2. (~t.ph1 => ~s.ph1) /\ (~t.ph2 => ~s.ph2) /\ t.output = s.output
      BY <1>4
    <2>3. numReadies(t, k) = numReadies(s, k)
      BY <1>4 DEF numReadies
    <2>4. s.echoes \in [Nodes -> MaybeMsg]
      BY <1>1 DEF NodeState
    <2>5. CASE k # m
      <3>1. t.echoes = [s.echoes EXCEPT ![j] = m]
        BY <1>4
      <3>2. Supporters([s.echoes EXCEPT ![j] = m], k) = Supporters(s.echoes, k)
        <4> HIDE DEF EchoOutcome
        <4> QED
          BY <1>2, <1>3, <2>4, <2>5, CountOne
      <3> QED
        BY <2>1, <2>2, <2>3, <3>1, <3>2 DEF numEchoes
    <2>6. CASE k = m
      <3>1. numEchoes(t, m) = numEchoes(s, m) + 1 /\ numEchoes(s, m) \in Nat
        BY <1>2, <1>3, <1>4, <2>4, CountOne DEF numEchoes
      <3>2. ~t.ph1 => numEchoes(t, m) < F + 1
        BY <1>4, <2>1, <2>2, <2>6, <3>1, ThresholdOrder
      <3>3. ~t.ph2 => numEchoes(t, m) < N - F
        BY <1>4, <2>1, <2>2, <2>6, <3>1, <3>2, ThresholdOrder
      <3> QED
        BY <2>1, <2>2, <2>3, <2>6, <3>2, <3>3
    <2> QED
      BY <2>5, <2>6
  <1>8. t.echo = s.echo \/ (s.echo = NoMsg /\ Genuine(t.echo))
    BY <1>1, <1>2, <1>4, <1>5, FromEchoes, ThresholdOrder DEF Ordered
  <1>9. t.ready = s.ready \/ (s.ready = NoMsg /\ EchoQuorum(t.ready))
    BY <1>1, <1>2, <1>4, <1>5, FromEchoes, ThresholdOrder DEF Ordered
  <1> QED
    BY <1>3, <1>4, <1>5, <1>6, <1>7, <1>8, <1>9, NodeStep DEF s

LEMMA HandleReadyInv ==
  ASSUME IInv, NEW i \in Correct, NEW j \in Nodes, NEW m \in ReadiesFrom(j),
         HandleReady(i, j, m)
  PROVE  IInv'
  <1> DEFINE s == node[i]
             t == Phase1Ready(countReady(s, m, j), m)
  <1>1. s \in NodeState /\ Ordered(s) /\ Counted(s) /\ Below(s)
    BY DEF IInv, TypeOK, PhasesInOrder, CountsGenuine, BelowThreshold
  <1>2. m \in Msg /\ (j \in Correct => m = node[j].ready)
    BY MsgAssumption DEF ReadiesFrom, IInv, TypeOK, NodeState, MaybeMsg
  <1>3. /\ node' = [node EXCEPT ![i] = t] /\ broadcast' = broadcast
        /\ s.readies[j] = NoMsg /\ s.delivered = NoMsg
    BY DEF HandleReady, Open
  <1>4. ReadyOutcome(s, t, j, m)
    <2>1. s.ph2 => s.ph1
      BY <1>1 DEF Ordered
    <2> QED
      BY <1>1, <1>2, <2>1, ReadyEffect
  <1> HIDE DEF t, s
  <1> USE DEF ReadyOutcome
  <1>5. Counted(t)
    BY <1>1, <1>2, <1>4 DEF Counted, Correct, NodeState
  <1>6. Ordered(t)
    BY <1>1, <1>2, <1>4, MsgAssumption DEF Ordered
  <1>7. Below(t)
    <2>0. \A k \in Msg : /\ ~t.ph1 => numEchoes(t, k) < F + 1
                         /\ ~t.ph2 => numEchoes(t, k) < N - F
      BY <1>1, <1>3, <1>4 DEF Below, numEchoes
    <2> SUFFICES ASSUME NEW k \in Msg
                 PROVE  /\ ~t.ph2 => numReadies(t, k) < F + 1
                        /\ t.output = {} => numReadies(t, k) < N - F
      BY <2>0 DEF Below
    <2>1. /\ ~s.ph2 => numReadies(s, k) < F + 1
          /\ s.output = {} => numReadies(s, k) < N - F
      BY <1>1, <1>3 DEF Below
    <2>2. (~t.ph2 => ~s.ph2) /\ (t.output = {} => s.output = {})
      BY <1>4
    <2>3. s.readies \in [Nodes -> MaybeMsg]
      BY <1>1 DEF NodeState
    <2>4. CASE k # m
      <3>1. Supporters(t.readies, k) = Supporters(s.readies, k)
        BY <1>2, <1>3, <1>4, <2>3, <2>4, CountOne
      <3> QED
        BY <2>1, <2>2, <3>1 DEF numReadies
    <2>5. CASE k = m
      <3>1. numReadies(t, m) = numReadies(s, m) + 1 /\ numReadies(s, m) \in Nat
        BY <1>2, <1>3, <1>4, <2>3, CountOne DEF numReadies
      <3> QED
        BY <1>4, <2>1, <2>2, <2>5, <3>1, ThresholdOrder
    <2> QED
      BY <2>4, <2>5
  <1>8. t.echo = s.echo \/ (s.echo = NoMsg /\ Genuine(t.echo))
    BY <1>1, <1>2, <1>4, <1>5, FromReadies, QuorumGenuine, ThresholdOrder DEF Ordered
  <1>9. t.ready = s.ready \/ (s.ready = NoMsg /\ EchoQuorum(t.ready))
    BY <1>1, <1>2, <1>4, <1>5, FromReadies, ThresholdOrder DEF Ordered
  <1>10. \A k \in t.output : k \in s.output \/ ReadyQuorum(k)
    BY <1>1, <1>2, <1>4, <1>5, FromReadies, ThresholdOrder
  <1> QED
    BY <1>3, <1>4, <1>5, <1>6, <1>7, <1>8, <1>9, <1>10, NodeStep DEF s

LEMMA ProcessOutputInv ==
  ASSUME IInv, NEW i \in Correct, NEW m \in node[i].output, ProcessOutput(i, m)
  PROVE  IInv'
  <1> DEFINE s == node[i]
             t == [s EXCEPT !.delivered = m, !.echoes = newBrbHandler.echoes,
                            !.readies = newBrbHandler.readies]
  <1>1. s \in NodeState /\ Ordered(s) /\ Counted(s) /\ Below(s)
    BY DEF IInv, TypeOK, PhasesInOrder, CountsGenuine, BelowThreshold
  <1>2. m \in Msg
    BY <1>1 DEF NodeState
  <1>3. node' = [node EXCEPT ![i] = t] /\ broadcast' = broadcast
    BY DEF ProcessOutput, IInv, TypeOK
  <1>4. newBrbHandler.echoes = [k \in Nodes |-> NoMsg]
        /\ newBrbHandler.readies = [k \in Nodes |-> NoMsg]
    BY DEF newBrbHandler
  <1>5. /\ t \in NodeState /\ t.delivered = m
        /\ t.echoes = [k \in Nodes |-> NoMsg] /\ t.readies = [k \in Nodes |-> NoMsg]
        /\ t.ph1 = s.ph1 /\ t.echo = s.echo /\ t.ph2 = s.ph2 /\ t.ready = s.ready
        /\ t.output = s.output
    BY <1>1, <1>2, <1>4 DEF NodeState, MaybeMsg
  <1> HIDE DEF t
  <1>6. Ordered(t) /\ Counted(t) /\ Below(t)
    BY <1>1, <1>2, <1>5, MsgAssumption DEF Ordered, Counted, Below, Correct
  <1> QED
    BY <1>3, <1>5, <1>6, NodeStep

LEMMA NextInv == IInv /\ [Next]_vars => IInv'
  <1> SUFFICES ASSUME IInv, [Next]_vars
               PROVE  IInv'
    OBVIOUS
  <1>1. CASE \E c \in Contents : BRBroadcast(c)
    BY <1>1, BRBroadcastInv
  <1>2. ASSUME NEW i \in Correct, AnySend(i)
        PROVE  IInv'
    BY <1>2, HandleSendInv DEF AnySend
  <1>3. ASSUME NEW i \in Correct, NEW j \in Nodes, AnyEcho(i, j)
        PROVE  IInv'
    BY <1>3, HandleEchoInv DEF AnyEcho
  <1>4. ASSUME NEW i \in Correct, NEW j \in Nodes, AnyReady(i, j)
        PROVE  IInv'
    BY <1>4, HandleReadyInv DEF AnyReady
  <1>5. ASSUME NEW i \in Correct, AnyOutput(i)
        PROVE  IInv'
    BY <1>5, ProcessOutputInv DEF AnyOutput
  <1>6. CASE UNCHANGED vars
    BY <1>6 DEF vars, IInv, TypeOK, PhasesInOrder, CountsGenuine, Counted, EchoesGenuine,
                Genuine, Supported, EchoQuorum, ReadyQuorum, BelowThreshold
  <1> QED
    BY <1>1, <1>2, <1>3, <1>4, <1>5, <1>6 DEF Next

\* The inductive invariant holds of every behaviour of the protocol.
THEOREM Invariance == Spec => []IInv
  BY InitInv, NextInv, PTL DEF Spec

\* The state of every correct node keeps its type.
THEOREM TypeCorrect == Spec => []TypeOK
  <1>1. IInv => TypeOK
    BY DEF IInv
  <1> QED
    BY <1>1, Invariance, PTL

-----------------------------------------------------------------------------
(***************************************************************************)
(* The consequences.                                                       *)
(***************************************************************************)
LEMMA OneEchoQuorum ==
  ASSUME NEW m, NEW k, EchoQuorum(m), EchoQuorum(k)
  PROVE  m = k
  <1>1. PICK P \in SUBSET Nodes :
          Cardinality(P) >= N - F /\ \A j \in P \cap Correct : node[j].echo = m
    BY DEF EchoQuorum
  <1>2. PICK Q \in SUBSET Nodes :
          Cardinality(Q) >= N - F /\ \A j \in Q \cap Correct : node[j].echo = k
    BY DEF EchoQuorum
  <1>3. PICK j \in P \cap Q : j \in Correct
    BY <1>1, <1>2, QuorumsMeet
  <1> QED
    BY <1>1, <1>2, <1>3

\* What a correct node outputs was readied by a correct node.
LEMMA OutputQuorum ==
  ASSUME IInv, NEW i \in Correct, NEW m \in node[i].output
  PROVE  m \in Msg /\ EchoQuorum(m)
  <1>1. m \in Msg /\ ReadyQuorum(m)
    BY DEF IInv, TypeOK, NodeState, Supported
  <1>2. PICK Q \in SUBSET Nodes :
          Cardinality(Q) >= N - F /\ \A j \in Q \cap Correct : node[j].ready = m
    BY <1>1 DEF ReadyQuorum
  <1>3. PICK j \in Q : j \in Correct
    BY <1>2, QuorumsMeet
  <1> QED
    BY <1>1, <1>2, <1>3 DEF IInv, Supported

LEMMA AgreementLemma == IInv => ReadyAgreement /\ SingleOutput /\ Consistency /\ Integrity
  <1> SUFFICES ASSUME IInv
               PROVE  ReadyAgreement /\ SingleOutput /\ Consistency /\ Integrity
    OBVIOUS
  <1>1. ReadyAgreement
    BY OneEchoQuorum DEF ReadyAgreement, IInv, Supported, TypeOK, NodeState, MaybeMsg
  <1>2. ASSUME NEW i \in Correct
        PROVE  Cardinality(node[i].output) <= 1
    <2>1. CASE node[i].output = {}
      BY <2>1, FS_EmptySet
    <2>2. CASE node[i].output # {}
      <3>1. PICK m : m \in node[i].output
        BY <2>2
      <3>2. node[i].output = {m}
        BY <3>1, OutputQuorum, OneEchoQuorum
      <3> QED
        BY <3>2, FS_Singleton
    <2> QED
      BY <2>1, <2>2
  <1>3. \A i \in Correct : ~Open(i) => node[i].delivered \in node[i].output
    BY DEF Open, IInv, PhasesInOrder, Ordered
  <1>4. Consistency
    BY <1>3, OutputQuorum, OneEchoQuorum DEF Consistency
  <1>5. Integrity
    BY <1>3, OutputQuorum, QuorumGenuine DEF Integrity, Genuine
  <1> QED
    BY <1>1, <1>2, <1>4, <1>5 DEF SingleOutput

\* No two correct nodes deliver different messages (phase3.go:33), for every
\* n > 3f and whatever the faulty nodes, the origin included, send.
THEOREM ConsistencyHolds == Spec => []Consistency
  BY Invariance, AgreementLemma, PTL

\* What is delivered comes from the origin, and is what it broadcast when it
\* is correct: f faulty echoers forge nothing (phase1.go:51).
THEOREM IntegrityHolds == Spec => []Integrity
  BY Invariance, AgreementLemma, PTL

\* No two correct nodes broadcast READY for different messages (phase2.go:37).
THEOREM ReadyAgreementHolds == Spec => []ReadyAgreement
  BY Invariance, AgreementLemma, PTL

\* The invoker of an instance never blocks on a second output (phase3.go:39).
THEOREM SingleOutputHolds == Spec => []SingleOutput
  BY Invariance, AgreementLemma, PTL

-----------------------------------------------------------------------------
(***************************************************************************)
(* Totality.  The n-f READYs behind the first delivery include those of    *)
(* f+1 correct nodes.  When they have all arrived, every correct node has  *)
(* joined them, and when those READYs have arrived as well every correct   *)
(* node has counted n-f.                                                   *)
(***************************************************************************)
LEMMA TotalityLemma == IInv => QuiescentTotality
  <1> SUFFICES ASSUME IInv, Quiescent,
                      NEW i \in Correct, NEW k \in Correct, ~Open(i), Open(k)
               PROVE  FALSE
    BY DEF QuiescentTotality
  <1> DEFINE m == node[i].delivered
             s == node[k]
  <1>1. m \in node[i].output /\ m \in Msg /\ ReadyQuorum(m)
    BY DEF Open, IInv, PhasesInOrder, Ordered, Supported, TypeOK, NodeState
  <1>2. PICK Q \in SUBSET Nodes :
          Cardinality(Q) >= N - F /\ \A j \in Q \cap Correct : node[j].ready = m
    BY <1>1 DEF ReadyQuorum
  <1>3. ASSUME NEW l \in Correct, Open(l), NEW j \in Correct, node[j].ready = m
        PROVE  node[l].readies[j] = m
    BY <1>1, <1>3, MsgAssumption DEF Quiescent, IInv, CountsGenuine, Counted
  <1>4. ASSUME NEW l \in Correct
        PROVE  node[l].ph2
    <2>1. CASE ~Open(l)
      BY <2>1 DEF Open, IInv, PhasesInOrder, Ordered
    <2>2. CASE Open(l)
      <3>1. Q \cap Correct \subseteq Supporters(node[l].readies, m)
        BY <1>2, <1>3, <2>2 DEF Supporters
      <3>2. IsFiniteSet(Supporters(node[l].readies, m))
        BY NodesAssumption, FS_Subset DEF Supporters
      <3>3. Cardinality(Q \cap Correct) <= Cardinality(Supporters(node[l].readies, m))
        BY <3>1, <3>2, FS_Subset
      <3>4. Cardinality(Q \cap Correct) \in Nat
            /\ Cardinality(Supporters(node[l].readies, m)) \in Nat
        BY <3>1, <3>2, FS_Subset, FS_CardinalityType
      <3>5. numReadies(node[l], m) >= F + 1
        BY <1>2, <3>3, <3>4, QuorumCorrect, ThresholdOrder DEF numReadies
      <3>6. ~node[l].ph2 => numReadies(node[l], m) < F + 1
        BY <1>1, <2>2 DEF IInv, BelowThreshold, Below, Open
      <3> QED
        BY <3>4, <3>5, <3>6, ThresholdOrder DEF numReadies
    <2> QED
      BY <2>1, <2>2
  <1>5. PICK q \in Q : q \in Correct
    BY <1>2, QuorumsMeet
  <1>6. \A l \in Correct : node[l].ready = m
    <2>1. ReadyAgreement
      BY AgreementLemma
    <2>2. \A l \in Correct : node[l].ready # NoMsg
      BY <1>4 DEF IInv, PhasesInOrder, Ordered
    <2> QED
      BY <1>2, <1>5, <2>1, <2>2 DEF ReadyAgreement
  <1>7. Correct \subseteq Supporters(s.readies, m)
    BY <1>3, <1>6 DEF Supporters, Correct
  <1>8. numReadies(s, m) >= N - F
    BY <1>7, CorrectQuorum DEF numReadies, Supporters
  <1>9. s.output = {} /\ numReadies(s, m) < N - F
    BY <1>1 DEF Quiescent, IInv, BelowThreshold, Below, Open
  <1>10. numReadies(s, m) \in Nat
    BY NodesAssumption, FS_Subset, FS_CardinalityType DEF numReadies, Supporters
  <1> QED
    BY <1>8, <1>9, <1>10, ThresholdOrder

\* When no message of a correct node is left to handle, the correct nodes
\* have all delivered or none has (phase2.go:56, channel.go:107).
THEOREM TotalityHolds == Spec => []QuiescentTotality
  BY Invariance, TotalityLemma, PTL

\* The echoes of the correct nodes make everybody ready, their READYs make
\* everybody deliver.
LEMMA ValidityLemma == IInv => QuiescentValidity
  <1> SUFFICES ASSUME IInv, Quiescent, broadcast # NoMsg, Origin \in Correct, NEW k \in Correct
               PROVE  node[k].delivered = broadcast
    BY DEF QuiescentValidity
  <1> DEFINE m == broadcast
  <1>1. m \in Msg /\ m # NoMsg
    BY DEF IInv, TypeOK, MaybeMsg
  <1>2. \A l \in Correct : Open(l) \/ (node[l].ph1 /\ node[l].ph2 /\ node[l].delivered = m)
    <2>1. Integrity
      BY AgreementLemma
    <2> QED
      BY <2>1 DEF Integrity, Open, IInv, PhasesInOrder, Ordered
  <1>3. \A l \in Correct : node[l].echo = m
    <2>1. \A l \in Correct : node[l].ph1
      BY <1>2 DEF Quiescent
    <2> QED
      BY <2>1 DEF IInv, PhasesInOrder, Ordered, EchoesGenuine, Genuine
  <1>4. ASSUME NEW l \in Correct
        PROVE  node[l].ph2
    <2> SUFFICES ASSUME Open(l), ~node[l].ph2
                 PROVE  FALSE
      BY <1>2
    <2>1. \A j \in Correct : node[l].echoes[j] = m
      BY <1>1, <1>3 DEF Quiescent, IInv, CountsGenuine, Counted
    <2>2. Correct \subseteq Supporters(node[l].echoes, m)
      BY <2>1 DEF Supporters, Correct
    <2>3. numEchoes(node[l], m) >= N - F
      BY <2>2, CorrectQuorum DEF numEchoes, Supporters
    <2>4. numEchoes(node[l], m) < N - F
      BY <1>1 DEF IInv, BelowThreshold, Below, Open
    <2>5. numEchoes(node[l], m) \in Nat
      BY NodesAssumption, FS_Subset, FS_CardinalityType DEF numEchoes, Supporters
    <2> QED
      BY <2>3, <2>4, <2>5, ThresholdOrder
  <1>5. \A l \in Correct : node[l].ready = m
    <2> SUFFICES ASSUME NEW l \in Correct
                 PROVE  node[l].ready = m
      OBVIOUS
    <2>1. node[l].ready \in Msg
      BY <1>4 DEF IInv, TypeOK, NodeState, MaybeMsg, PhasesInOrder, Ordered
    <2>2. PICK Q \in SUBSET Nodes :
            Cardinality(Q) >= N - F /\ \A j \in Q \cap Correct : node[j].echo = node[l].ready
      BY <2>1 DEF IInv, Supported, EchoQuorum
    <2>3. PICK j \in Q : j \in Correct
      BY <2>2, QuorumsMeet
    <2> QED
      BY <1>3, <2>2, <2>3
  <1>6. CASE Open(k)
    <2>1. \A j \in Correct : node[k].readies[j] = m
      BY <1>1, <1>5, <1>6 DEF Quiescent, IInv, CountsGenuine, Counted
    <2>2. Correct \subseteq Supporters(node[k].readies, m)
      BY <2>1 DEF Supporters, Correct
    <2>3. numReadies(node[k], m) >= N - F
      BY <2>2, CorrectQuorum DEF numReadies, Supporters
    <2>4. numReadies(node[k], m) < N - F
      BY <1>1, <1>6 DEF Quiescent, IInv, BelowThreshold, Below, Open
    <2>5. numReadies(node[k], m) \in Nat
      BY NodesAssumption, FS_Subset, FS_CardinalityType DEF numReadies, Supporters
    <2> QED
      BY <2>3, <2>4, <2>5, ThresholdOrder
  <1> QED
    BY <1>2, <1>6

\* When no message of a correct node is left to handle, what a correct origin
\* broadcast is delivered everywhere (phase1.go:60, phase2.go:37, phase3.go:33).
THEOREM ValidityHolds == Spec => []QuiescentValidity
  BY Invariance, ValidityLemma, PTL

-----------------------------------------------------------------------------
(***************************************************************************)
(* Refinement.                                                             *)
(***************************************************************************)
LEMMA RefinesInit == Init => RB!Init
  BY DEF Init, RB!Init, newBrbHandler

LEMMA RefinesStep == IInv /\ [Next]_vars => [RB!Next]_(RB!vars)
  <1> SUFFICES ASSUME IInv, [Next]_vars
               PROVE  [RB!Next]_(RB!vars)
    OBVIOUS
  <1>1. node \in [Correct -> NodeState]
    BY DEF IInv, TypeOK
  <1>2. CASE \E c \in Contents : BRBroadcast(c)
    <2>1. PICK c \in Contents : BRBroadcast(c)
      BY <1>2
    <2>2. [sender |-> Origin, content |-> c] \in Msg
      BY MsgAssumption DEF Msg
    <2>3. RB!Broadcast([sender |-> Origin, content |-> c])
      BY <2>1 DEF BRBroadcast, RB!Broadcast
    <2> QED
      BY <2>2, <2>3 DEF RB!Next
  <1>3. ASSUME NEW i \in Correct, NEW t \in NodeState, broadcast' = broadcast,
               node' = [node EXCEPT ![i] = t], t.delivered = node[i].delivered
        PROVE  UNCHANGED RB!vars
    BY <1>1, <1>3 DEF RB!vars
  <1>4. ASSUME NEW i \in Correct, AnySend(i)
        PROVE  UNCHANGED RB!vars
    <2>1. PICK m \in Sends : HandleSend(i, m)
      BY <1>4 DEF AnySend
    <2> QED
      BY <1>1, <2>1 DEF HandleSend, Phase1Send, sendEcho, NodeState, RB!vars
  <1>5. ASSUME NEW i \in Correct, NEW j \in Nodes, AnyEcho(i, j)
        PROVE  UNCHANGED RB!vars
    <2>1. PICK m \in EchoesFrom(j) : HandleEcho(i, j, m)
      BY <1>5 DEF AnyEcho
    <2>2. m \in Msg
      BY MsgAssumption DEF EchoesFrom, IInv, TypeOK, NodeState, MaybeMsg
    <2>3. node[i] \in NodeState
      BY <1>1
    <2>4. PICK t : t = Phase1Echo(countEcho(node[i], m, j), m)
      OBVIOUS
    <2>5. EchoOutcome(node[i], t, j, m)
      BY <2>2, <2>3, <2>4, EchoEffect
    <2>6. t \in NodeState /\ t.delivered = node[i].delivered
      BY <2>5 DEF EchoOutcome
    <2>7. node' = [node EXCEPT ![i] = t] /\ broadcast' = broadcast
      BY <2>1, <2>4 DEF HandleEcho
    <2> QED
      BY <1>3, <2>6, <2>7
  <1>6. ASSUME NEW i \in Correct, NEW j \in Nodes, AnyReady(i, j)
        PROVE  UNCHANGED RB!vars
    <2>1. PICK m \in ReadiesFrom(j) : HandleReady(i, j, m)
      BY <1>6 DEF AnyReady
    <2>2. m \in Msg /\ (node[i].ph2 => node[i].ph1)
      BY MsgAssumption DEF ReadiesFrom, IInv, TypeOK, NodeState, MaybeMsg, PhasesInOrder, Ordered
    <2>3. node[i] \in NodeState
      BY <1>1
    <2>4. PICK t : t = Phase1Ready(countReady(node[i], m, j), m)
      OBVIOUS
    <2>5. ReadyOutcome(node[i], t, j, m)
      BY <2>2, <2>3, <2>4, ReadyEffect
    <2>6. t \in NodeState /\ t.delivered = node[i].delivered
      BY <2>5 DEF ReadyOutcome
    <2>7. node' = [node EXCEPT ![i] = t] /\ broadcast' = broadcast
      BY <2>1, <2>4 DEF HandleReady
    <2> QED
      BY <1>3, <2>6, <2>7
  <1>7. ASSUME NEW i \in Correct, AnyOutput(i)
        PROVE  RB!Next
    <2>1. PICK m \in node[i].output : ProcessOutput(i, m)
      BY <1>7 DEF AnyOutput
    <2>2. m \in Msg /\ EchoQuorum(m)
      BY OutputQuorum
    <2>3. Genuine(m)
      BY <2>2, QuorumGenuine
    <2>4. \A j \in Correct : node[j].delivered \in {NoMsg, m}
      BY <2>2, OutputQuorum, OneEchoQuorum DEF IInv, PhasesInOrder, Ordered
    <2>5. [k \in Correct |-> node'[k].delivered]
            = [[k \in Correct |-> node[k].delivered] EXCEPT ![i] = m]
      BY <1>1, <2>1 DEF ProcessOutput, NodeState
    <2>6. RB!Deliver(i, m)
      BY <2>1, <2>3, <2>4, <2>5 DEF RB!Deliver, ProcessOutput, Open, Genuine
    <2> QED
      BY <2>2, <2>6 DEF RB!Next
  <1>8. CASE UNCHANGED vars
    BY <1>8 DEF vars, RB!vars
  <1> QED
    BY <1>2, <1>4, <1>5, <1>6, <1>7, <1>8 DEF Next

\* Every behaviour of the protocol is a behaviour of the abstract broadcast
\* that the BKRChannel above it relies on.
THEOREM Refinement == Spec => RBSpec
  BY Invariance, RefinesInit, RefinesStep, PTL DEF Spec, RBSpec, RB!Spec
=============================================================================
