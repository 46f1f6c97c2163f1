--------------------------------- MODULE MMR ---------------------------------
(***************************************************************************)
(* One instance of binary agreement at all nodes: the rounds of mmr and    *)
(* its termination gadget (src/asynchronousBinaryAgreement), on top of     *)
(* crusader agreement and the coin.                                        *)
(*                                                                         *)
(* In each round a node gets 0, 1 or bot from crusader agreement, then     *)
(* asks for the coin.  A value that equals the coin is decided; otherwise  *)
(* the value, or the coin in the place of bot, is the estimate of the next *)
(* round.  A node that decides does not propose to the next round.         *)
(* Decisions are broadcast, and f+1 equal ones are adopted.                *)
(*                                                                         *)
(* Threads.  The invoker of concurrentMMR runs propose and submitCoin, a   *)
(* goroutine per round execRound, another one reachDecision, and the       *)
(* invoker of the gadget submitDecision.  Rounds do not wait for each      *)
(* other: the messages of a later round can end it at a node that has not  *)
(* proposed to it or is still busy with an earlier one.                    *)
(*                                                                         *)
(* Below.  Crusader agreement is taken at its word: decisions other than   *)
(* bot agree, and what is approved was proposed by a correct node, in the  *)
(* first round by more than f nodes counting the faulty ones.  The coin of *)
(* a round is one value, known after 2f+1 nodes tossed it (CoinTosser).    *)
(***************************************************************************)
EXTENDS Naturals, Sequences, FiniteSets

CONSTANTS
  Nodes,        \* every node of the network
  Faulty,       \* the nodes that need not follow the protocol
  F,            \* the fault threshold f
  MaxRound,     \* bound: the last round in which crusader agreement decides
  None          \* not proposed, not decided, not received

ASSUME NodesAssumption == IsFiniteSet(Nodes) /\ Faulty \subseteq Nodes
ASSUME ThresholdAssumption == F \in Nat /\ Cardinality(Faulty) <= F
ASSUME RoundsAssumption == MaxRound \in Nat

Correct == Nodes \ Faulty
Val == {0, 1}
bot == 2
Round == 0 .. MaxRound

ASSUME NoneAssumption == None \notin Val \cup {bot}

VARIABLES
  node,         \* node[i]: the instance at node i
  coin          \* coin[r]: the coin of round r, once it is known

vars == <<node, coin>>

NodeState ==
  [ est        : [0 .. (MaxRound + 1) -> Val \cup {None}],  \* proposed to the rounds
    dec        : [Round -> Val \cup {bot, None}],  \* what crusader agreement gave
    coined     : SUBSET Round,                     \* the coins submitted
    hasDecided : BOOLEAN,
    reached    : Seq(Val),                         \* reachedDecision, sent so far
    received   : [Nodes -> Val \cup {None}],       \* the decisions that were counted
    adopted    : Seq(Val),                         \* the gadget's deliverDecision
    output     : Val \cup {None} ]                 \* decided, and broadcast

newMMR ==
  [ est |-> [r \in 0 .. (MaxRound + 1) |-> None], dec |-> [r \in Round |-> None],
    coined |-> {}, hasDecided |-> FALSE, reached |-> <<>>,
    received |-> [j \in Nodes |-> None], adopted |-> <<>>, output |-> None ]

Init ==
  /\ node = [i \in Correct |-> newMMR]
  /\ coin = [r \in Round |-> None]

-----------------------------------------------------------------------------
\* The application proposes to the first round.
propose(i, v) ==
  /\ node[i].est[0] = None
  /\ node' = [node EXCEPT ![i].est[0] = v]
  /\ UNCHANGED coin

\* v can be approved in round r.
Proposers(v, r) == {i \in Correct : node[i].est[r] = v}
Approvable(v, r) ==
  /\ Proposers(v, r) # {}
  /\ r = 0 => Cardinality(Proposers(v, r)) > F - Cardinality(Faulty)

\* Crusader agreement of round r gives d to node i, which asks for the coin.
decide(i, r, d) ==
  /\ node[i].dec[r] = None
  /\ d \in Val => Approvable(d, r) /\ \A k \in Correct : node[k].dec[r] # 1 - d
  /\ d = bot => \A v \in Val : Approvable(v, r)
  /\ node' = [node EXCEPT ![i].dec[r] = d]
  /\ UNCHANGED coin

\* Slips in the transition between rounds.
execRoundAnyCoin(d, c) ==              \* decides whatever the coin is
  [estimate |-> IF d = bot THEN c ELSE d, decided |-> d # bot]
execRoundZero(d, c) ==                 \* forgets the coin in the place of bot
  [estimate |-> IF d = bot THEN 0 ELSE d, decided |-> d = c]
execRoundBot(d, c) ==                  \* forgets to replace bot
  [estimate |-> d, decided |-> d = c]

\* The transition of a round in which d was agreed and c tossed.
execRound(d, c) ==
  [estimate |-> IF d = bot THEN c ELSE d, decided |-> d = c]

\* The coin of round r is known when 2f+1 nodes tossed it, faulty ones included.
CoinKnown(r) ==
  Cardinality({i \in Correct : node[i].dec[r] # None} \cup Faulty) >= 2 * F + 1

\* A slip: a node that has decided decides again.
concludeAgain(s, r, res) ==
  IF res.decided THEN [s EXCEPT !.hasDecided = TRUE, !.reached = Append(@, res.estimate)]
  ELSE [s EXCEPT !.est[r + 1] = res.estimate]

\* A node decides once; otherwise it proposes to the next round.
conclude(s, r, res) ==
  IF res.decided /\ ~s.hasDecided
  THEN [s EXCEPT !.hasDecided = TRUE, !.reached = Append(@, res.estimate)]
  ELSE [s EXCEPT !.est[r + 1] = res.estimate]

\* The coin c of round r arrives.
submitCoin(i, r, c) ==
  LET s == node[i]
  IN  /\ s.dec[r] # None /\ r \notin s.coined
      /\ CoinKnown(r) /\ coin[r] \in {None, c}
      /\ coin' = [coin EXCEPT ![r] = c]
      /\ node' = [node EXCEPT ![i] =
           [conclude(s, r, execRound(s.dec[r], c)) EXCEPT !.coined = @ \cup {r}]]

\* The channel that reachDecision reads first is taken, and the decision is
\* output and broadcast.
reachDecision(i, v) ==
  LET s == node[i]
  IN  /\ s.output = None
      /\ \/ s.reached # <<>> /\ v = Head(s.reached)
         \/ s.adopted # <<>> /\ v = Head(s.adopted)
      /\ node' = [node EXCEPT ![i].output = v]
      /\ UNCHANGED coin

results(s, v) == Cardinality({j \in Nodes : s.received[j] = v})

\* A slip in the gadget: it waits for as many decisions as end an instance.
adoptAtQuorum(s, v) ==
  IF results(s, v) = Cardinality(Nodes) - F
  THEN [s EXCEPT !.adopted = Append(@, v)] ELSE s

\* What the gadget does when a decision v has been counted.
adopt(s, v) ==
  IF results(s, v) = F + 1 THEN [s EXCEPT !.adopted = Append(@, v)] ELSE s

\* The decision v of node j is counted, once for each node.
submitDecision(i, j, v) ==
  /\ node[i].received[j] = None
  /\ j \in Correct => node[j].output = v
  /\ node' = [node EXCEPT ![i] = adopt([@ EXCEPT !.received[j] = v], v)]
  /\ UNCHANGED coin

RoundStep(i) ==
  \/ \E v \in Val : propose(i, v)
  \/ \E r \in Round, d \in Val \cup {bot} : decide(i, r, d)
  \/ \E r \in Round, c \in Val : submitCoin(i, r, c)

DecisionStep(i) ==
  \/ \E v \in Val : reachDecision(i, v)
  \/ \E j \in Nodes, v \in Val : submitDecision(i, j, v)

Next ==
  \E i \in Correct : RoundStep(i) \/ DecisionStep(i)

Spec == Init /\ [][Next]_vars

-----------------------------------------------------------------------------
(***************************************************************************)
(* Properties.                                                             *)
(***************************************************************************)
TypeOK ==
  /\ node \in [Correct -> NodeState]
  /\ coin \in [Round -> Val \cup {None}]

\* Once a value was decided in a round, it is all that correct nodes propose to
\* later rounds, those that were given bot and took the coin included, and also
\* those that get ahead of their own earlier rounds (mmr.go:100).
EstimatesLocked ==
  \A i, k \in Correct, r \in Round :
    (node[i].dec[r] \in Val /\ node[i].dec[r] = coin[r])
      => \A q \in (r + 1) .. (MaxRound + 1) : node[k].est[q] \in {None, coin[r]}

\* Every round keeps to crusader agreement: a node proposes to it once, however the
\* coins of earlier rounds arrive and although a node may go on after it decided
\* (mmr.go:105-110), and takes from it what IVBCA and EVBCA are shown to promise, for
\* the sets of proposers that they need.
CA(r) == INSTANCE CrusaderAgreement WITH
  Enough <- {S \in SUBSET Correct :
               S # {} /\ (r = 0 => Cardinality(S) > F - Cardinality(Faulty))},
  est <- [i \in Correct |-> node[i].est[r]],
  dec <- [i \in Correct |-> node[i].dec[r]]
RoundsInit == \A r \in Round : CA(r)!Init
RoundsNext == \A r \in Round : CA(r)!Next \/ UNCHANGED CA(r)!vars
RoundsAreCrusader == RoundsInit /\ [][RoundsNext]_vars

\* Nothing is sent a second time to channels of capacity 1: the invoker of the
\* rounds never blocks on reachedDecision (mmr.go:107), nor that of the gadget on
\* deliverDecision (mmrTermination.go:67), whatever faulty nodes send.
SingleDecision ==
  \A i \in Correct : Len(node[i].reached) <= 1 /\ Len(node[i].adopted) <= 1

\* The instance implements the binary agreement that BKR relies on: one
\* decision, of a value that enough correct nodes proposed.
Outputs == {node[i].output : i \in Correct} \ {None}
AnyOf(S) == IF S = {} THEN None ELSE CHOOSE v \in S : TRUE
ABA == INSTANCE BinaryAgreement WITH
  Enough   <- {S \in SUBSET Correct : Cardinality(S) > F - Cardinality(Faulty)},
  proposal <- [i \in Correct |-> node[i].est[0]],
  output   <- [i \in Correct |-> node[i].output],
  decision <- AnyOf(Outputs)
ABASpec == ABA!Spec

\* f+1 correct nodes that decide are enough for all, without any progress of the
\* rounds: when everything is handled that was decided by a node or arrived from
\* a correct one, all of them have output or at most f have (mmrTermination.go:65).
DecisionsSpread ==
  LET decided == {i \in Correct : node[i].output # None}
  IN  (/\ \A i \in Correct \ decided : node[i].reached = <<>> /\ node[i].adopted = <<>>
       /\ \A i \in Correct, j \in decided : node[i].received[j] # None)
        => decided = Correct \/ Cardinality(decided) <= F
=============================================================================
