-------------------------------- MODULE EVBCA --------------------------------
(***************************************************************************)
(* The crusader agreement of a round after the first one                   *)
(* (src/asynchronousBinaryAgreement/externalValidityBCA.go), run by all    *)
(* the nodes of the network, with the transition from the round before it  *)
(* (round.go, mmr.go).                                                     *)
(*                                                                         *)
(* A node enters the round with what the round before agreed on, and with  *)
(* the coin of that round in the place of bot.  A node whose estimate is   *)
(* the coin is fast-forwarded: it approves and binds its estimate at once, *)
(* and never echoes it.  Otherwise it echoes, approves, votes, binds and   *)
(* decides as in the first round, but binds of bot are refused.  A node    *)
(* that decides in the round before does not propose to this one, unless   *)
(* it had decided earlier.                                                 *)
(*                                                                         *)
(* Votes, the goroutines that bind and decide, the network and the threads *)
(* are those of the first round: see IVBCA.  In this round bindValChan may *)
(* be sent to when it is full: the send blocks the invoker of the node,    *)
(* which then handles nothing more (Running).                              *)
(*                                                                         *)
(* The round before is taken at its word: what it agreed on is the same    *)
(* value wherever it is not bot.  What the nodes pass on as externally     *)
(* valid is not modelled: waitForPrevCoin, which would read it, is never   *)
(* started, and the estimate never is bot, so neither is voteOnCoin.       *)
(***************************************************************************)
EXTENDS Naturals, Sequences, FiniteSets

CONSTANTS
  Nodes,        \* every node of the network
  Faulty,       \* the nodes that need not follow the protocol
  F,            \* the fault threshold f
  Outcomes,     \* how the round before may have ended: the records
                \* [prev, coin, decided]
  FaultySends,  \* what faulty nodes send: see IVBCA
  None          \* an empty channel, nothing sent

N == Cardinality(Nodes)
Correct == Nodes \ Faulty
Val == {0, 1}
bot == 2

ASSUME NodesAssumption == IsFiniteSet(Nodes) /\ Faulty \subseteq Nodes
ASSUME ThresholdAssumption == F \in Nat /\ 3 * F < N /\ Cardinality(Faulty) <= F
ASSUME NoneAssumption == None \notin Val \cup {bot}
ASSUME FaultySendsAssumption ==
  FaultySends \in [echo : SUBSET Val, vote : SUBSET Val, bind : SUBSET (Val \cup {bot})]
ASSUME OutcomesAssumption ==
  /\ Outcomes \subseteq [prev : [Correct -> Val \cup {bot}], coin : Val, decided : SUBSET Correct]
  /\ \A o \in Outcomes : \A i, j \in Correct : o.prev[i] # bot => o.prev[j] \in {o.prev[i], bot}

VARIABLES
  node,         \* node[i]: the evbca of node i
  prev,         \* prev[i]: what crusader agreement gave node i in the round before
  coin,         \* the coin of the round before
  decided       \* the nodes that had decided in a round before that one

before == <<prev, coin, decided>>
vars == <<node, before>>

R == INSTANCE IVBCA WITH Proposals <- [i \in Nodes |-> {}]

len(S) == Cardinality(S)
newEVBCA == R!newBCA

Init ==
  /\ node = [i \in Correct |-> newEVBCA]
  /\ \E o \in Outcomes : prev = o.prev /\ coin = o.coin /\ decided = o.decided

\* The invoker of node i is not blocked by a send to bindValChan.
Running(i) == Len(node[i].bindVal) <= 1

-----------------------------------------------------------------------------
(***************************************************************************)
(* The handlers.                                                           *)
(***************************************************************************)
\* Slips in the transition between the rounds.
EstimateZero(i) == IF prev[i] = bot THEN 0 ELSE prev[i]   \* forgets the coin
EstimateBot(i) == prev[i]                                 \* keeps bot

\* Where a node goes from the round before: it decides, or it proposes.
Estimate(i) == IF prev[i] = bot THEN coin ELSE prev[i]
Proposes(i) == prev[i] # coin \/ i \in decided

fastForward(s, est) ==
  [s EXCEPT !.approveVal = Append(@, est), !.bindVal = Append(@, est)]

broadcastEcho(s, v) == [s EXCEPT !.sentEchoes = @ \cup {v}]

proposeForward(i) ==                   \* a slip: fast-forwards any estimate
  /\ Running(i)
  /\ node[i].est = None /\ Proposes(i)
  /\ node' = [node EXCEPT ![i] =
       fastForward([node[i] EXCEPT !.est = Estimate(i)], Estimate(i))]
  /\ UNCHANGED before

propose(i) ==
  LET est == Estimate(i)
      s   == [node[i] EXCEPT !.est = est]
  IN  /\ Running(i)
      /\ node[i].est = None /\ Proposes(i)
      /\ node' = [node EXCEPT ![i] =
           IF est = coin THEN fastForward(s, est) ELSE broadcastEcho(s, est)]
      /\ UNCHANGED before

\* A fast-forwarded node counts its estimate as echoed.
SentEcho(i, v) == v \in node[i].sentEchoes \/ (node[i].est = coin /\ v = coin)

submitEchoAtN(i, j, v) ==              \* a slip: waits for the faulty nodes too
  LET s == [node[i] EXCEPT !.echoes[v] = @ \cup {j}]
  IN  /\ Running(i) /\ j \notin node[i].echoes[v]
      /\ node' = [node EXCEPT ![i] =
           IF len(s.echoes[v]) = N THEN [s EXCEPT !.approveVal = Append(@, v)] ELSE s]
      /\ UNCHANGED before

submitEcho(i, j, v) ==
  LET s == [node[i] EXCEPT !.echoes[v] = @ \cup {j}]
      k == len(s.echoes[v])
      t == IF k = F + 1 /\ ~SentEcho(i, v) THEN broadcastEcho(s, v) ELSE s
  IN  /\ Running(i)
      /\ j \notin node[i].echoes[v]
      /\ node' = [node EXCEPT ![i] =
           [t EXCEPT !.approveVal = IF k = N - F THEN Append(@, v) ELSE @]]
      /\ UNCHANGED before

submitVote(i, j, v) ==
  Running(i) /\ R!submitVote(i, j, v) /\ UNCHANGED before

submitBindAny(i, j, v) ==              \* a slip: n-f binds, whatever they bind
  Running(i) /\ v \in Val /\ R!submitBindAny(i, j, v) /\ UNCHANGED before

\* Unlike in the first round, bot is not a valid bind.
submitBind(i, j, v) ==
  Running(i) /\ v \in Val /\ R!submitBind(i, j, v) /\ UNCHANGED before

-----------------------------------------------------------------------------
(***************************************************************************)
(* The goroutines.                                                         *)
(***************************************************************************)
\* Votes for the first value that is approved and goes on until the other one is,
\* however often the first one is approved again.
waitToVote(i) ==
  LET s == node[i]
      v == Head(s.approveVal)
      t == [s EXCEPT !.approveVal = Tail(@)]
  IN  /\ s.approveVal # <<>>
      /\ \/ /\ s.voter = "first"
            /\ node' = [node EXCEPT ![i] = [t EXCEPT !.voter = "second", !.vote = v]]
         \/ /\ s.voter = "second"
            /\ node' = [node EXCEPT ![i] =
                 IF v = s.vote THEN t
                 ELSE [t EXCEPT !.voter = "done", !.bindBot = @ + 1, !.terminateBot = @ + 1]]
      /\ UNCHANGED before

waitToBind(i) == R!waitToBind(i) /\ UNCHANGED before

waitToDecide(i) == R!waitToDecide(i) /\ UNCHANGED before

-----------------------------------------------------------------------------
AnyEcho(i, j) == \E v \in R!EchoesFrom(j) : submitEcho(i, j, v)
AnyVote(i, j) == \E v \in R!VotesFrom(j) : submitVote(i, j, v)
AnyBind(i, j) == \E v \in R!BindsFrom(j) : submitBind(i, j, v)

Next ==
  \E i \in Correct :
    \/ propose(i)
    \/ \E j \in Nodes : AnyEcho(i, j) \/ AnyVote(i, j) \/ AnyBind(i, j)
    \/ waitToVote(i) \/ waitToBind(i) \/ waitToDecide(i)

Spec == Init /\ [][Next]_vars

-----------------------------------------------------------------------------
(***************************************************************************)
(* Properties.                                                             *)
(***************************************************************************)
TypeOK ==
  /\ node \in [Correct -> R!NodeState]
  /\ prev \in [Correct -> Val \cup {bot}] /\ coin \in Val /\ decided \subseteq Correct

\* The round implements the crusader agreement that the rounds of MMR rely on:
\* decisions other than bot agree, and what is decided or makes way for bot was
\* proposed by a correct node, fast-forwarded or not.
CA == INSTANCE CrusaderAgreement WITH
  Enough <- (SUBSET Correct) \ {{}},
  est <- [i \in Correct |-> node[i].est],
  dec <- [i \in Correct |-> node[i].decision]
CASpec == CA!Spec

\* A value that a node decided in the round before stays decided: whoever decides
\* in this round decides the same, though the node that knows it is silent, and
\* those that were given bot only guess it by the coin (externalValidityBCA.go:95
\* "We have decided est in the previous round and know that this value will be
\* decided by all correct processes").
DecidedStays ==
  (\E i \in Correct : prev[i] = coin)
    => \A i \in Correct : node[i].decision \in {coin, None}

\* The channels have room for all that is sent to them, except for bindValChan:
\* a fast-forwarded node is sent one value by propose and may be sent another by
\* n-f votes.  The second send waits for waitToBind, and blocks the invoker for
\* good only where waitToBind took bot (externalValidityBCA.go:51-60, 102, 140).
ChannelsSuffice ==
  \A i \in Correct :
    LET s == node[i] IN
    /\ Len(s.approveVal) <= 4
    /\ Len(s.terminateVal) <= 1 /\ s.terminateBot <= 2
    /\ s.bindBot <= 1 /\ s.unblock <= 1
    /\ Len(s.bindVal) <= 2
    /\ (Len(s.bindVal) = 2 => s.est = coin)
    /\ (Len(s.bindVal) = 2 => s.bind \in {None, bot})

\* The coin is only decided where n-f nodes, faulty ones included, have it for an
\* estimate: a fast-forwarded node does not echo the coin, and no number of votes
\* and binds for it makes up for the nodes that have the other value
\* (externalValidityBCA.go:63, 98).
CoinNeedsQuorum ==
  (\E i \in Correct : node[i].decision = coin)
    => len({i \in Correct : node[i].est = coin} \cup Faulty) >= N - F

\* Every step gets a node on, as in the first round (see IVBCA): what arrives twice
\* changes nothing, and waitToVote never takes a value again that it has voted for,
\* although approveValChan has room for two of each (externalValidityBCA.go:55, 184).
EveryStepCounts == [][R!GetsOn]_vars

\* Every node that proposes has done so, and nothing is left that a correct node
\* sent and that could still make a difference to a node with a running invoker.
Quiescent ==
  \A i \in Correct :
    LET s == node[i] IN
    /\ Running(i) =>
         /\ Proposes(i) => s.est # None
         /\ \A j \in Correct :
              /\ \A v \in node[j].sentEchoes : j \in s.echoes[v] \/ len(s.echoes[v]) >= N - F
              /\ node[j].vote # None => j \in R!Voters(s) \/ s.bind # None
              /\ node[j].bind \in Val => j \in R!Binders(s) \/ s.decision # None
    /\ s.approveVal = <<>> \/ s.voter = "done"
    /\ s.bind # None \/ (s.bindBot = 0 /\ s.bindVal = <<>>)
    /\ s.decision # None \/ (s.terminateBot < 2 /\ s.terminateVal = <<>>)

\* Correct nodes that all propose the same value all decide, whatever faulty nodes
\* do and whether the value is the coin, which nobody echoes, or not
\* (externalValidityBCA.go:98).
UnanimousTermination ==
  (Quiescent /\ \E v \in Val : \A i \in Correct : Proposes(i) /\ Estimate(i) = v)
    => \A i \in Correct : node[i].decision # None

\* Every correct node decides in the round (mmr_test.go:242 waits for the decision
\* of each of the nodes, whatever they proposed).
QuiescentTermination ==
  Quiescent => \A i \in Correct : node[i].decision # None
=============================================================================
