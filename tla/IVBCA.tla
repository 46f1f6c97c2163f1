-------------------------------- MODULE IVBCA --------------------------------
(***************************************************************************)
(* The binding crusader agreement of the first round of binary agreement   *)
(* (src/asynchronousBinaryAgreement/internalValidityBCA.go), run by all    *)
(* the nodes of the network.                                               *)
(*                                                                         *)
(* A node echoes its estimate, and any value that f+1 nodes echo.  A value *)
(* with n-f echoes is approved; the node votes for the first value it      *)
(* approves, binds a value with n-f votes, or bot once both values are     *)
(* approved, and decides on n-f binds.                                     *)
(*                                                                         *)
(* Threads.  The handlers of a node run one at a time in the invoker of    *)
(* its concurrentMMR and never wait for the goroutines waitToVote,         *)
(* waitToBind and waitToDecide: they talk to them over buffered channels.  *)
(* Each handler is one step and so is each receive of a goroutine with     *)
(* what it does until the next one (a send to a channel with room for it   *)
(* can be done early: it only enables more); a select takes any channel    *)
(* that has something.  A send to a full channel would stop the invoker:   *)
(* channels are unbounded here, and ChannelsSuffice says that their        *)
(* capacities are never exceeded.                                          *)
(*                                                                         *)
(* Network.  What a node handed to bcastEchoChan, bcastVoteChan and        *)
(* bcastBindChan is broadcast to everybody (mmr.listenRequests,            *)
(* abaNetworkedInstance.listener), one goroutine per message, so messages  *)
(* arrive in any order.  A faulty node may send each node anything.  A     *)
(* repeated message is an error return that changes nothing.               *)
(***************************************************************************)
EXTENDS Naturals, Sequences, FiniteSets

CONSTANTS
  Nodes,        \* every node of the network
  Faulty,       \* the nodes that need not follow the protocol
  F,            \* the fault threshold f
  Proposals,    \* Proposals[i]: the estimates node i may propose
  FaultySends,  \* what faulty nodes send: the values of their echoes, votes
                \* and binds, each of which goes to whom they like
  None          \* an empty channel, nothing sent

ASSUME NodesAssumption == IsFiniteSet(Nodes) /\ Faulty \subseteq Nodes
ASSUME ThresholdAssumption ==
  F \in Nat /\ 3 * F < Cardinality(Nodes) /\ Cardinality(Faulty) <= F

N == Cardinality(Nodes)
Correct == Nodes \ Faulty
Val == {0, 1}
bot == 2
Decisions == Val \cup {bot}

ASSUME NoneAssumption == None \notin Decisions
ASSUME ProposalsAssumption == \A i \in Correct : Proposals[i] \subseteq Val
ASSUME FaultySendsAssumption ==
  FaultySends \in [echo : SUBSET Val, vote : SUBSET Val, bind : SUBSET Decisions]

VARIABLE node   \* node[i]: the ivbca of node i
vars == <<node>>

NodeState ==
  [ est        : Val \cup {None},            \* what was proposed
    echoes     : [Val -> SUBSET Nodes],      \* who echoed,
    voted      : [Val -> SUBSET Nodes],      \* voted for
    bound      : [Decisions -> SUBSET Nodes],\* and bound each value
    sentEchoes : SUBSET Val,                 \* what the node echoed,
    vote       : Val \cup {None},            \* voted for
    bind       : Decisions \cup {None},      \* and bound
    approveVal : Seq(Val),                   \* the channels
    bindBot    : Nat,
    bindVal    : Seq(Val),
    terminateBot : Nat,
    terminateVal : Seq(Decisions),
    unblock    : Nat,
    voter      : {"first", "second", "done"},  \* where waitToVote is
    decision   : Decisions \cup {None} ]

newBCA ==
  [ est |-> None,
    echoes |-> [v \in Val |-> {}], voted |-> [v \in Val |-> {}],
    bound |-> [v \in Decisions |-> {}],
    sentEchoes |-> {}, vote |-> None, bind |-> None,
    approveVal |-> <<>>, bindBot |-> 0, bindVal |-> <<>>,
    terminateBot |-> 0, terminateVal |-> <<>>, unblock |-> 0,
    voter |-> "first", decision |-> None ]

Init == node = [i \in Correct |-> newBCA]

len(S) == Cardinality(S)
Voters(s)  == UNION {s.voted[v] : v \in Val}
Binders(s) == UNION {s.bound[v] : v \in Decisions}

-----------------------------------------------------------------------------
(***************************************************************************)
(* The handlers.                                                           *)
(***************************************************************************)
propose(i, v) ==
  /\ node[i].est = None
  /\ node' = [node EXCEPT ![i].est = v, ![i].sentEchoes = @ \cup {v}]

\* What peer j has sent: a faulty peer may send anything.
EchoesFrom(j) == IF j \in Correct THEN node[j].sentEchoes ELSE FaultySends.echo
VotesFrom(j)  == IF j \in Correct THEN {node[j].vote} \ {None} ELSE FaultySends.vote
BindsFrom(j)  == IF j \in Correct THEN {node[j].bind} \ {None} ELSE FaultySends.bind

\* Slips in the handlers that the properties at the end would catch.
submitVoteAtFPlus1(i, j, v) ==         \* binds on f+1 votes
  LET s == [node[i] EXCEPT !.voted[v] = @ \cup {j}]
  IN  /\ j \notin Voters(node[i])
      /\ node' = [node EXCEPT ![i] =
           [s EXCEPT !.bindVal = IF len(s.voted[v]) = F + 1 THEN Append(@, v) ELSE @]]
submitBindRule(i, j, v, val(_)) ==
  LET s == [node[i] EXCEPT !.bound[v] = @ \cup {j}]
      k == len(Binders(s))
  IN  /\ j \notin Binders(node[i])
      /\ node' = [node EXCEPT ![i] =
           IF k = N - F THEN [s EXCEPT !.terminateVal = Append(@, val(k))] ELSE s]
submitBindAtLeast(i, j, v) ==          \* decides again after n-f
  LET s == [node[i] EXCEPT !.bound[v] = @ \cup {j}]
  IN  /\ j \notin Binders(node[i])
      /\ node' = [node EXCEPT ![i] =
           IF len(s.bound[v]) >= N - F THEN [s EXCEPT !.terminateVal = Append(@, v)]
           ELSE IF len(Binders(s)) >= N - F THEN [s EXCEPT !.terminateBot = @ + 1]
           ELSE s]
submitBindAtN(i, j, v) ==              \* waits for the faulty nodes too
  LET s == [node[i] EXCEPT !.bound[v] = @ \cup {j}]
  IN  /\ j \notin Binders(node[i])
      /\ node' = [node EXCEPT ![i] =
           IF len(s.bound[v]) = N THEN [s EXCEPT !.terminateVal = Append(@, v)]
           ELSE IF len(Binders(s)) = N THEN [s EXCEPT !.terminateBot = @ + 1]
           ELSE s]
submitBindAny(i, j, v)   == submitBindRule(i, j, v, LAMBDA k : v)
                                       \* n-f binds, whatever they bind
submitBindCount(i, j, v) == submitBindRule(i, j, v, LAMBDA k : k)
                                       \* the count in the place of the value

submitEchoAgain(i, j, v) ==            \* counts up to the threshold again
  LET s == [node[i] EXCEPT !.echoes[v] = @ \cup {j}]
      k == len(s.echoes[v])
  IN  node' = [node EXCEPT ![i] =
        [s EXCEPT !.sentEchoes = IF k = F + 1 THEN @ \cup {v} ELSE @,
                  !.approveVal = IF k = N - F THEN Append(@, v) ELSE @]]

submitEcho(i, j, v) ==
  LET s == [node[i] EXCEPT !.echoes[v] = @ \cup {j}]
      k == len(s.echoes[v])
  IN  /\ j \notin node[i].echoes[v]
      /\ node' = [node EXCEPT ![i] =
           [s EXCEPT !.sentEchoes = IF k = F + 1 THEN @ \cup {v} ELSE @,
                     !.approveVal = IF k = N - F THEN Append(@, v) ELSE @]]

submitVote(i, j, v) ==
  LET s == [node[i] EXCEPT !.voted[v] = @ \cup {j}]
  IN  /\ j \notin Voters(node[i])
      /\ node' = [node EXCEPT ![i] =
           [s EXCEPT !.bindVal =
             IF len(s.voted[v]) = N - F /\ len(s.voted[1 - v]) < N - F
             THEN Append(@, v) ELSE @]]

submitBind(i, j, v) ==
  LET s == [node[i] EXCEPT !.bound[v] = @ \cup {j}]
  IN  /\ j \notin Binders(node[i])
      /\ node' = [node EXCEPT ![i] =
           IF len(s.bound[v]) = N - F THEN [s EXCEPT !.terminateVal = Append(@, v)]
           ELSE IF len(Binders(s)) = N - F THEN [s EXCEPT !.terminateBot = @ + 1]
           ELSE s]

-----------------------------------------------------------------------------
(***************************************************************************)
(* The goroutines.                                                         *)
(***************************************************************************)
waitToVote(i) ==
  LET s == node[i]
  IN  \/ /\ s.voter = "first" /\ s.approveVal # <<>>
         /\ node' = [node EXCEPT ![i] =
              [s EXCEPT !.voter = "second", !.vote = Head(s.approveVal), !.approveVal = Tail(@)]]
      \/ /\ s.voter = "second" /\ s.approveVal # <<>>
         /\ node' = [node EXCEPT ![i] =
              [s EXCEPT !.voter = "done", !.approveVal = Tail(@),
                        !.bindBot = @ + 1, !.terminateBot = @ + 1]]
      \/ /\ s.voter = "second" /\ s.unblock > 0
         /\ node' = [node EXCEPT ![i] = [s EXCEPT !.voter = "done", !.unblock = @ - 1]]

waitToBind(i) ==
  LET s == node[i]
  IN  /\ s.bind = None
      /\ \/ /\ s.bindBot > 0
            /\ node' = [node EXCEPT ![i] = [s EXCEPT !.bind = bot, !.bindBot = @ - 1]]
         \/ /\ s.bindVal # <<>>
            /\ node' = [node EXCEPT ![i] =
                 [s EXCEPT !.bind = Head(s.bindVal), !.bindVal = Tail(@)]]

\* The first receive from terminateBotChan settles nothing: it is taken together
\* with the second one.
waitToDecide(i) ==
  LET s == node[i]
      decided(d) == [s EXCEPT !.decision = d, !.unblock = @ + 1]
  IN  /\ s.decision = None
      /\ \/ /\ s.terminateVal # <<>>
            /\ node' = [node EXCEPT ![i] =
                 [decided(Head(s.terminateVal)) EXCEPT !.terminateVal = Tail(@)]]
         \/ /\ s.terminateBot >= 2
            /\ node' = [node EXCEPT ![i] = [decided(bot) EXCEPT !.terminateBot = @ - 2]]

-----------------------------------------------------------------------------
AnyEcho(i, j) == \E v \in EchoesFrom(j) : submitEcho(i, j, v)
AnyVote(i, j) == \E v \in VotesFrom(j) : submitVote(i, j, v)
AnyBind(i, j) == \E v \in BindsFrom(j) : submitBind(i, j, v)

Next ==
  \E i \in Correct :
    \/ \E v \in Proposals[i] : propose(i, v)
    \/ \E j \in Nodes : AnyEcho(i, j) \/ AnyVote(i, j) \/ AnyBind(i, j)
    \/ waitToVote(i) \/ waitToBind(i) \/ waitToDecide(i)

Spec == Init /\ [][Next]_vars

-----------------------------------------------------------------------------
(***************************************************************************)
(* Properties.                                                             *)
(***************************************************************************)

TypeOK == node \in [Correct -> NodeState]

\* The buffers of the channels are never exceeded, so that neither the invoker
\* of concurrentMMR, which all rounds share, nor the goroutines ever block on a
\* send (newBCA, internalValidityBCA.go:42-52).
ChannelsSuffice ==
  \A i \in Correct :
    /\ Len(node[i].approveVal) <= 2 /\ Len(node[i].bindVal) <= 1
    /\ Len(node[i].terminateVal) <= 1 /\ node[i].terminateBot <= 2
    /\ node[i].bindBot <= 1 /\ node[i].unblock <= 1

Decided(i) == node[i].decision # None

\* The first round implements the crusader agreement that the rounds of MMR rely
\* on: decisions other than bot agree, whatever faulty nodes echo, vote and bind to
\* each node, and what is decided or makes way for bot was proposed by more than f
\* nodes, counting the faulty ones (internalValidityBCA.go:13 "If all correct
\* processes propose v, no correct process decides differently from v.").
CA == INSTANCE CrusaderAgreement WITH
  Enough <- {S \in SUBSET Correct : S # {} /\ Cardinality(S) > F - Cardinality(Faulty)},
  est <- [i \in Correct |-> node[i].est],
  dec <- [i \in Correct |-> node[i].decision]
CASpec == CA!Spec

\* Value v is out of reach when too few correct nodes bound it or are still to
\* bind: with the faulty nodes they do not make n-f binds.  A node binds once,
\* so a value that is out of reach stays so.
OutOfReach(v) ==
  Cardinality({i \in Correct : node[i].bind \in {v, None}} \cup Faulty) < N - F

\* Binding: as soon as one correct node has decided, even bot, one of the two
\* values can no longer be decided by anybody.  The coin of the round is only
\* tossed after a decision, so it cannot be used to choose the value
\* (round.go:66-71).
Binding ==
  (\E i \in Correct : Decided(i)) => \E v \in Val : OutOfReach(v)

\* Every step gets a node on, for good: it counts a message of a peer for the first
\* time, or proposes, votes, binds, decides or leaves a select, each of which it does
\* once, and takes back nothing.  A message that arrives twice, as over two
\* connections to one peer, changes nothing (internalValidityBCA.go:74-123).
\* There is only so much to count, so every behaviour comes to an end.
Forward(s, t) ==
  /\ \A v \in Val : s.echoes[v] \subseteq t.echoes[v] /\ s.voted[v] \subseteq t.voted[v]
  /\ \A v \in Decisions : s.bound[v] \subseteq t.bound[v]
  /\ s.sentEchoes \subseteq t.sentEchoes
  /\ s.est # None => t.est = s.est
  /\ s.vote # None => t.vote = s.vote
  /\ s.bind # None => t.bind = s.bind
  /\ s.decision # None => t.decision = s.decision
  /\ s.voter # "first" => t.voter # "first"
  /\ s.voter = "done" => t.voter = "done"
Progress(s) == <<s.est, s.echoes, s.voted, s.bound, s.voter, s.bind, s.decision>>
GetsOn ==
  \E i \in Correct :
    /\ Forward(node[i], node'[i]) /\ Progress(node'[i]) # Progress(node[i])
    /\ \A k \in Correct \ {i} : node'[k] = node[k]
EveryStepCounts == [][GetsOn]_vars

\* Every correct node has proposed and has handled what the correct nodes sent,
\* except for messages that can no longer make a difference to it: echoes of an
\* approved value, votes after it bound, binds after it decided.  Its goroutines
\* wait for channels that are empty.
Quiescent ==
  \A i \in Correct :
    LET s == node[i] IN
    /\ s.est # None
    /\ \A j \in Correct :
         /\ \A v \in node[j].sentEchoes : j \in s.echoes[v] \/ len(s.echoes[v]) >= N - F
         /\ node[j].vote # None => j \in Voters(s) \/ s.bind # None
         /\ node[j].bind # None => j \in Binders(s) \/ Decided(i)
    /\ s.approveVal = <<>> \/ s.voter = "done"
    /\ ~(s.voter = "second" /\ s.unblock > 0)
    /\ s.bind # None \/ (s.bindBot = 0 /\ s.bindVal = <<>>)
    /\ Decided(i) \/ (s.terminateBot < 2 /\ s.terminateVal = <<>>)

\* Termination, as a fact about states: where every correct node has proposed
\* and nothing that a correct node sent is still to be handled, they have all
\* decided (ivbca_test.go:50 "TestBCAShouldTerminateWithManyDifferingResponses").
QuiescentTermination == Quiescent => \A i \in Correct : Decided(i)

\* It holds when the correct nodes proposed the same value, whatever faulty nodes
\* do to it (internalValidityBCA.go:84).
UnanimousTermination ==
  (Quiescent /\ \E v \in Val : \A i \in Correct : node[i].est = v)
    => \A i \in Correct : Decided(i)
=============================================================================
