--------------------------------- MODULE BRB ---------------------------------
(***************************************************************************)
(* One instance of Byzantine Reliable Broadcast                            *)
(* (src/byzantineReliableBroadcast), run by all the nodes of the network.  *)
(*                                                                         *)
(* Instance.  An instance is named by hash(public key of the origin,       *)
(* nonce), and a SEND is routed to the instance that hash of its           *)
(* authenticated sender names: only Origin can put a SEND into it.  ECHO   *)
(* and READY name the instance explicitly, so anybody can send those.      *)
(*                                                                         *)
(* Handlers.  Each node runs the handlers of an instance one at a time     *)
(* (brbInstance.invoker), so a handler, with the phases it falls through   *)
(* to, is one step.  Every message is forwarded by goroutines of its own   *)
(* (brbMiddleware.bebDeliver, BRBChannel.processMsg), so messages are      *)
(* handled in any order and after any delay.                               *)
(*                                                                         *)
(* Network.  A node hands at most one message to echoChan and one to       *)
(* readyChan; broadcastMsgOnSignal takes it and broadcasts it to everybody.*)
(* What node j broadcast is therefore read from node[j].echo and           *)
(* node[j].ready, and the set of peers already counted says what has       *)
(* arrived.  A faulty node may send each node a different message, and     *)
(* nothing at all.  A second ECHO (READY) of a peer is an error return     *)
(* that changes nothing, so the actions are not enabled for it.            *)
(***************************************************************************)
EXTENDS Naturals, FiniteSets

CONSTANTS
  Nodes,        \* every node of the network
  Faulty,       \* the nodes that need not follow the protocol
  F,            \* the fault threshold f the channel is created with
  Origin,       \* the node whose broadcast this instance carries
  Contents,     \* what can be broadcast
  FaultyMsgs,   \* the messages that faulty nodes echo and ready
  NoMsg         \* an empty channel, nothing delivered

\* The bytes a node echoes and readies: the identifier of the node the SEND
\* came from, followed by the content of the SEND (phase1.go:36, phase3.go:47).
Msg == [sender : Nodes, content : Contents]

ASSUME NodesAssumption == IsFiniteSet(Nodes)
ASSUME FaultAssumption ==
  /\ F \in Nat
  /\ Cardinality(Nodes) > 3 * F
  /\ Faulty \subseteq Nodes
  /\ Cardinality(Faulty) <= F
ASSUME MsgAssumption ==
  /\ Origin \in Nodes
  /\ FaultyMsgs \subseteq Msg
  /\ NoMsg \notin Msg

N == Cardinality(Nodes)
Correct == Nodes \ Faulty

VARIABLES
  broadcast,    \* what a correct origin passed to BRBroadcast, or NoMsg
  node          \* node[i]: the brbHandler of node i and its channel entry

vars == <<broadcast, node>>

(***************************************************************************)
(* The state of an instance at a node.  brbData counts the echoes of each  *)
(* message and peersEchoed remembers who was counted; echoes[j] here is    *)
(* the message counted for peer j, which is both.                          *)
(***************************************************************************)
MaybeMsg == Msg \cup {NoMsg}

NodeState ==
  [ echoes   : [Nodes -> MaybeMsg],
    readies  : [Nodes -> MaybeMsg],
    ph1      : BOOLEAN,          \* brbPhase1Handler.isFinished
    ph2      : BOOLEAN,          \* brbPhase2Handler.isFinished
    echo     : MaybeMsg,         \* handed to echoChan and broadcast
    ready    : MaybeMsg,         \* handed to readyChan and broadcast
    output   : SUBSET Msg,       \* handed to outputChan by phase 3
    delivered : MaybeMsg ]       \* taken to BrbDeliver; the instance is
                                 \* finished[id] from then on

newBrbHandler ==
  [ echoes |-> [j \in Nodes |-> NoMsg], readies |-> [j \in Nodes |-> NoMsg],
    ph1 |-> FALSE, ph2 |-> FALSE, echo |-> NoMsg, ready |-> NoMsg,
    output |-> {}, delivered |-> NoMsg ]

Init ==
  /\ broadcast = NoMsg
  /\ node = [i \in Correct |-> newBrbHandler]

Supporters(votes, m) == {j \in Nodes : votes[j] = m}
numEchoes(s, m)  == Cardinality(Supporters(s.echoes, m))
numReadies(s, m) == Cardinality(Supporters(s.readies, m))

-----------------------------------------------------------------------------
(***************************************************************************)
(* The three phases, each a function from the state of the handler to its  *)
(* next state.  Thresholds are tested with "=", as in the code: a phase    *)
(* acts on the message that completes the threshold.                       *)
(***************************************************************************)
sendEcho(s, m)  == [s EXCEPT !.ph1 = TRUE, !.echo = m]
sendReady(s, m) == [s EXCEPT !.ph2 = TRUE, !.ready = m]

\* Slips that would be easy to make in the phases below, each of which breaks
\* one of the properties at the end of this module.
Phase3ReadyAtF(s, m) ==                \* trusts the f faulty nodes
  IF numReadies(s, m) = F THEN [s EXCEPT !.output = @ \cup {m}] ELSE s
Phase2EchoAtN(s, m) ==                 \* waits for the faulty nodes too
  IF ~s.ph2 /\ numEchoes(s, m) = N THEN sendReady(s, m) ELSE s
Phase1SendBare(s, m) ==                \* the sender is not prepended
  IF s.ph1 THEN s ELSE sendEcho(s, m.content)

Phase3Ready(s, m) ==
  IF numReadies(s, m) = N - F THEN [s EXCEPT !.output = @ \cup {m}] ELSE s

Phase2ReadyUnamplified(s, m) ==        \* no READY on f + 1 READYs
  IF s.ph2 THEN Phase3Ready(s, m) ELSE s

Phase2Ready(s, m) ==
  IF s.ph2 THEN Phase3Ready(s, m)
  ELSE IF numReadies(s, m) = F + 1 THEN Phase3Ready(sendReady(s, m), m)
  ELSE s

Phase2Echo(s, m) ==
  IF ~s.ph2 /\ numEchoes(s, m) = N - F THEN sendReady(s, m) ELSE s

Phase1Ready(s, m) ==
  IF s.ph1 THEN Phase2Ready(s, m)
  ELSE IF numReadies(s, m) = F + 1 THEN Phase2Ready(sendEcho(s, m), m)
  ELSE s

Phase1EchoAtF(s, m) ==                 \* f echoes are trusted
  IF s.ph1 THEN Phase2Echo(s, m)
  ELSE IF numEchoes(s, m) = F THEN Phase2Echo(sendEcho(s, m), m)
  ELSE s

Phase1Echo(s, m) ==
  IF s.ph1 THEN Phase2Echo(s, m)
  ELSE IF numEchoes(s, m) = F + 1 THEN Phase2Echo(sendEcho(s, m), m)
  ELSE s

Phase1Send(s, m) == IF s.ph1 THEN s ELSE sendEcho(s, m)

countEcho(s, m, j)  == [s EXCEPT !.echoes[j] = m]
countReady(s, m, j) == [s EXCEPT !.readies[j] = m]

-----------------------------------------------------------------------------
(***************************************************************************)
(* Actions.                                                                *)
(***************************************************************************)

\* A correct origin broadcasts content c: a SEND to every node.
BRBroadcast(c) ==
  /\ Origin \in Correct
  /\ broadcast = NoMsg
  /\ broadcast' = [sender |-> Origin, content |-> c]
  /\ UNCHANGED node

\* BRBChannel.processMsg drops what arrives for a finished instance.
Open(i) == node[i].delivered = NoMsg

\* What is on its way: the SENDs of the origin, the ECHO and the READY that
\* peer j broadcast.  A faulty origin may send each node another content, a
\* correct one sent the same to all; a faulty peer may send anything.
Sends ==
  IF Origin \in Correct THEN {broadcast} \ {NoMsg}
  ELSE [sender : {Origin}, content : Contents]
EchoesFrom(j)  == IF j \in Correct THEN {node[j].echo} \ {NoMsg} ELSE FaultyMsgs
ReadiesFrom(j) == IF j \in Correct THEN {node[j].ready} \ {NoMsg} ELSE FaultyMsgs

\* The SEND m of the origin reaches node i.
HandleSend(i, m) ==
  /\ Open(i)
  /\ ~node[i].ph1
  /\ node' = [node EXCEPT ![i] = Phase1Send(@, m)]
  /\ UNCHANGED broadcast

\* The ECHO m of peer j reaches node i.  Once phase 2 is finished the handler
\* only counts, and nothing reads the count again: those steps are left out.
HandleEcho(i, j, m) ==
  /\ Open(i)
  /\ ~node[i].ph2
  /\ node[i].echoes[j] = NoMsg
  /\ node' = [node EXCEPT ![i] = Phase1Echo(countEcho(@, m, j), m)]
  /\ UNCHANGED broadcast

\* The READY m of peer j reaches node i.
HandleReady(i, j, m) ==
  /\ Open(i)
  /\ node[i].readies[j] = NoMsg
  /\ node' = [node EXCEPT ![i] = Phase1Ready(countReady(@, m, j), m)]
  /\ UNCHANGED broadcast

\* processOutput takes one message from outputChan, delivers it, marks the
\* instance finished and drops the handler with its counts; what the node
\* broadcast stays on its way.  Handlers already running in the closing
\* instance touch only the state that is dropped: they are the ones that run
\* before this step, between the output and the delivery.
ProcessOutput(i, m) ==
  /\ Open(i)
  /\ node' = [node EXCEPT ![i].delivered = m,
                          ![i].echoes = newBrbHandler.echoes,
                          ![i].readies = newBrbHandler.readies]
  /\ UNCHANGED broadcast

AnySend(i)     == \E m \in Sends : HandleSend(i, m)
AnyEcho(i, j)  == \E m \in EchoesFrom(j) : HandleEcho(i, j, m)
AnyReady(i, j) == \E m \in ReadiesFrom(j) : HandleReady(i, j, m)
AnyOutput(i)   == \E m \in node[i].output : ProcessOutput(i, m)

Next ==
  \/ \E c \in Contents : BRBroadcast(c)
  \/ \E i \in Correct :
       \/ AnySend(i)
       \/ \E j \in Nodes : AnyEcho(i, j) \/ AnyReady(i, j)
       \/ AnyOutput(i)

Spec == Init /\ [][Next]_vars

(***************************************************************************)
(* Fairness.  The links between correct nodes are TLS connections that are *)
(* read for as long as the node lives, and every queue between the socket  *)
(* and the handler is a goroutine of its own: a message between correct    *)
(* nodes is eventually handled.  Nothing is assumed of faulty nodes, nor   *)
(* that the origin ever broadcasts.                                        *)
(***************************************************************************)
Fairness ==
  \A i \in Correct :
    /\ Origin \in Correct => WF_vars(AnySend(i))
    /\ \A j \in Correct : WF_vars(AnyEcho(i, j)) /\ WF_vars(AnyReady(i, j))
    /\ WF_vars(AnyOutput(i))

FairSpec == Spec /\ Fairness

-----------------------------------------------------------------------------
(***************************************************************************)
(* Properties.                                                             *)
(***************************************************************************)

TypeOK ==
  /\ broadcast \in MaybeMsg
  /\ node \in [Correct -> NodeState]

\* Consistency: two correct nodes never deliver different messages, although
\* a faulty origin may send them different ones and faulty peers may echo
\* and ready both (phase2.go:37, phase2.go:56, phase3.go:33).
Consistency ==
  \A i, j \in Correct :
    (~Open(i) /\ ~Open(j)) => node[i].delivered = node[j].delivered

\* Integrity: what is delivered carries the identifier of the origin, which
\* f faulty echoers cannot forge, and is what a correct origin broadcast.
Integrity ==
  \A i \in Correct : ~Open(i) =>
    /\ node[i].delivered.sender = Origin
    /\ Origin \in Correct => node[i].delivered = broadcast

\* Phase 3 sends to outputChan at most once.  The channel is unbuffered and
\* processOutput reads it once: a second message would block the invoker of
\* the instance for ever (phase3.go:39, channel.go:108).
SingleOutput == \A i \in Correct : Cardinality(node[i].output) <= 1

\* Correct nodes never broadcast READY for different messages: the fact that
\* makes n-f READYs decisive.
ReadyAgreement ==
  \A i, j \in Correct :
    (node[i].ready # NoMsg /\ node[j].ready # NoMsg)
      => node[i].ready = node[j].ready

\* Nothing that a correct node sent is still to be handled by a correct node.
\* Every step uses up a message, so under Fairness every behaviour comes to
\* such a state.
Quiescent ==
  \A i \in Correct : Open(i) =>
    /\ node[i].output = {}
    /\ (Origin \in Correct /\ broadcast # NoMsg) => node[i].ph1
    /\ \A j \in Correct :
         /\ node[j].echo # NoMsg => node[i].ph2 \/ node[i].echoes[j] # NoMsg
         /\ node[j].ready # NoMsg => node[i].readies[j] # NoMsg

\* Totality, as a fact about states: where nothing is on its way, either all
\* correct nodes delivered or none did.  The READYs that let the first one
\* deliver are enough to make the others ready too (phase2.go:56), also when
\* the first one closed its instance long before (channel.go:107).
QuiescentTotality ==
  Quiescent => \A i, j \in Correct : Open(i) <=> Open(j)

\* Validity, as a fact about states: where nothing is on its way, what a correct
\* origin broadcast is delivered by every correct node.  Echoes and READYs that
\* overtook the SEND were not passed over by a phase that tests its threshold with
\* "=" and was not looking yet (phase1.go:60, phase2.go:37, 56).
QuiescentValidity ==
  (Quiescent /\ Origin \in Correct /\ broadcast # NoMsg)
    => \A i \in Correct : node[i].delivered = broadcast

\* Validity: a message broadcast by a correct origin is delivered by every
\* correct node.
Validity ==
  (broadcast # NoMsg) ~> (\A i \in Correct : node[i].delivered = broadcast)

\* The protocol implements the abstract broadcast.
RB == INSTANCE ReliableBroadcast
        WITH delivered <- [i \in Correct |-> node[i].delivered]
RBSpec == RB!Spec

-----------------------------------------------------------------------------
=============================================================================
