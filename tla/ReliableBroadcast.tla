-------------------------- MODULE ReliableBroadcast --------------------------
(***************************************************************************)
(* What one instance of Byzantine Reliable Broadcast promises to the layer *)
(* above it (the BKRChannel that reads BRBChannel.BrbDeliver).  Each       *)
(* correct node delivers at most one message, all of them deliver the same *)
(* one, and the message is one the origin of the instance stands behind:   *)
(* the one it broadcast when it is correct, some message that carries its  *)
(* identifier when it is not.                                              *)
(***************************************************************************)

CONSTANTS
  Correct,      \* the nodes that follow the protocol
  Msg,          \* what can be delivered
  NoMsg,        \* "not delivered", "not broadcast"
  Origin        \* the node whose broadcast this instance carries

VARIABLES
  broadcast,    \* what a correct origin broadcast, or NoMsg
  delivered     \* the message each correct node delivered, or NoMsg

vars == <<broadcast, delivered>>

Init ==
  /\ broadcast = NoMsg
  /\ delivered = [i \in Correct |-> NoMsg]

\* The origin, when it is correct, broadcasts one message of its own.
Broadcast(m) ==
  /\ Origin \in Correct
  /\ broadcast = NoMsg
  /\ m.sender = Origin
  /\ broadcast' = m
  /\ UNCHANGED delivered

\* A correct node delivers once, in agreement with whoever delivered before.
Deliver(i, m) ==
  /\ delivered[i] = NoMsg
  /\ m.sender = Origin
  /\ Origin \in Correct => m = broadcast
  /\ \A j \in Correct : delivered[j] \in {NoMsg, m}
  /\ delivered' = [delivered EXCEPT ![i] = m]
  /\ UNCHANGED broadcast

Next ==
  \E m \in Msg :
    \/ Broadcast(m)
    \/ \E i \in Correct : Deliver(i, m)

Spec == Init /\ [][Next]_vars
=============================================================================
