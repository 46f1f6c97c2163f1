------------------------------ MODULE MCOverlay ------------------------------
(***************************************************************************)
(* Constants and schedule for the model-checking run of Overlay.           *)
(***************************************************************************)
EXTENDS Overlay, TLC

CONSTANTS n0, n1, n2, n3

Others == Permutations({n2, n3})

\* Behaviours in which only the contact and n1 start: nothing depends on what has
\* started, and n1 may be any of the nodes that join.  In others, in which nobody
\* starts, a connection is lost that n1 dialled, or n1 is the first to fail when it
\* dials, once all have joined: to join early is to wait longer at the first step.
Schedule ==
  /\ \A i \in {n2, n3} : participants[i] = None
  /\ \A c \in broken : c[1] = n1 \/ n1 \in down
  /\ down # {} => n1 \in down
  /\ broken # {} => hasJoined = Nodes /\ dealt = None /\ \A i \in Nodes : participants[i] = None
ScheduledSpec == Init /\ [][Next /\ Schedule']_vars
=============================================================================
