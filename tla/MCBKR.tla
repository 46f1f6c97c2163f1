-------------------------------- MODULE MCBKR --------------------------------
(***************************************************************************)
(* Constants for the model-checking runs of BKR.                           *)
(***************************************************************************)
EXTENDS BKR

CONSTANTS n1, n2, n3, n4, v, w

\* Every participant proposes once, whatever it proposes.
Once == [p \in Nodes |-> {v}]

\* The faulty participants may propose twice for the same instance.
FaultyTwice == [p \in Nodes |-> IF p \in Faulty THEN {v, w} ELSE {v}]

\* Behaviours of Spec in which the nodes other than n1 and n2 are slow: their
\* proposals are broadcast, but their handlers have not run yet.
SlowPeers ==
  \A i \in Correct \ {n1, n2} : input'[i] = input[i] /\ results'[i] = results[i]
HastySpec == Init /\ [][Next /\ SlowPeers]_vars
=============================================================================
