--------------------------- MODULE BinaryAgreement ---------------------------
(***************************************************************************)
(* What one instance of binary agreement promises to BKR (the Decide of    *)
(* BKR.tla): one decision, of a value that enough correct nodes proposed,  *)
(* and every correct node outputs that decision at most once.              *)
(***************************************************************************)
CONSTANTS
  Correct,      \* the nodes that follow the protocol
  Enough,       \* the sets of correct nodes that suffice to support a value
  Val,          \* the values that can be proposed
  None          \* not proposed, not decided

VARIABLES
  proposal,     \* proposal[i]: what node i proposed
  decision,     \* what the nodes agree on
  output        \* output[i]: what node i was told

vars == <<proposal, decision, output>>

Init ==
  /\ proposal = [i \in Correct |-> None]
  /\ decision = None
  /\ output = [i \in Correct |-> None]

Propose(i, v) ==
  /\ proposal[i] = None
  /\ proposal' = [proposal EXCEPT ![i] = v]
  /\ UNCHANGED <<decision, output>>

Supported(v) == {i \in Correct : proposal[i] = v} \in Enough

\* A node is told the decision, which is taken when the first node is.
Output(i, v) ==
  /\ output[i] = None
  /\ decision \in {None, v}
  /\ Supported(v)
  /\ decision' = v
  /\ output' = [output EXCEPT ![i] = v]
  /\ UNCHANGED proposal

Next == \E i \in Correct, v \in Val : Propose(i, v) \/ Output(i, v)

Spec == Init /\ [][Next]_vars
=============================================================================
