-------------------------- MODULE CrusaderAgreement --------------------------
(***************************************************************************)
(* What one crusader agreement promises to the rounds of binary agreement  *)
(* (the decide of MMR.tla): a node decides once, a value that enough       *)
(* correct nodes proposed and that nobody's decision contradicts, or bot   *)
(* where both values have been proposed by enough.                         *)
(***************************************************************************)
EXTENDS Naturals

CONSTANTS
  Correct,      \* the nodes that follow the protocol
  Enough,       \* the sets of correct nodes that suffice to support a value
  None          \* not proposed, not decided

Val == {0, 1}
bot == 2

VARIABLES
  est,          \* est[i]: what node i proposed
  dec           \* dec[i]: what node i decided

vars == <<est, dec>>

Init ==
  /\ est \in [Correct -> Val \cup {None}]
  /\ dec = [i \in Correct |-> None]

Propose(i, v) ==
  /\ est[i] = None
  /\ est' = [est EXCEPT ![i] = v]
  /\ UNCHANGED dec

Approvable(v) == {i \in Correct : est[i] = v} \in Enough

Decide(i, d) ==
  /\ dec[i] = None
  /\ d \in Val => Approvable(d) /\ \A k \in Correct : dec[k] # 1 - d
  /\ d = bot => \A v \in Val : Approvable(v)
  /\ dec' = [dec EXCEPT ![i] = d]
  /\ UNCHANGED est

Next ==
  \E i \in Correct :
    \/ \E v \in Val : Propose(i, v)
    \/ \E d \in Val \cup {bot} : Decide(i, d)

Spec == Init /\ [][Next]_vars
=============================================================================
