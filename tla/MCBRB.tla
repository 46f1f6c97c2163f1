-------------------------------- MODULE MCBRB --------------------------------
(***************************************************************************)
(* Constants for the model-checking runs of BRB.                           *)
(***************************************************************************)
EXTENDS BRB, TLC

CONSTANTS n1, n2, n3, b, x, y

\* Four nodes, one of which may be faulty: the smallest network with f = 1.
FourNodes == {n1, n2, n3, b}

\* A faulty origin that equivocates, and echoes and readies both messages.
Equivocation == {[sender |-> b, content |-> c] : c \in {x, y}}

\* A faulty peer that supports another content than the origin's, or the
\* right content under its own name.
Forgeries == {[sender |-> n1, content |-> y], [sender |-> b, content |-> x]}

\* A faulty peer that spends its votes on the content under its own name.
OwnName == {[sender |-> b, content |-> x]}

\* Correct nodes are interchangeable when the origin is faulty, and the ones
\* that are not the origin when it is correct.
CorrectSymmetry == Permutations({n1, n2, n3})
PeerSymmetry == Permutations({n2, n3})

\* Two states are the same when they differ only in counts that no handler
\* reads again: the echoes of a node that finished phase 2.
Relevant(s) == [s EXCEPT !.echoes = IF s.ph2 THEN <<>> ELSE @]
LiveCounts == <<broadcast, [i \in Correct |-> Relevant(node[i])]>>
=============================================================================
