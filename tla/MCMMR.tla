-------------------------------- MODULE MCMMR --------------------------------
(***************************************************************************)
(* Constants, schedule and view for the model-checking run of MMR.         *)
(***************************************************************************)
EXTENDS MMR, TLC

CONSTANTS n1, n2, n3, b

CorrectNodes == Permutations({n1, n2, n3})

\* Behaviours of Spec in which decisions are output and counted after the rounds
\* have come to their end.  Rounds never look at what was output or counted, so
\* the steps of any behaviour can be put into this order.
RoundsFirst ==
  Init /\ [][\/ \E i \in Correct : RoundStep(i)
             \/ /\ \A i \in Correct : ~ENABLED RoundStep(i)
                /\ \E i \in Correct : DecisionStep(i)]_vars

\* From then on only what was proposed matters of the rounds.
Decisions ==
  IF \A i \in Correct : node[i].output = None /\ node[i].received = newMMR.received
  THEN vars
  ELSE [i \in Correct |->
          <<node[i].est[0], node[i].reached, node[i].adopted, node[i].received, node[i].output>>]
=============================================================================
