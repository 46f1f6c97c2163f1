---------------------------- MODULE MCCoinTosser ----------------------------
(***************************************************************************)
(* Constants for the model-checking runs of CoinTosser.                    *)
(***************************************************************************)
EXTENDS CoinTosser

CONSTANTS n1, n2, n3, b

FourNodes == {n1, n2, n3, b}
CorrectNodes == {n1, n2, n3}

\* Two shares of the faulty node reach n1, one reaches n2 and none reaches n3.
Unequal ==
  [i \in CorrectNodes |-> [j \in FourNodes |->
     IF j # b THEN 1 ELSE IF i = n1 THEN 2 ELSE IF i = n2 THEN 1 ELSE 0]]
\* The faulty node repeats its share at every node.
Twice == [i \in CorrectNodes |-> [j \in FourNodes |-> IF j = b THEN 2 ELSE 1]]

\* The faulty node sends its own share, and at n2 also that of n1 as its own.
OwnOrOther == [i \in CorrectNodes |-> IF i = n2 THEN {b, n1} ELSE {b}]
Own == [i \in CorrectNodes |-> {b}]
=============================================================================
