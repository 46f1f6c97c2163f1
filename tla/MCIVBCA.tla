------------------------------- MODULE MCIVBCA -------------------------------
(***************************************************************************)
(* Constants, schedules and views for the model-checking runs of IVBCA.    *)
(***************************************************************************)
EXTENDS IVBCA, TLC

CONSTANTS n1, n2, n3, b

FourNodes == {n1, n2, n3, b}

\* Every node proposes 0, n3 possibly a value of its own.
Mixed  == [i \in FourNodes |-> IF i = n3 THEN {1} ELSE {0}]
Either == [i \in FourNodes |-> IF i = n3 THEN {0, 1} ELSE {0}]

\* Faulty nodes send everything.
Anything == [echo |-> Val, vote |-> Val, bind |-> Decisions]

(***************************************************************************)
(* Behaviours of Spec from the moment the echoes are through.  All nodes   *)
(* echoed both values and every node has voted for its proposal, which was *)
(* the first value it approved; the other one waits in approveValChan.     *)
(* From Init with the Mixed proposals, b leads there by echoing both       *)
(* values to everybody.                                                    *)
(***************************************************************************)
VotedFor(v) ==
  [newBCA EXCEPT !.est = v, !.echoes = [w \in Val |-> Nodes], !.sentEchoes = Val,
                 !.approveVal = <<1 - v>>, !.voter = "second", !.vote = v]
Voted == node = [i \in Correct |-> VotedFor(IF i = n3 THEN 1 ELSE 0)]

\* What the faulty nodes did at node i in favour of v.
Supported(i, v) ==
  Faulty \cap (node[i].bound[v] \cup (IF v \in Val THEN node[i].voted[v] ELSE {})) # {}

(***************************************************************************)
(* Two scenarios.  From Init, n3 proposes 0 like the others, and faulty    *)
(* nodes echo and bind 1.  From Voted, where n3 proposed 1, faulty nodes   *)
(* support one node that voted 0 and one that voted 1.                     *)
(***************************************************************************)
Against0 ==
  \A i \in Correct :
    /\ node[i].est # 1 /\ Faulty \cap (node[i].echoes[0] \cup Voters(node[i])) = {}
    /\ \A v \in Decisions : Supported(i, v) => v = 1
TwoFaced ==
  /\ \A i \in Correct : node[i].echoes[1] = Nodes
  /\ \A i \in Correct, v \in Decisions : Supported(i, v) => v = node[i].vote
  /\ \A v \in Val : Cardinality({i \in Correct : Supported(i, v)}) <= 1
ScenariosSpec == (Init \/ Voted) /\ [][Next /\ (Against0' \/ TwoFaced')]_vars

\* Faulty nodes support 0 only, with their votes at n1 and n2 and with their
\* binds at n3.
Favours0 ==
  /\ \A i \in Correct, v \in Decisions : Supported(i, v) => v = 0
  /\ Faulty \cap (node[n3].voted[0] \cup node[n1].bound[0] \cup node[n2].bound[0]) = {}
Favours0Spec == Voted /\ [][Next /\ Favours0']_vars

(***************************************************************************)
(* Views.  The handlers count messages and never look at who sent them,    *)
(* and what a node sent says which of its messages are still to arrive.    *)
(* So it does not matter which of the correct nodes have been counted for  *)
(* a value, only how many.                                                 *)
(***************************************************************************)
Counted(S) == <<Cardinality(S \ Faulty), Cardinality(S \cap Faulty)>>

(***************************************************************************)
(* Nor does it matter which node is in a state, only how many are; and     *)
(* counts that can no longer make a difference are dropped: echoes of an   *)
(* approved value, votes at a node that bound, binds at a node that        *)
(* decided, with the channels that nobody reads from then on.              *)
(***************************************************************************)
LocalState(i) ==
  LET s == node[i]
      open == s.decision = None
  IN  [ est |-> s.est,
        echoes |-> [v \in Val |-> IF len(s.echoes[v]) >= N - F THEN <<N>>
                                  ELSE Counted(s.echoes[v])],
        votes |-> IF s.bind # None THEN <<>>
                  ELSE [v \in Val |-> Counted(s.voted[v])],
        binds |-> IF ~open THEN <<>>
                  ELSE [v \in Decisions |-> Counted(s.bound[v])],
        sent |-> <<s.sentEchoes, s.vote, s.bind>>,
        chans |-> <<IF s.voter = "done" THEN <<>> ELSE <<s.approveVal, s.unblock>>,
                    IF s.bind # None THEN <<>> ELSE <<s.bindBot, s.bindVal>>,
                    IF open THEN <<s.terminateBot, s.terminateVal>> ELSE <<>> >>,
        at |-> <<s.voter, s.decision>> ]

Anonymous ==
  LET state == [i \in Correct |-> LocalState(i)] @@ <<>>   \* evaluated once
  IN  [l \in {state[i] : i \in Correct} |-> Cardinality({i \in Correct : state[i] = l})]

\* The same without exchanging the nodes, for schedules that tell them apart.
Named == [i \in Correct |-> LocalState(i)]
=============================================================================
