------------------------------- MODULE MCEVBCA -------------------------------
(***************************************************************************)
(* Constants and view for the model-checking runs of EVBCA.                *)
(***************************************************************************)
EXTENDS EVBCA, TLC

CONSTANTS n1, n2, n3, b

FourNodes == {n1, n2, n3, b}

\* The round before ended with v at the nodes of S and bot at the others.
Outcome(S, v, c) ==
  [prev |-> [i \in Correct |-> IF i \in S THEN v ELSE bot], coin |-> c, decided |-> {}]

\* Handlers treat the values alike and the nodes alike, so one coin is enough,
\* and one set of each size.  Where nodes decided in earlier rounds the round
\* before gave their value to all, and they propose it even if it is the coin.
Sizes == {{}, {n1}, {n1, n2}, Correct}
Later == {[Outcome(Correct, 1, 1) EXCEPT !.decided = S] : S \in Sizes}
AllOutcomes == {Outcome(S, v, 1) : S \in Sizes, v \in Val} \cup Later

\* Two nodes of four without a fault know 0, and the coin is 1.
EvenSplit == {Outcome({n1, n2}, 0, 1)}

\* What a faulty node sends: votes against the coin, and any binds.
AgainstCoin == [echo |-> {}, vote |-> {0}, bind |-> Val]
Nothing     == [echo |-> {}, vote |-> {}, bind |-> {}]

\* The faulty nodes vote and bind towards one correct node each at most.
ToOne(S) == Cardinality({i \in Correct : S[i] \cap Faulty # {}}) <= 1
Sparing ==
  /\ ToOne([i \in Correct |-> R!Voters(node[i])])
  /\ ToOne([i \in Correct |-> R!Binders(node[i])])

\* Behaviours in which waitToVote is never late.  Nothing it does depends on when
\* it runs, and what it sends can be late anyway.
VoterStep ==
  \/ \E i \in Correct : waitToVote(i)
  \/ /\ \A i \in Correct : node[i].approveVal = <<>> \/ node[i].voter = "done"
     /\ Next
SparingSpec == Init /\ [][VoterStep /\ Sparing']_vars

\* Behaviours in which all echoes are handled before a vote is, and all votes
\* before a bind.
EchoesThrough ==
  \A i, j \in Correct :
    /\ node[i].approveVal = <<>> /\ (Proposes(i) => node[i].est # None)
    /\ \A v \in node[j].sentEchoes :
         j \in node[i].echoes[v] \/ len(node[i].echoes[v]) >= N - F
VotesThrough == \A i, j \in Correct : node[j].vote # None => j \in R!Voters(node[i])
InOrder ==
  /\ (\E i \in Correct : R!Voters(node[i]) # {}) => EchoesThrough
  /\ (\E i \in Correct : R!Binders(node[i]) # {}) => VotesThrough
InOrderSpec == Init /\ [][Next /\ InOrder']_vars

(***************************************************************************)
(* As in MCIVBCA: how many nodes are in a state, who is counted by number, *)
(* and counts only as long as they can make a difference.  Votes still do  *)
(* after a bind of bot, as they may block the invoker.                     *)
(***************************************************************************)
Counted(S) == <<Cardinality(S \ Faulty), Cardinality(S \cap Faulty)>>
LocalState(i) ==
  LET s == node[i]
      open == s.decision = None
  IN  [ est |-> <<s.est, prev[i], i \in decided>>,
        echoes |-> [v \in Val |-> IF len(s.echoes[v]) >= N - F THEN <<N>>
                                  ELSE Counted(s.echoes[v])],
        votes |-> IF s.bind \in Val \/ (s.bind = bot /\ Estimate(i) # coin) THEN <<>>
                  ELSE [v \in Val |-> Counted(s.voted[v])],
        binds |-> IF open THEN [v \in Val |-> Counted(s.bound[v])] ELSE <<>>,
        sent |-> <<s.sentEchoes, s.vote, s.bind>>,
        chans |-> <<IF s.voter = "done" THEN <<>> ELSE s.approveVal, s.bindBot, s.bindVal,
                    IF open THEN <<s.terminateBot, s.terminateVal>> ELSE <<>> >>,
        at |-> <<s.voter, s.decision>> ]

Anonymous ==
  LET state == [i \in Correct |-> LocalState(i)] @@ <<>>   \* evaluated once
  IN  <<coin, [l \in {state[i] : i \in Correct} |-> Cardinality({i \in Correct : state[i] = l})]>>
=============================================================================
