----------------------------- MODULE CoinTosser -----------------------------
(***************************************************************************)
(* One coin of the threshold coin tossing (src/coinTosser), tossed by all  *)
(* the nodes of the network.                                               *)
(*                                                                         *)
(* A trusted dealer has shared a secret with threshold T.  A node tosses   *)
(* the coin by broadcasting its share of it, and knows the coin once it    *)
(* has combined T+1 shares.                                                *)
(*                                                                         *)
(* Threads.  CTChannel.invoker, which starts when the deal arrives, runs   *)
(* TossCoin and the submission of shares one at a time.  A submission      *)
(* hands the share to the invoker of the shareProcessor of the coin and    *)
(* waits on errChan for its answer.  A share of a peer that was counted    *)
(* before is answered twice: nobody waits for the second answer, so that   *)
(* the shareProcessor is stuck from then on, and the invoker of the        *)
(* channel, which serves all coins, with the next submission.              *)
(*                                                                         *)
(* Shares are broadcast by goroutines of their own and arrive in any       *)
(* order, also before the coin is tossed or the deal has arrived, and as   *)
(* often as the sender or a second connection between two nodes sends      *)
(* them.  The proof that comes with a share is about the node whose share  *)
(* it is, which isTossValid does not compare with the sender: a faulty     *)
(* node may submit the share of any node that has tossed, as its own.      *)
(* Shares that fail the proof are an error return that changes nothing;    *)
(* nobody can prove a share that its owner has not sent (external: the     *)
(* DLEQ proofs).  A message that does not even decode makes the middleware *)
(* use a nil message: the process panics.                                  *)
(***************************************************************************)
EXTENDS Naturals, Sequences, FiniteSets

CONSTANTS
  Nodes,        \* every node of the network
  Faulty,       \* the nodes that need not follow the protocol
  T,            \* the threshold: T+1 shares determine the coin
  Copies,       \* Copies[i][j]: how many shares reach i from j: one, unless
                \* there are two connections or j is faulty
  Relayed,      \* Relayed[i]: whose shares faulty nodes submit at i
  Garbled       \* whom faulty nodes send a message that does not decode

Correct == Nodes \ Faulty

ASSUME NodesAssumption == IsFiniteSet(Nodes) /\ Faulty \subseteq Nodes
ASSUME ThresholdAssumption == T \in Nat
ASSUME CopiesAssumption ==
  /\ Copies \in [Correct -> [Nodes -> Nat]]
  /\ \A i, j \in Correct : Copies[i][j] >= 1
ASSUME RelayedAssumption == Relayed \in [Correct -> SUBSET Nodes] /\ Garbled \subseteq Correct

VARIABLES
  node,         \* node[i]: the CTChannel of node i
  arrived       \* arrived[i][j]: how many shares sent by j node i has handled

vars == <<node, arrived>>

\* A share as it is submitted: who sent it, and whose share it is.
Submission == [from : Nodes, of : Nodes]

\* What the interpolation of shares gives: the coin when there is no node in it,
\* and otherwise a point that depends on how often each share was used.
Points == [Nodes -> Nat]
Secret == [k \in Nodes |-> 0]

NodeState ==
  [ deal      : BOOLEAN,           \* the deal is there, the invoker runs
    tossed    : BOOLEAN,           \* the coin has an instance
    unordered : Seq(Submission),   \* what waits for the toss
    shares    : Seq(Submission),   \* what was combined, in this order
    blocked   : BOOLEAN,           \* the invoker of the channel is stuck
    down      : BOOLEAN,           \* the process has panicked
    coin      : SUBSET Points ]    \* what was output: nothing, or one coin

Init ==
  /\ node = [i \in Correct |->
               [ deal |-> FALSE, tossed |-> FALSE, unordered |-> <<>>,
                 shares |-> <<>>, blocked |-> FALSE, down |-> FALSE, coin |-> {} ]]
  /\ arrived = [i \in Correct |-> [j \in Nodes |-> 0]]

-----------------------------------------------------------------------------
\* The places where a sender comes again, and where an owner does.
Repeated(q) == {k \in 1 .. Len(q) : \E l \in 1 .. (k - 1) : q[l].from = q[k].from}
SameOwner(q) == {k \in 1 .. Len(q) : \E l \in 1 .. (k - 1) : q[l].of = q[k].of}

\* Slips that the properties at the end would catch.
requiredT == T                         \* one share too few
requiredT2 == T + 2                    \* and one too many
recoverIndices(q) == [l \in 1 .. Len(q) |-> 1]     \* places for owners
provenAtDeal(k) ==                     \* a share is sent when the deal arrives
  k \in Correct => node[k].deal

\* Interpolation of the shares q: those of T+1 different owners give the coin.
recoverSecretFromPoints(q) ==
  IF Len(q) = T + 1 /\ SameOwner(q) = {} THEN Secret
  ELSE [k \in Nodes |-> Cardinality({l \in 1 .. Len(q) : q[l].of = k})]

\* The number of shares that are combined.
required == T + 1

\* Submissions q are processed one after the other.  The first one that repeats
\* a sender is counted and is the last to be: if there is another one after
\* it, its submission does not return.
Taken(q) ==
  IF Repeated(q) = {} THEN Len(q)
  ELSE CHOOSE k \in Repeated(q) : \A l \in Repeated(q) : k <= l
processShares(s, q) ==
  LET all == s.shares \o q
  IN  [s EXCEPT !.shares = SubSeq(all, 1, Taken(all)),
                !.blocked = Taken(all) < Len(all),
                !.coin = IF @ = {} /\ Taken(all) >= required
                         THEN {recoverSecretFromPoints(SubSeq(all, 1, required))} ELSE @]

-----------------------------------------------------------------------------
\* A slip in TossCoin.
TossCoinOwnShare(i) ==                 \* the own share is counted at once, and
  LET s == node[i]                     \* again when the broadcast comes back
  IN  /\ s.deal /\ ~s.tossed /\ ~s.down
      /\ node' = [node EXCEPT ![i] =
           [processShares(s, <<[from |-> i, of |-> i]>> \o s.unordered)
              EXCEPT !.tossed = TRUE, !.unordered = <<>>]]
      /\ UNCHANGED arrived

\* The deal arrives and the invoker of the channel starts.
initializeChannel(i) ==
  /\ ~node[i].deal /\ ~node[i].down
  /\ node' = [node EXCEPT ![i].deal = TRUE]
  /\ UNCHANGED arrived

\* The share is broadcast, and the shares that came before are submitted.
TossCoin(i) ==
  LET s == node[i]
  IN  /\ s.deal /\ ~s.tossed /\ ~s.down
      /\ node' = [node EXCEPT ![i] =
           [processShares(s, s.unordered) EXCEPT !.tossed = TRUE, !.unordered = <<>>]]
      /\ UNCHANGED arrived

\* There is a share of k that isTossValid accepts.
isTossValid(k) == k \in Correct => node[k].tossed

\* A share of k that j sends is taken by the invoker, which keeps it until the
\* coin is tossed.
scheduleShareSubmission(i, j, k) ==
  LET s == node[i]
      share == [from |-> j, of |-> k]
  IN  /\ s.deal /\ ~s.blocked /\ ~s.down
      /\ IF j \in Correct THEN k = j ELSE k \in Relayed[i]
      /\ isTossValid(k)
      /\ arrived[i][j] < Copies[i][j]
      /\ arrived' = [arrived EXCEPT ![i][j] = @ + 1]
      /\ node' = [node EXCEPT ![i] =
           IF s.tossed THEN processShares(s, <<share>>)
           ELSE [s EXCEPT !.unordered = Append(@, share)]]

\* The middleware meets a message that does not decode.  The process ends, and
\* what it has broadcast before may still arrive, or not.
bebDeliver(i) ==
  /\ i \in Garbled /\ Faulty # {} /\ ~node[i].down
  /\ node' = [node EXCEPT ![i].down = TRUE]
  /\ UNCHANGED arrived

Next ==
  \E i \in Correct :
    \/ initializeChannel(i) \/ TossCoin(i) \/ bebDeliver(i)
    \/ \E j, k \in Nodes : scheduleShareSubmission(i, j, k)

Spec == Init /\ [][Next]_vars

(***************************************************************************)
(* Fairness.  The dealer is correct, so the deal arrives; every correct    *)
(* node tosses; and what correct nodes broadcast arrives, unless the       *)
(* process of the sender ends before.                                      *)
(***************************************************************************)
Delivers(i, j) == ~node[j].down /\ scheduleShareSubmission(i, j, j)
Fairness ==
  \A i \in Correct :
    /\ WF_vars(initializeChannel(i)) /\ WF_vars(TossCoin(i))
    /\ \A j \in Correct : WF_vars(Delivers(i, j))

FairSpec == Spec /\ Fairness

-----------------------------------------------------------------------------
(***************************************************************************)
(* Properties.                                                             *)
(***************************************************************************)
TypeOK ==
  /\ node \in [Correct -> NodeState]
  /\ arrived \in [Correct -> [Nodes -> Nat]]

\* channel_test.go:55 asserts that all outcomes are equal: correct nodes never
\* see different coins, whichever shares each of them combined.
CoinAgreement ==
  \A i, j \in Correct :
    (node[i].coin # {} /\ node[j].coin # {}) => node[i].coin = node[j].coin

\* Nobody repeated itself at i, and what i combined came from its owners.
Spared(i) ==
  /\ \A j \in Nodes : arrived[i][j] <= 1
  /\ \A l \in 1 .. Len(node[i].shares) : node[i].shares[l].from = node[i].shares[l].of

\* Nodes that are spared repeated and relayed shares, the two things that the
\* code does not defend against (instance.go:135, 100), see the same coin,
\* whatever happens at the other nodes and in whatever order the deal, the toss
\* and the shares came.
SparedAgreement ==
  \A i, j \in {k \in Correct : Spared(k)} :
    (node[i].coin # {} /\ node[j].coin # {}) => node[i].coin = node[j].coin

\* No node computes the coin before T+1-|Faulty| correct nodes have tossed it, more
\* than f of them when T is 2f (abaChannel.go:44), also when shares are repeated
\* or relayed: what a node may output sooner is another value than the coin.
\* Together with the binding of crusader agreement it keeps the coin from being
\* used against a decision.
CoinHidden ==
  (\E i \in Correct : node[i].coin = {Secret})
    => Cardinality({i \in Correct : node[i].tossed} \cup Faulty) >= T + 1

\* A peer is counted twice, and the invoker that serves all coins is blocked, only
\* where that peer sent two shares: one that came before the toss is not submitted
\* again after it (instance.go:135, channel.go:86, 140).
OnlyRepeatsBlock ==
  \A i \in Correct :
    (node[i].blocked \/ Repeated(node[i].shares) # {}) => \E j \in Nodes : arrived[i][j] >= 2

\* The correct nodes that run, and those of them that can handle shares.
Up == {i \in Correct : ~node[i].down}
Serving == {i \in Up : ~node[i].blocked}

\* Every node that runs has the deal and has tossed, and the shares of such nodes
\* were handled, by the nodes that can still handle any.
Quiescent ==
  /\ \A i \in Up : node[i].deal /\ node[i].tossed
  /\ \A i \in Serving, j \in Up : arrived[i][j] = Copies[i][j]

\* When nothing is left to handle every node that can still handle shares knows a
\* coin, provided that more than T nodes run: a share that came before the deal or
\* before the toss counts like one that came after it (channel.go:86, 128).
QuiescentTermination ==
  (Quiescent /\ Cardinality(Up) > T) => \A i \in Serving : node[i].coin # {}

\* As long as more than T correct nodes run, every one of them learns a coin unless
\* a repeated share has blocked it: a node that is blocked has sent its share and
\* holds up nobody else.
Termination == <>(Cardinality(Up) <= T \/ \A i \in Serving : node[i].coin # {})
=============================================================================
