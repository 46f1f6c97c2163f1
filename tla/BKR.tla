--------------------------------- MODULE BKR ---------------------------------
(***************************************************************************)
(* One instance of the BKR agreement on a common subset                    *)
(* (src/agreementCommonSubset), run by all the nodes of the network on top *)
(* of reliable broadcast and binary agreement.                             *)
(*                                                                         *)
(* Every participant broadcasts a proposal with BRB.  A node that delivers *)
(* the proposal of p proposes accept to the binary agreement of p, and     *)
(* once n-f agreements accepted, reject to every agreement it has not      *)
(* proposed to yet.  When all n agreements have decided, the accepted      *)
(* proposals are the output.                                               *)
(*                                                                         *)
(* Threads.  At each node the invoker of BKRChannel runs submitInput while *)
(* bkr.processResponses runs the rejecting loop; the lock of an acceptor   *)
(* makes submitInput, hasProposed and rejectProposal atomic, and nothing   *)
(* more, so the two threads interleave between them.                       *)
(*                                                                         *)
(* Below.  BRB is taken at its word (ReliableBroadcast, which BRB.tla      *)
(* implements): each broadcast reaches all correct nodes or none, and they *)
(* agree on it.  Binary agreement is the abstract Decide below.            *)
(***************************************************************************)
EXTENDS Naturals, FiniteSets

CONSTANTS
  Nodes,        \* the participants: each has an acceptor at every node
  Faulty,       \* the nodes that need not follow the protocol
  F,            \* the fault threshold f the channel is created with
  Inputs,       \* Inputs[p]: what p passes to Propose for this instance
  Nil           \* no input, no proposal, no decision

accept == "accept"
reject == "reject"
Values == UNION {Inputs[p] : p \in Nodes}
Correct == Nodes \ Faulty
N == Cardinality(Nodes)

ASSUME NodesAssumption == IsFiniteSet(Nodes) /\ Faulty \subseteq Nodes
ASSUME ThresholdAssumption == F \in Nat /\ Cardinality(Faulty) <= F /\ F < Cardinality(Nodes)
ASSUME InputsAssumption ==
  /\ Nil \notin Nodes \cup Values \cup {accept, reject}
  /\ Values \cap {accept, reject} = {}

VARIABLES
  sent,         \* sent[p]: the proposals of p that are in reliable broadcast
  input,        \* input[i][p]: proposalAcceptor.input of p's acceptor at i
  est,          \* est[i][p]: what i proposed to the agreement on p, or Nil;
                \* proposalAcceptor.proposed is est # Nil
  decision,     \* decision[p]: the decision of the agreement on p, or Nil
  results,      \* results[i][p]: Nil until processResponses of i has handled
                \* the response of p, then the accepted proposal or reject
  pending,      \* pending[i]: the acceptors the rejecting loop has to visit
  checked       \* checked[i]: the acceptor found to be without proposal, Nil
                \* when the loop is not between hasProposed and rejectProposal

vars == <<sent, input, est, decision, results, pending, checked>>

-----------------------------------------------------------------------------
\* newBKR at every node: one acceptor per participant.
Init ==
  /\ sent = [p \in Nodes |-> {}]
  /\ input = [i \in Correct |-> [p \in Nodes |-> Nil]]
  /\ est = [i \in Correct |-> [p \in Nodes |-> Nil]]
  /\ decision = [p \in Nodes |-> Nil]
  /\ results = [i \in Correct |-> [p \in Nodes |-> Nil]]
  /\ pending = [i \in Correct |-> {}]
  /\ checked = [i \in Correct |-> Nil]

Handled(i)  == {p \in Nodes : results[i][p] # Nil}
Accepted(i) == {p \in Nodes : results[i][p] \notin {Nil, reject}}
Finished(i) == Handled(i) = Nodes /\ pending[i] = {} /\ checked[i] = Nil

\* BKRChannel.Propose: the proposal is handed to reliable broadcast.  Nothing
\* keeps a node from proposing again for the same instance.
Propose(p, v) ==
  /\ v \notin sent[p]
  /\ sent' = [sent EXCEPT ![p] = @ \cup {v}]
  /\ UNCHANGED <<input, est, decision, results, pending, checked>>

\* The broadcast of p is delivered at node i and submitted to its acceptor,
\* which keeps the first input, and proposes accept unless it has proposed.
submitInput(i, p, v) ==
  /\ v \in sent[p]
  /\ input[i][p] = Nil
  /\ input' = [input EXCEPT ![i][p] = v]
  /\ est' = [est EXCEPT ![i][p] = IF @ = Nil THEN accept ELSE @]
  /\ UNCHANGED <<sent, decision, results, pending, checked>>

\* The binary agreement on p decides.  Each value it decides was echoed by
\* f+1 nodes, so by at least one correct node that proposed it.
Supporters(p, v) == {i \in Correct : est[i][p] = v}
Decide(p, v) ==
  /\ decision[p] = Nil
  /\ Supporters(p, v) # {}
  /\ Cardinality(Supporters(p, v)) + Cardinality(Faulty) > F
  /\ decision' = [decision EXCEPT ![p] = v]
  /\ UNCHANGED <<sent, input, est, results, pending, checked>>

\* Slips in the two threads that the properties at the end would catch.
ResponseBare(i, p) == decision[p]              \* the decision for the proposal
ResponseNoWait(i, p) ==                        \* a proposal not here is dropped
  IF decision[p] = accept /\ input[i][p] # Nil THEN input[i][p]
  ELSE IF decision[p] = Nil THEN Nil ELSE reject
RejectsAfter(k, i, p) == decision[p] = accept /\ Cardinality(Accepted(i) \cup {p}) = k
StartsRejectingAtF(i, p) == RejectsAfter(F, i, p)
StartsRejectingAtN(i, p) == RejectsAfter(N, i, p)
rejectUnchecked(i, p) ==                       \* trusts hasProposed
  /\ checked[i] = p
  /\ checked' = [checked EXCEPT ![i] = Nil]
  /\ est' = [est EXCEPT ![i][p] = reject]
  /\ UNCHANGED <<sent, input, decision, results, pending>>

\* waitResponse: an accepted proposal is handed on when its input is there.
Response(i, p) == IF decision[p] = accept THEN input[i][p] ELSE decision[p]

\* The acceptance that makes n-f starts the rejecting loop.
StartsRejecting(i, p) ==
  decision[p] = accept /\ Cardinality(Accepted(i) \cup {p}) = N - F

\* One round of processResponses.  waitAcceptorResponse forwards the responses
\* in any order; the rejecting loop runs before the next round.
processResponses(i, p) ==
  /\ pending[i] = {} /\ checked[i] = Nil
  /\ results[i][p] = Nil
  /\ Response(i, p) # Nil
  /\ results' = [results EXCEPT ![i][p] = Response(i, p)]
  /\ pending' = [pending EXCEPT ![i] = IF StartsRejecting(i, p) THEN Nodes ELSE {}]
  /\ UNCHANGED <<sent, input, est, decision, checked>>

\* The rejecting loop: hasProposed of one acceptor after the other.  The order
\* is that of the sorted identifiers, which can be any.
hasProposed(i, p) ==
  /\ p \in pending[i] /\ checked[i] = Nil
  /\ pending' = [pending EXCEPT ![i] = @ \ {p}]
  /\ checked' = IF est[i][p] = Nil THEN [checked EXCEPT ![i] = p] ELSE checked
  /\ UNCHANGED <<sent, input, est, decision, results>>

\* rejectProposal of the acceptor that hasProposed found without a proposal; an
\* input that arrived in between makes it an error, and changes nothing.
rejectProposal(i, p) ==
  /\ checked[i] = p
  /\ checked' = [checked EXCEPT ![i] = Nil]
  /\ est' = IF input[i][p] = Nil /\ est[i][p] = Nil
            THEN [est EXCEPT ![i][p] = reject] ELSE est
  /\ UNCHANGED <<sent, input, decision, results, pending>>

Deliver(i, p) == \E v \in sent[p] : submitInput(i, p, v)
Agree(p)      == \E v \in {accept, reject} : Decide(p, v)
LoopStep(i)   == \E p \in Nodes :
                   processResponses(i, p) \/ hasProposed(i, p) \/ rejectProposal(i, p)

Next ==
  \/ \E p \in Nodes : (\E v \in Inputs[p] : Propose(p, v)) \/ Agree(p)
  \/ \E i \in Correct : (\E p \in Nodes : Deliver(i, p)) \/ LoopStep(i)

Spec == Init /\ [][Next]_vars

(***************************************************************************)
(* Fairness.  Correct nodes propose; a broadcast that is delivered         *)
(* somewhere, and every one of a correct node, is delivered everywhere     *)
(* (validity and totality of BRB); an agreement that every correct node    *)
(* has proposed to decides; and processResponses is a goroutine that is    *)
(* always scheduled.                                                       *)
(***************************************************************************)
Fairness ==
  /\ \A p \in Correct : WF_vars(\E v \in Inputs[p] : Propose(p, v))
  /\ \A p \in Nodes :
       WF_vars((\A i \in Correct : est[i][p] # Nil) /\ Agree(p))
  /\ \A i \in Correct :
       /\ WF_vars(LoopStep(i))
       /\ \A p \in Nodes :
            WF_vars((p \in Correct \/ \E j \in Correct : input[j][p] # Nil) /\ Deliver(i, p))

FairSpec == Spec /\ Fairness

-----------------------------------------------------------------------------
(***************************************************************************)
(* Properties.                                                             *)
(***************************************************************************)
Vote == {Nil, accept, reject}

TypeOK ==
  /\ sent \in [Nodes -> SUBSET Values]
  /\ input \in [Correct -> [Nodes -> Values \cup {Nil}]]
  /\ est \in [Correct -> [Nodes -> Vote]]
  /\ decision \in [Nodes -> Vote]
  /\ results \in [Correct -> [Nodes -> Values \cup {Nil, reject}]]
  /\ pending \in [Correct -> SUBSET Nodes]
  /\ checked \in [Correct -> Nodes \cup {Nil}]

\* The outputs of two correct nodes come from the same participants, even when
\* a participant proposed several times.
AcceptedAgreement ==
  \A i, j \in Correct : (Finished(i) /\ Finished(j)) => Accepted(i) = Accepted(j)

\* The outputs of two correct nodes hold the same value in the place of every
\* participant that proposed a single one, whether the value was there before
\* its agreement decided or came later (proposalAcceptor.go:85, bkr.go:76-79).
ProposalAgreement ==
  \A i, j \in Correct : (Finished(i) /\ Finished(j)) =>
    \A p \in Nodes : (\A u, x \in sent[p] : u = x) => results[i][p] = results[j][p]

\* An output has at least n-f proposals, although each node stops waiting for
\* proposals on its own (bkr.go:64).
OutputSize == \A i \in Correct : Finished(i) => Cardinality(Accepted(i)) >= N - F

\* A node proposes to each binary agreement once: an input that arrives while
\* the rejecting loop is about to reject does not make it propose twice, and
\* an accepted input is not rejected afterwards (proposalAcceptor.go:50, 62, 66).
ProposesOnce ==
  [][\A i \in Correct, p \in Nodes : est[i][p] # Nil => est'[i][p] = est[i][p]]_vars

\* Correct nodes have proposed; what they broadcast, and what somebody delivered, is
\* delivered everywhere; agreements that every correct node proposed to have decided;
\* and no response loop has a step to take.
Quiescent ==
  /\ \A p \in Correct : sent[p] # {}
  /\ \A p \in Nodes : (\A i \in Correct : est[i][p] # Nil) => decision[p] # Nil
  /\ \A i \in Correct :
       /\ pending[i] = {} /\ checked[i] = Nil
       /\ \A p \in Nodes :
            /\ (p \in Correct \/ \E j \in Correct : input[j][p] # Nil) => input[i][p] # Nil
            /\ results[i][p] = Nil => Response(i, p) = Nil

\* No node is left waiting when there is nothing more to do: a proposal that is not
\* broadcast anywhere is rejected by every node, though each of them starts
\* rejecting only at the acceptance that makes exactly n-f (bkr.go:64), and an
\* acceptance is not held up by an input that never comes (proposalAcceptor.go:85).
QuiescentTermination == Quiescent => \A i \in Correct : Finished(i)

\* Every correct node outputs.
Termination == <>(\A i \in Correct : Finished(i))

\* bkrChannel_test.go:92 asserts equal outputs at all nodes, and README.md:7 says
\* that the nodes "agree on a set of values": the outputs of two correct nodes
\* hold the same values in the same places.
OutputAgreement ==
  \A i, j \in Correct : (Finished(i) /\ Finished(j)) => results[i] = results[j]
=============================================================================
