------------------------------ MODULE BKRProofs ------------------------------
(***************************************************************************)
(* The safety of BKR for every set of participants and every threshold.    *)
(*                                                                         *)
(* The output of a node is read off the decisions, which are common to all *)
(* nodes; what has to be shown is that enough of them accept.  A decision  *)
(* to reject was proposed by a correct node, which saw n-f acceptances     *)
(* before it proposed to reject anything.  Nobody is left waiting, as the  *)
(* n-f acceptances that one node saw come to all, and whoever sees them    *)
(* proposes to every agreement.                                            *)
(***************************************************************************)
EXTENDS BKR, FiniteSetTheorems, TLAPS

\* What was decided was proposed by a correct node.
DecisionsProposed ==
  \A p \in Nodes : decision[p] # Nil => \E i \in Correct : est[i][p] = decision[p]

\* A result follows the decision, and an acceptance hands over the input.
ResultsFollow ==
  \A i \in Correct, p \in Nodes : results[i][p] # Nil =>
    /\ decision[p] \in {accept, reject}
    /\ decision[p] = reject => results[i][p] = reject
    /\ decision[p] = accept => results[i][p] = input[i][p]

\* The n-f acceptances that start the rejecting loop.
Enough(i) == Cardinality(Accepted(i)) >= N - F

\* A node that is rejecting, or has rejected, saw n-f acceptances.
RejectsLate ==
  \A i \in Correct :
    /\ (pending[i] # {} \/ checked[i] # Nil) => Enough(i)
    /\ \A p \in Nodes : est[i][p] = reject => Enough(i)

\* Inputs come from the proposer.
InputsSent ==
  \A p \in Nodes :
    /\ sent[p] \subseteq Inputs[p]
    /\ \A i \in Correct : input[i][p] # Nil => input[i][p] \in sent[p]

IInv == TypeOK /\ DecisionsProposed /\ ResultsFollow /\ RejectsLate /\ InputsSent

-----------------------------------------------------------------------------
LEMMA CountAccepted ==
  \A i : /\ IsFiniteSet(Accepted(i))
         /\ Cardinality(Accepted(i)) \in Nat
  BY NodesAssumption, FS_Subset, FS_CardinalityType DEF Accepted

\* A node that knows more acceptances still knows enough.
LEMMA EnoughStable ==
  ASSUME NEW i, NEW A, IsFiniteSet(A), Accepted(i) \subseteq A, Enough(i)
  PROVE  Cardinality(A) >= N - F
  <1>1. Cardinality(Accepted(i)) <= Cardinality(A) /\ Cardinality(A) \in Nat
    BY FS_Subset, FS_CardinalityType
  <1>2. N \in Nat /\ F \in Nat
    BY NodesAssumption, ThresholdAssumption, FS_CardinalityType DEF N
  <1> QED
    BY <1>1, <1>2, CountAccepted DEF Enough

LEMMA InitInv == Init => IInv
  <1> SUFFICES ASSUME Init
               PROVE  IInv
    OBVIOUS
  <1>1. TypeOK
    BY DEF Init, TypeOK, Vote
  <1>2. DecisionsProposed /\ ResultsFollow /\ InputsSent
    BY DEF Init, DecisionsProposed, ResultsFollow, InputsSent
  <1>3. RejectsLate
    BY InputsAssumption DEF Init, RejectsLate
  <1> QED
    BY <1>1, <1>2, <1>3 DEF IInv

-----------------------------------------------------------------------------
(***************************************************************************)
(* The actions.                                                            *)
(***************************************************************************)
LEMMA DistinctVotes == accept # reject /\ Nil # accept /\ Nil # reject
  BY InputsAssumption DEF accept, reject

\* Steps that leave the loop of every node alone keep RejectsLate when they
\* propose no rejection.
LEMMA LoopsUntouched ==
  ASSUME IInv, UNCHANGED <<results, pending, checked>>,
         \A i \in Correct, p \in Nodes : est'[i][p] = reject => est[i][p] = reject
  PROVE  RejectsLate'
  <1>1. \A i \in Correct : Enough(i)' <=> Enough(i)
    BY DEF Enough, Accepted
  <1> QED
    BY <1>1 DEF IInv, RejectsLate

LEMMA ProposeInv ==
  ASSUME IInv, NEW p \in Nodes, NEW v \in Inputs[p], Propose(p, v)
  PROVE  IInv'
  <1>1. v \in Values
    BY DEF Values
  <1>2. TypeOK'
    BY <1>1 DEF IInv, TypeOK, Propose
  <1>3. DecisionsProposed' /\ ResultsFollow'
    BY DEF IInv, DecisionsProposed, ResultsFollow, Propose
  <1>4. RejectsLate'
    BY LoopsUntouched DEF Propose
  <1>5. InputsSent'
    BY DEF IInv, InputsSent, Propose, TypeOK
  <1> QED
    BY <1>2, <1>3, <1>4, <1>5 DEF IInv

LEMMA submitInputInv ==
  ASSUME IInv, NEW i \in Correct, NEW p \in Nodes, NEW v \in sent[p], submitInput(i, p, v)
  PROVE  IInv'
  <1>1. v \in Values /\ v # Nil
    BY InputsAssumption DEF IInv, TypeOK
  <1>2. TypeOK'
    BY <1>1 DEF IInv, TypeOK, submitInput, Vote
  <1>3. DecisionsProposed'
    <2> SUFFICES ASSUME NEW q \in Nodes, decision[q] # Nil
                 PROVE  \E j \in Correct : est'[j][q] = decision[q]
      BY DEF DecisionsProposed, submitInput
    <2>1. PICK j \in Correct : est[j][q] = decision[q]
      BY DEF IInv, DecisionsProposed
    <2>2. est'[j][q] = est[j][q]
      BY <2>1 DEF IInv, TypeOK, submitInput
    <2> QED
      BY <2>1, <2>2
  <1>4. ResultsFollow'
    BY DEF IInv, ResultsFollow, submitInput, TypeOK
  <1>5. RejectsLate'
    <2>1. \A j \in Correct, q \in Nodes : est'[j][q] = reject => est[j][q] = reject
      BY DistinctVotes DEF IInv, TypeOK, submitInput
    <2> QED
      BY <2>1, LoopsUntouched DEF submitInput
  <1>6. InputsSent'
    BY DEF IInv, InputsSent, submitInput, TypeOK
  <1> QED
    BY <1>2, <1>3, <1>4, <1>5, <1>6 DEF IInv

LEMMA DecideInv ==
  ASSUME IInv, NEW p \in Nodes, NEW v \in {accept, reject}, Decide(p, v)
  PROVE  IInv'
  <1>1. TypeOK'
    BY DEF IInv, TypeOK, Decide, Vote
  <1>2. DecisionsProposed'
    <2>1. \E i \in Correct : est[i][p] = v
      BY DEF Decide, Supporters
    <2> QED
      BY <2>1 DEF IInv, DecisionsProposed, Decide, TypeOK
  <1>3. ResultsFollow'
    BY DistinctVotes DEF IInv, ResultsFollow, Decide, TypeOK
  <1>4. RejectsLate'
    BY LoopsUntouched DEF Decide
  <1>5. InputsSent'
    BY DEF IInv, InputsSent, Decide
  <1> QED
    BY <1>1, <1>2, <1>3, <1>4, <1>5 DEF IInv

LEMMA processResponsesInv ==
  ASSUME IInv, NEW i \in Correct, NEW p \in Nodes, processResponses(i, p)
  PROVE  IInv'
  <1> DEFINE r == Response(i, p)
  <1>1. /\ r # Nil
        /\ decision[p] = accept => r = input[i][p] /\ r \in Values
        /\ decision[p] # accept => r = reject /\ decision[p] = reject
    BY InputsAssumption DEF IInv, TypeOK, processResponses, Response, Vote
  <1>2. results' = [results EXCEPT ![i][p] = r]
    BY DEF processResponses
  <1>3. TypeOK'
    <2>1. results' \in [Correct -> [Nodes -> Values \cup {Nil, reject}]]
      BY <1>1, <1>2 DEF IInv, TypeOK
    <2>2. pending' \in [Correct -> SUBSET Nodes]
      BY DEF IInv, TypeOK, processResponses
    <2> QED
      BY <2>1, <2>2 DEF IInv, TypeOK, processResponses
  <1>4. DecisionsProposed' /\ InputsSent'
    BY DEF IInv, DecisionsProposed, InputsSent, processResponses
  <1>5. ResultsFollow'
    <2>1. decision' = decision /\ input' = input
      BY DEF processResponses
    <2> SUFFICES ASSUME NEW j \in Correct, NEW q \in Nodes, results'[j][q] # Nil
                 PROVE  /\ decision[q] \in {accept, reject}
                        /\ decision[q] = reject => results'[j][q] = reject
                        /\ decision[q] = accept => results'[j][q] = input[j][q]
      BY <2>1 DEF ResultsFollow
    <2>2. CASE j = i /\ q = p
      BY <1>1, <1>2, <2>2, DistinctVotes DEF IInv, TypeOK
    <2>3. CASE ~(j = i /\ q = p)
      <3>1. results'[j][q] = results[j][q]
        BY <1>2, <2>3 DEF IInv, TypeOK
      <3> QED
        BY <3>1 DEF IInv, ResultsFollow
    <2> QED
      BY <2>2, <2>3
  <1>6. RejectsLate'
    <2>1. \A j \in Correct : Accepted(j) \subseteq Accepted(j)'
      BY <1>2 DEF IInv, TypeOK, Accepted, processResponses
    <2>2. \A j \in Correct : Enough(j) => Enough(j)'
      <3> SUFFICES ASSUME NEW j \in Correct, Enough(j)
                   PROVE  Enough(j)'
        OBVIOUS
      <3>1. IsFiniteSet(Accepted(j)')
        BY NodesAssumption, FS_Subset DEF Accepted
      <3>2. Cardinality(Accepted(j)') >= N - F
        BY <2>1, <3>1, EnoughStable
      <3> QED
        BY <3>2 DEF Enough
    <2>3. StartsRejecting(i, p) => Enough(i)'
      <3> SUFFICES ASSUME StartsRejecting(i, p)
                   PROVE  Enough(i)'
        OBVIOUS
      <3>1. r \notin {Nil, reject}
        BY <1>1, InputsAssumption DEF StartsRejecting
      <3>2. Accepted(i)' = Accepted(i) \cup {p}
        BY <1>2, <3>1 DEF IInv, TypeOK, Accepted
      <3>3. Cardinality(Accepted(i)') = N - F
        BY <3>2 DEF StartsRejecting
      <3>4. N \in Nat /\ F \in Nat
        BY NodesAssumption, ThresholdAssumption, FS_CardinalityType DEF N
      <3> QED
        BY <3>3, <3>4 DEF Enough
    <2>4. \A j \in Correct : pending'[j] # {} => pending[j] # {} \/ (j = i /\ StartsRejecting(i, p))
      BY DEF processResponses, IInv, TypeOK
    <2> QED
      BY <2>2, <2>3, <2>4 DEF IInv, RejectsLate, processResponses
  <1> QED
    BY <1>3, <1>4, <1>5, <1>6 DEF IInv

LEMMA hasProposedInv ==
  ASSUME IInv, NEW i \in Correct, NEW p \in Nodes, hasProposed(i, p)
  PROVE  IInv'
  <1>1. TypeOK'
    BY DEF IInv, TypeOK, hasProposed
  <1>2. DecisionsProposed' /\ ResultsFollow' /\ InputsSent'
    BY DEF IInv, DecisionsProposed, ResultsFollow, InputsSent, hasProposed
  <1>3. \A j \in Correct : Enough(j)' <=> Enough(j)
    BY DEF Enough, Accepted, hasProposed
  <1>4. \A j \in Correct :
          pending'[j] # {} \/ checked'[j] # Nil => pending[j] # {} \/ checked[j] # Nil
    BY DEF IInv, TypeOK, hasProposed
  <1>5. RejectsLate'
    BY <1>3, <1>4 DEF IInv, RejectsLate, hasProposed
  <1> QED
    BY <1>1, <1>2, <1>5 DEF IInv

LEMMA rejectProposalInv ==
  ASSUME IInv, NEW i \in Correct, NEW p \in Nodes, rejectProposal(i, p)
  PROVE  IInv'
  <1>1. TypeOK'
    BY DEF IInv, TypeOK, rejectProposal, Vote
  <1>2. ResultsFollow' /\ InputsSent'
    BY DEF IInv, ResultsFollow, InputsSent, rejectProposal
  <1>3. DecisionsProposed'
    <2> SUFFICES ASSUME NEW q \in Nodes, decision[q] # Nil
                 PROVE  \E j \in Correct : est'[j][q] = decision[q]
      BY DEF DecisionsProposed, rejectProposal
    <2>1. PICK j \in Correct : est[j][q] = decision[q]
      BY DEF IInv, DecisionsProposed
    <2>2. est'[j][q] = est[j][q]
      BY <2>1 DEF IInv, TypeOK, rejectProposal
    <2> QED
      BY <2>1, <2>2
  <1>4. \A j \in Correct : Enough(j)' <=> Enough(j)
    BY DEF Enough, Accepted, rejectProposal
  <1>5. Enough(i)
    BY InputsAssumption DEF IInv, RejectsLate, rejectProposal
  <1>6. RejectsLate'
    BY <1>4, <1>5 DEF IInv, TypeOK, RejectsLate, rejectProposal
  <1> QED
    BY <1>1, <1>2, <1>3, <1>6 DEF IInv

LEMMA NextInv == IInv /\ [Next]_vars => IInv'
  <1> SUFFICES ASSUME IInv, [Next]_vars
               PROVE  IInv'
    OBVIOUS
  <1>1. ASSUME NEW p \in Nodes, \E v \in Inputs[p] : Propose(p, v)
        PROVE  IInv'
    BY <1>1, ProposeInv
  <1>2. ASSUME NEW p \in Nodes, Agree(p)
        PROVE  IInv'
    BY <1>2, DecideInv DEF Agree
  <1>3. ASSUME NEW i \in Correct, NEW p \in Nodes, Deliver(i, p)
        PROVE  IInv'
    BY <1>3, submitInputInv DEF Deliver
  <1>4. ASSUME NEW i \in Correct, LoopStep(i)
        PROVE  IInv'
    BY <1>4, processResponsesInv, hasProposedInv, rejectProposalInv DEF LoopStep
  <1>5. CASE UNCHANGED vars
    BY <1>5 DEF vars, IInv, TypeOK, DecisionsProposed, ResultsFollow, RejectsLate,
                InputsSent, Enough, Accepted
  <1> QED
    BY <1>1, <1>2, <1>3, <1>4, <1>5 DEF Next

\* The inductive invariant holds of every behaviour.
THEOREM Invariance == Spec => []IInv
  BY InitInv, NextInv, PTL DEF Spec

\* The state of every correct node keeps its type.
THEOREM TypeCorrect == Spec => []TypeOK
  <1>1. IInv => TypeOK
    BY DEF IInv
  <1> QED
    BY <1>1, Invariance, PTL

-----------------------------------------------------------------------------
(***************************************************************************)
(* The consequences.                                                       *)
(***************************************************************************)

\* A finished node has accepted what was decided to be accepted.
LEMMA FinishedAccepts ==
  ASSUME IInv, NEW i \in Correct, Finished(i)
  PROVE  /\ Accepted(i) = {p \in Nodes : decision[p] = accept}
         /\ \A p \in Nodes : decision[p] \in {accept, reject}
  <1>1. \A p \in Nodes : results[i][p] # Nil /\ decision[p] \in {accept, reject}
    BY DEF IInv, ResultsFollow, Finished, Handled
  <1>2. \A p \in Nodes : decision[p] = accept => results[i][p] \notin {Nil, reject}
    BY <1>1, InputsAssumption DEF IInv, TypeOK, ResultsFollow
  <1>3. \A p \in Nodes : decision[p] = reject => results[i][p] = reject
    BY <1>1 DEF IInv, ResultsFollow
  <1> QED
    BY <1>1, <1>2, <1>3 DEF Accepted

\* What any node accepted was decided to be accepted.
LEMMA AcceptedDecided ==
  ASSUME IInv, NEW i \in Correct
  PROVE  Accepted(i) \subseteq {p \in Nodes : decision[p] = accept}
  BY DEF IInv, ResultsFollow, Accepted

LEMMA SizeLemma == IInv => OutputSize
  <1> SUFFICES ASSUME IInv, NEW i \in Correct, Finished(i)
               PROVE  Cardinality(Accepted(i)) >= N - F
    BY DEF OutputSize
  <1>1. CASE \A p \in Nodes : decision[p] = accept
    <2>1. Accepted(i) = Nodes
      BY <1>1, FinishedAccepts
    <2>2. N \in Nat /\ F \in Nat
      BY NodesAssumption, ThresholdAssumption, FS_CardinalityType DEF N
    <2> QED
      BY <2>1, <2>2 DEF N
  <1>2. CASE \E p \in Nodes : decision[p] # accept
    <2>1. PICK p \in Nodes : decision[p] = reject
      BY <1>2, FinishedAccepts
    <2>2. PICK j \in Correct : est[j][p] = reject
      BY <2>1, DistinctVotes DEF IInv, DecisionsProposed
    <2>3. Enough(j)
      BY <2>2 DEF IInv, RejectsLate
    <2>4. Accepted(j) \subseteq Accepted(i)
      BY FinishedAccepts, AcceptedDecided
    <2> QED
      BY <2>3, <2>4, EnoughStable, CountAccepted
  <1> QED
    BY <1>1, <1>2

\* An output has at least n-f proposals (bkr.go:64).
THEOREM OutputSizeHolds == Spec => []OutputSize
  BY Invariance, SizeLemma, PTL

LEMMA AcceptedLemma == IInv => AcceptedAgreement
  BY FinishedAccepts DEF AcceptedAgreement

\* The outputs of correct nodes hold proposals of the same participants, also
\* when a participant proposes more than once (bkr.go:76-79).
THEOREM AcceptedAgreementHolds == Spec => []AcceptedAgreement
  BY Invariance, AcceptedLemma, PTL

LEMMA ProposalLemma == IInv => ProposalAgreement
  <1> SUFFICES ASSUME IInv, NEW i \in Correct, NEW j \in Correct, Finished(i), Finished(j),
                      NEW p \in Nodes, \A u, x \in sent[p] : u = x
               PROVE  results[i][p] = results[j][p]
    BY DEF ProposalAgreement
  <1>1. results[i][p] # Nil /\ results[j][p] # Nil
    BY DEF Finished, Handled
  <1>2. CASE decision[p] = reject
    BY <1>1, <1>2 DEF IInv, ResultsFollow
  <1>3. CASE decision[p] = accept
    <2>1. results[i][p] = input[i][p] /\ results[j][p] = input[j][p]
      BY <1>1, <1>3 DEF IInv, ResultsFollow
    <2>2. input[i][p] \in sent[p] /\ input[j][p] \in sent[p]
      BY <1>1, <2>1 DEF IInv, InputsSent
    <2> QED
      BY <2>1, <2>2
  <1> QED
    BY <1>2, <1>3, FinishedAccepts

\* The outputs of correct nodes hold the same value for every participant that
\* broadcast a single proposal for the instance, whatever the others did; for
\* one that broadcast two the run BKR_propose_twice shows that they may not.
THEOREM ProposalAgreementHolds == Spec => []ProposalAgreement
  BY Invariance, ProposalLemma, PTL

\* A node never changes what it proposed to a binary agreement, whatever the
\* interleaving of submitInput and rejectProposal (proposalAcceptor.go:50, 62).
THEOREM ProposesOnceHolds == Spec => ProposesOnce
  <1>1. IInv /\ [Next]_vars =>
          [\A i \in Correct, p \in Nodes : est[i][p] # Nil => est'[i][p] = est[i][p]]_vars
    <2> SUFFICES ASSUME IInv, Next, NEW i \in Correct, NEW p \in Nodes, est[i][p] # Nil
                 PROVE  est'[i][p] = est[i][p]
      OBVIOUS
    <2>1. est \in [Correct -> [Nodes -> Vote]]
      BY DEF IInv, TypeOK
    <2>2. ASSUME NEW q \in Nodes, \E v \in Inputs[q] : Propose(q, v)
          PROVE  est'[i][p] = est[i][p]
      BY <2>2 DEF Propose
    <2>3. ASSUME NEW q \in Nodes, Agree(q)
          PROVE  est'[i][p] = est[i][p]
      BY <2>3 DEF Agree, Decide
    <2>4. ASSUME NEW k \in Correct, NEW q \in Nodes, Deliver(k, q)
          PROVE  est'[i][p] = est[i][p]
      BY <2>1, <2>4 DEF Deliver, submitInput
    <2>5. ASSUME NEW k \in Correct, LoopStep(k)
          PROVE  est'[i][p] = est[i][p]
      BY <2>1, <2>5 DEF LoopStep, processResponses, hasProposed, rejectProposal
    <2> QED
      BY <2>2, <2>3, <2>4, <2>5 DEF Next
  <1> QED
    BY <1>1, Invariance, PTL DEF Spec, ProposesOnce

-----------------------------------------------------------------------------
(***************************************************************************)
(* Nobody is left waiting.                                                 *)
(***************************************************************************)
\* An acceptor that has its input has proposed, and accepts only with an input.
AcceptsRight ==
  \A i \in Correct, p \in Nodes :
    /\ input[i][p] # Nil => est[i][p] # Nil
    /\ est[i][p] = accept => input[i][p] # Nil

\* Who saw n-f acceptances has proposed to every agreement, or is about to: the
\* loop is started by the one acceptance that makes n-f, and forgets nobody.
RejectsAll ==
  \A i \in Correct : Enough(i) =>
    \A p \in Nodes : est[i][p] # Nil \/ p \in pending[i] \/ checked[i] = p

LEMMA EndInit == Init => AcceptsRight /\ RejectsAll
  <1> SUFFICES ASSUME Init
               PROVE  AcceptsRight /\ RejectsAll
    OBVIOUS
  <1>1. AcceptsRight
    BY DistinctVotes DEF Init, AcceptsRight
  <1>2. \A i \in Correct : Accepted(i) = {}
    BY DEF Init, Accepted
  <1>3. Cardinality({}) = 0 /\ N - F > 0 /\ N \in Nat /\ F \in Nat
    BY FS_EmptySet, NodesAssumption, ThresholdAssumption, FS_CardinalityType DEF N
  <1>4. \A i \in Correct : ~Enough(i)
    BY <1>2, <1>3 DEF Enough
  <1> QED
    BY <1>1, <1>4 DEF RejectsAll

LEMMA AcceptsStep ==
  ASSUME IInv, AcceptsRight, Next
  PROVE  AcceptsRight'
  <1>1. /\ input \in [Correct -> [Nodes -> Values \cup {Nil}]] /\ est \in [Correct -> [Nodes -> Vote]]
        /\ sent \in [Nodes -> SUBSET Values] /\ Nil \notin Values
    BY InputsAssumption DEF IInv, TypeOK
  <1>2. ASSUME UNCHANGED <<input, est>>
        PROVE  AcceptsRight'
    BY <1>2 DEF AcceptsRight
  <1>3. ASSUME NEW i \in Correct, NEW p \in Nodes, NEW v \in sent[p], submitInput(i, p, v)
        PROVE  AcceptsRight'
    BY <1>1, <1>3, DistinctVotes DEF AcceptsRight, submitInput
  <1>4. ASSUME NEW i \in Correct, NEW p \in Nodes, rejectProposal(i, p)
        PROVE  AcceptsRight'
    BY <1>1, <1>4, DistinctVotes DEF AcceptsRight, rejectProposal
  <1> QED
    BY <1>2, <1>3, <1>4 DEF Next, Agree, Deliver, LoopStep, Propose, Decide, processResponses, hasProposed

LEMMA ProposedLasts ==
  ASSUME IInv, Next, NEW i \in Correct, NEW p \in Nodes, est[i][p] # Nil
  PROVE  est'[i][p] # Nil
  <1>1. est \in [Correct -> [Nodes -> Vote]]
    BY DEF IInv, TypeOK
  <1>2. ASSUME NEW k \in Correct, NEW q \in Nodes, NEW v \in sent[q], submitInput(k, q, v)
        PROVE  est'[i][p] # Nil
    BY <1>1, <1>2 DEF submitInput
  <1>3. ASSUME NEW k \in Correct, NEW q \in Nodes, rejectProposal(k, q)
        PROVE  est'[i][p] # Nil
    BY <1>1, <1>3 DEF rejectProposal
  <1> QED
    BY <1>2, <1>3 DEF Next, Agree, Deliver, LoopStep, Propose, Decide, processResponses, hasProposed

LEMMA RejectsAllResponse ==
  ASSUME IInv, RejectsAll, Next, NEW i \in Correct, NEW p \in Nodes, processResponses(i, p)
  PROVE  RejectsAll'
  <1>0. /\ results \in [Correct -> [Nodes -> Values \cup {Nil, reject}]]
        /\ pending \in [Correct -> SUBSET Nodes] /\ checked \in [Correct -> Nodes \cup {Nil}]
    BY DEF IInv, TypeOK
  <1> SUFFICES ASSUME NEW j \in Correct, Enough(j)', NEW q \in Nodes
               PROVE  est'[j][q] # Nil \/ q \in pending'[j] \/ checked'[j] = q
    BY DEF RejectsAll
  <1>1. Nil \notin Nodes
    BY InputsAssumption
  <1>2. CASE j # i
    <2>1. Accepted(j)' = Accepted(j) /\ pending'[j] = pending[j] /\ checked' = checked /\ est' = est
      BY <1>0, <1>2 DEF processResponses, Accepted
    <2> QED
      BY <2>1 DEF RejectsAll, Enough
  <1>3. CASE j = i /\ Enough(i)
    BY <1>1, <1>3 DEF RejectsAll, processResponses
  <1>4. CASE j = i /\ ~Enough(i)
    <2>1. Accepted(i)' # Accepted(i)
      BY <1>4 DEF Enough
    <2>2. results'[i] = [results[i] EXCEPT ![p] = Response(i, p)] /\ results[i][p] = Nil
      BY <1>0 DEF processResponses
    <2>3. Response(i, p) \notin {Nil, reject} /\ Accepted(i)' = Accepted(i) \cup {p}
      BY <1>0, <2>1, <2>2 DEF Accepted, processResponses
    <2>4. decision[p] = accept
      BY <2>3 DEF Response, IInv, TypeOK, Vote
    <2>5. p \notin Accepted(i)
      BY <2>2 DEF Accepted
    <2>6. /\ Cardinality(Accepted(i) \cup {p}) = Cardinality(Accepted(i)) + 1
          /\ Cardinality(Accepted(i)) \in Nat /\ N \in Nat /\ F \in Nat
      BY <2>5, CountAccepted, FS_AddElement, FS_CardinalityType, NodesAssumption, ThresholdAssumption DEF N
    <2>7. Cardinality(Accepted(i) \cup {p}) = N - F
      BY <1>4, <2>3, <2>6 DEF Enough
    <2>8. pending'[i] = Nodes
      BY <1>0, <2>4, <2>7 DEF processResponses, StartsRejecting
    <2> QED
      BY <1>4, <2>8
  <1> QED
    BY <1>2, <1>3, <1>4

LEMMA RejectsAllStep ==
  ASSUME IInv, AcceptsRight, RejectsAll, Next
  PROVE  RejectsAll'
  <1>0. /\ est \in [Correct -> [Nodes -> Vote]]
        /\ pending \in [Correct -> SUBSET Nodes] /\ checked \in [Correct -> Nodes \cup {Nil}]
        /\ Nil \notin Nodes
    BY InputsAssumption DEF IInv, TypeOK
  <1>1. ASSUME UNCHANGED results,
               \A j \in Correct, q \in Nodes :
                 q \in pending[j] \/ checked[j] = q
                   => est'[j][q] # Nil \/ q \in pending'[j] \/ checked'[j] = q
        PROVE  RejectsAll'
    <2>1. \A j \in Correct : Enough(j)' <=> Enough(j)
      BY <1>1 DEF Enough, Accepted
    <2> QED
      BY <1>1, <2>1, ProposedLasts DEF RejectsAll
  <1>2. ASSUME UNCHANGED <<results, pending, checked>>
        PROVE  RejectsAll'
    BY <1>1, <1>2
  <1>3. ASSUME NEW i \in Correct, NEW p \in Nodes, hasProposed(i, p)
        PROVE  RejectsAll'
    <2>1. UNCHANGED results
      BY <1>3 DEF hasProposed
    <2> SUFFICES ASSUME NEW j \in Correct, NEW q \in Nodes, q \in pending[j] \/ checked[j] = q
                 PROVE  est'[j][q] # Nil \/ q \in pending'[j] \/ checked'[j] = q
      BY <1>1, <2>1
    <2> QED
      BY <1>0, <1>3 DEF hasProposed
  <1>4. ASSUME NEW i \in Correct, NEW p \in Nodes, rejectProposal(i, p)
        PROVE  RejectsAll'
    <2>1. UNCHANGED results
      BY <1>4 DEF rejectProposal
    <2> SUFFICES ASSUME NEW j \in Correct, NEW q \in Nodes, q \in pending[j] \/ checked[j] = q
                 PROVE  est'[j][q] # Nil \/ q \in pending'[j] \/ checked'[j] = q
      BY <1>1, <2>1
    <2>2. CASE j = i /\ q = p
      BY <1>0, <1>4, <2>2, DistinctVotes DEF rejectProposal, AcceptsRight
    <2>3. CASE ~(j = i /\ q = p)
      BY <1>0, <1>4, <2>3 DEF rejectProposal
    <2> QED
      BY <2>2, <2>3
  <1> QED
    BY <1>2, <1>3, <1>4, RejectsAllResponse
       DEF Next, Agree, Deliver, LoopStep, Propose, Decide, submitInput

\* The acceptors and the rejecting loop of every node are as described.
LEMMA EndInvariance == Spec => [](IInv /\ AcceptsRight /\ RejectsAll)
  <1>1. IInv /\ AcceptsRight /\ RejectsAll /\ [Next]_vars => AcceptsRight' /\ RejectsAll'
    <2> SUFFICES ASSUME IInv, AcceptsRight, RejectsAll, [Next]_vars
                 PROVE  AcceptsRight' /\ RejectsAll'
      OBVIOUS
    <2>1. CASE UNCHANGED vars
      BY <2>1 DEF vars, AcceptsRight, RejectsAll, Enough, Accepted
    <2> QED
      BY <2>1, AcceptsStep, RejectsAllStep
  <1> QED
    BY <1>1, Invariance, EndInit, PTL DEF Spec

\* n-f agreements accept: those on the correct nodes, or those that a node saw
\* accepted before it rejected one of them.
LEMMA EnoughDecided ==
  ASSUME IInv, AcceptsRight, Quiescent
  PROVE  \E A \in SUBSET Nodes : Cardinality(A) >= N - F /\ \A p \in A : decision[p] = accept
  <1>1. \A p \in Correct : decision[p] \in {accept, reject}
    <2> SUFFICES ASSUME NEW p \in Correct
                 PROVE  decision[p] \in {accept, reject}
      OBVIOUS
    <2>1. p \in Nodes
      BY DEF Correct
    <2>2. \A i \in Correct : input[i][p] # Nil
      BY <2>1 DEF Quiescent
    <2>3. \A i \in Correct : est[i][p] # Nil
      BY <2>1, <2>2 DEF AcceptsRight
    <2> QED
      BY <2>1, <2>3 DEF Quiescent, IInv, TypeOK, Vote
  <1>2. CASE \A p \in Correct : decision[p] = accept
    <2>1. Cardinality(Correct) = Cardinality(Nodes) - Cardinality(Faulty) /\ Correct \subseteq Nodes
      <3>1. Nodes \cap Faulty = Faulty
        BY NodesAssumption
      <3> QED
        BY <3>1, NodesAssumption, FS_Difference DEF Correct
    <2>2. Cardinality(Nodes) \in Nat /\ Cardinality(Faulty) \in Nat /\ Cardinality(Correct) \in Nat
      BY <2>1, NodesAssumption, FS_Subset, FS_CardinalityType
    <2>3. Cardinality(Correct) >= N - F
      BY <2>1, <2>2, ThresholdAssumption DEF N
    <2> QED
      BY <1>2, <2>1, <2>3
  <1>3. CASE \E p \in Correct : decision[p] = reject
    <2>1. PICK p \in Nodes : decision[p] = reject
      BY <1>3 DEF Correct
    <2>2. PICK j \in Correct : est[j][p] = reject
      BY <2>1, DistinctVotes DEF IInv, DecisionsProposed
    <2>3. Cardinality(Accepted(j)) >= N - F
      BY <2>2 DEF IInv, RejectsLate, Enough
    <2>4. \A q \in Accepted(j) : q \in Nodes /\ decision[q] = accept
      BY AcceptedDecided
    <2> QED
      BY <2>3, <2>4
  <1> QED
    BY <1>1, <1>2, <1>3

\* What an agreement accepted is there at every node, and so is the result.
LEMMA AcceptedHandled ==
  ASSUME IInv, AcceptsRight, Quiescent, NEW i \in Correct, NEW p \in Nodes, decision[p] # Nil
  PROVE  results[i][p] # Nil /\ (decision[p] = accept => p \in Accepted(i))
  <1>1. decision[p] = accept => input[i][p] # Nil
    <2> SUFFICES ASSUME decision[p] = accept
                 PROVE  input[i][p] # Nil
      OBVIOUS
    <2>1. PICK j \in Correct : est[j][p] = accept
      BY DistinctVotes DEF IInv, DecisionsProposed
    <2>2. input[j][p] # Nil
      BY <2>1 DEF AcceptsRight
    <2> QED
      BY <2>2 DEF Quiescent
  <1>2. Response(i, p) # Nil
    BY <1>1 DEF Response
  <1>3. results[i][p] # Nil
    BY <1>2 DEF Quiescent
  <1>4. decision[p] = accept => results[i][p] = input[i][p]
    BY <1>3 DEF IInv, ResultsFollow
  <1>5. input[i][p] # reject
    BY InputsAssumption, DistinctVotes DEF IInv, TypeOK
  <1> QED
    BY <1>3, <1>4, <1>5 DEF Accepted

LEMMA EndLemma == IInv /\ AcceptsRight /\ RejectsAll => QuiescentTermination
  <1> SUFFICES ASSUME IInv, AcceptsRight, RejectsAll, Quiescent, NEW i \in Correct
               PROVE  Finished(i)
    BY DEF QuiescentTermination
  <1>1. PICK A \in SUBSET Nodes : Cardinality(A) >= N - F /\ \A p \in A : decision[p] = accept
    BY EnoughDecided
  <1>2. \A k \in Correct : Enough(k)
    <2> SUFFICES ASSUME NEW k \in Correct
                 PROVE  Enough(k)
      OBVIOUS
    <2>1. A \subseteq Accepted(k)
      BY <1>1, DistinctVotes, AcceptedHandled
    <2>2. /\ Cardinality(A) <= Cardinality(Accepted(k)) /\ Cardinality(A) \in Nat
          /\ Cardinality(Accepted(k)) \in Nat /\ N \in Nat /\ F \in Nat
      BY <2>1, CountAccepted, FS_Subset, FS_CardinalityType, NodesAssumption, ThresholdAssumption DEF N
    <2> QED
      BY <1>1, <2>2 DEF Enough
  <1>3. \A k \in Correct, p \in Nodes : est[k][p] # Nil
    BY <1>2, InputsAssumption DEF RejectsAll, Quiescent
  <1>4. \A p \in Nodes : decision[p] # Nil
    BY <1>3 DEF Quiescent
  <1>5. Handled(i) = Nodes
    BY <1>4, AcceptedHandled DEF Handled
  <1> QED
    BY <1>5 DEF Finished, Quiescent

\* In every network no node is left waiting when there is nothing more to do,
\* although each starts to reject on its own and at exactly n-f (bkr.go:64).
THEOREM QuiescentTerminationHolds == Spec => []QuiescentTermination
  BY EndInvariance, EndLemma, PTL
=============================================================================
