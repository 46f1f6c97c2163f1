--------------------------- MODULE CoinTosserProofs ---------------------------
(***************************************************************************)
(* The safety of CoinTosser for every network, every threshold and         *)
(* whatever faulty nodes repeat, relay or garble.                          *)
(*                                                                         *)
(* A submission is either waiting for the toss or combined, never both,    *)
(* and was counted when it arrived: so a sender that is found twice has    *)
(* sent twice.  A coin is what the first T+1 combined submissions give,    *)
(* and every one of them is the share of a node that has tossed or is      *)
(* faulty.                                                                 *)
(***************************************************************************)
EXTENDS CoinTosser, FiniteSetTheorems, SequenceTheorems, WellFoundedInduction,
        NaturalsInduction, TLAPS

\* Every sender of q has arrived by the counts a, and twice where it comes again.
Counted(a, q) ==
  /\ \A l \in 1 .. Len(q) : a[q[l].from] >= 1
  /\ \A l \in Repeated(q) : a[q[l].from] >= 2

Senders(q) == {q[l].from : l \in 1 .. Len(q)}

\* The channel s of a node at which shares have arrived by the counts a.
ChannelOK(s, a) ==
  /\ s.tossed => s.unordered = <<>>
  /\ ~s.tossed => s.shares = <<>> /\ ~s.blocked
  /\ Counted(a, s.shares) /\ Counted(a, s.unordered)
  /\ \A l \in Repeated(s.shares) : l = Len(s.shares)
  /\ s.blocked => \E j \in Nodes : a[j] >= 2
  /\ (s.coin # {}) <=> (Len(s.shares) >= T + 1)
  /\ s.coin # {} => s.coin = {recoverSecretFromPoints(SubSeq(s.shares, 1, T + 1))}
  /\ ~s.blocked => \A j \in Nodes : a[j] >= 1 => j \in Senders(s.shares) \cup Senders(s.unordered)

\* The nodes whose share may have been sent, and sequences of such shares.
Tossers == {k \in Nodes : isTossValid(k)}
Proven(S, q) == \A l \in 1 .. Len(q) : q[l].of \in S

IInv ==
  /\ TypeOK
  /\ \A i \in Correct : ChannelOK(node[i], arrived[i])
  /\ \A i \in Correct : Proven(Tossers, node[i].shares) /\ Proven(Tossers, node[i].unordered)

-----------------------------------------------------------------------------
(***************************************************************************)
(* Sequences of submissions.                                               *)
(***************************************************************************)
LEMMA Least ==
  ASSUME NEW S, S \subseteq Nat, S # {}
  PROVE  \E k \in S : \A l \in S : k <= l
  <1> DEFINE R == {ss \in Nat \X Nat : ss[1] < ss[2]}
  <1>1. IsWellFoundedOn(R, Nat)
    BY NatLessThanWellFounded DEF OpToRel
  <1> HIDE DEF R
  <1>2. PICK k \in S : \A l \in S : ~(<<l, k>> \in R)
    BY <1>1, WFMin
  <1>3. \A l \in S : ~(l < k) /\ l \in Nat /\ k \in Nat
    BY <1>2 DEF R
  <1> QED
    BY <1>2, <1>3

LEMMA TakenLemma ==
  ASSUME NEW q \in Seq(Submission)
  PROVE  /\ Len(q) \in Nat /\ Taken(q) \in 0 .. Len(q)
         /\ Repeated(q) \subseteq 1 .. Len(q)
         /\ Repeated(q) = {} => Taken(q) = Len(q)
         /\ Repeated(q) # {} =>
              Taken(q) \in Repeated(q) /\ \A l \in Repeated(q) : Taken(q) <= l
  <1>1. Len(q) \in Nat
    OBVIOUS
  <1>2. Repeated(q) \subseteq 1 .. Len(q)
    BY DEF Repeated
  <1>3. CASE Repeated(q) = {}
    BY <1>1, <1>3 DEF Taken
  <1>4. CASE Repeated(q) # {}
    <2>1. Repeated(q) \subseteq Nat
      BY <1>1, <1>2
    <2>2. \E k \in Repeated(q) : \A l \in Repeated(q) : k <= l
      BY <2>1, <1>4, Least
    <2>3. Taken(q) = CHOOSE k \in Repeated(q) : \A l \in Repeated(q) : k <= l
      BY <1>4, Zenon DEF Taken
    <2>4. Taken(q) \in Repeated(q) /\ \A l \in Repeated(q) : Taken(q) <= l
      BY <2>2, <2>3, Zenon
    <2> QED
      BY <1>1, <1>2, <1>4, <2>4
  <1> QED
    BY <1>1, <1>2, <1>3, <1>4

LEMMA Prefix ==
  ASSUME NEW q \in Seq(Submission), NEW n \in 0 .. Len(q)
  PROVE  LET p == SubSeq(q, 1, n) IN
         /\ p \in Seq(Submission) /\ Len(p) = n
         /\ \A l \in 1 .. n : p[l] = q[l]
         /\ \A l \in Repeated(p) : l \in Repeated(q) /\ l <= n
         /\ \A m \in 0 .. n : SubSeq(p, 1, m) = SubSeq(q, 1, m)
         /\ n = Len(q) => p = q
  <1> DEFINE p == SubSeq(q, 1, n)
  <1>1. Len(q) \in Nat /\ p \in Seq(Submission) /\ Len(p) = n /\ \A l \in 1 .. n : p[l] = q[l]
    OBVIOUS
  <1>2. \A l \in Repeated(p) : l \in Repeated(q) /\ l <= n
    <2> HIDE DEF p
    <2> QED
      BY <1>1 DEF Repeated
  <1>3. ASSUME NEW m \in 0 .. n
        PROVE  SubSeq(p, 1, m) = SubSeq(q, 1, m)
    OBVIOUS
  <1>4. n = Len(q) => p = q
    OBVIOUS
  <1> QED
    BY <1>1, <1>2, <1>3, <1>4

LEMMA OneMore ==
  ASSUME NEW q \in Seq(Submission), NEW x \in Submission
  PROVE  LET p == Append(q, x) IN
         /\ p \in Seq(Submission) /\ q \o <<x>> = p
         /\ Len(q) \in Nat /\ Len(p) = Len(q) + 1 /\ p[Len(q) + 1] = x
         /\ \A l \in 1 .. Len(q) : p[l] = q[l]
         /\ Repeated(q) \subseteq Repeated(p)
         /\ \A l \in Repeated(p) :
              \/ l \in Repeated(q)
              \/ l = Len(q) + 1 /\ \E m \in 1 .. Len(q) : q[m].from = x.from
         /\ \A n \in 0 .. Len(q) : SubSeq(p, 1, n) = SubSeq(q, 1, n)
         /\ Senders(p) = Senders(q) \cup {x.from}
  <1> DEFINE p == Append(q, x)
  <1>1. /\ p \in Seq(Submission) /\ q \o <<x>> = p
        /\ Len(q) \in Nat /\ Len(p) = Len(q) + 1 /\ p[Len(q) + 1] = x
        /\ \A l \in 1 .. Len(q) : p[l] = q[l]
    OBVIOUS
  <1>2. \A n \in 0 .. Len(q) : SubSeq(p, 1, n) = SubSeq(q, 1, n)
    OBVIOUS
  <1> HIDE DEF p
  <1>3. Repeated(q) \subseteq Repeated(p)
    BY <1>1 DEF Repeated
  <1>4. ASSUME NEW l \in Repeated(p)
        PROVE  \/ l \in Repeated(q)
               \/ l = Len(q) + 1 /\ \E m \in 1 .. Len(q) : q[m].from = x.from
    <2>1. l \in 1 .. (Len(q) + 1) /\ \E m \in 1 .. (l - 1) : p[m].from = p[l].from
      BY <1>1 DEF Repeated
    <2>2. CASE l = Len(q) + 1
      BY <1>1, <2>1, <2>2
    <2>3. CASE l \in 1 .. Len(q)
      BY <1>1, <2>1, <2>3 DEF Repeated
    <2> QED
      BY <1>1, <2>1, <2>2, <2>3
  <1>5. Senders(p) = Senders(q) \cup {x.from}
    <2>1. \A l \in 1 .. Len(p) : l \in 1 .. Len(q) \/ l = Len(q) + 1
      BY <1>1
    <2>2. \A l \in 1 .. Len(q) : l \in 1 .. Len(p)
      BY <1>1
    <2>3. Len(q) + 1 \in 1 .. Len(p)
      BY <1>1
    <2> QED
      BY <1>1, <2>1, <2>2, <2>3 DEF Senders
  <1> QED
    BY <1>1, <1>2, <1>3, <1>4, <1>5 DEF p

LEMMA RecoverType ==
  ASSUME NEW q \in Seq(Submission)
  PROVE  recoverSecretFromPoints(q) \in Points
  <1>1. ASSUME NEW k \in Nodes
        PROVE  Cardinality({l \in 1 .. Len(q) : q[l].of = k}) \in Nat
    <2>1. Len(q) \in Nat
      OBVIOUS
    <2>2. IsFiniteSet(1 .. Len(q))
      BY <2>1, FS_Interval
    <2> QED
      BY <2>2, FS_Subset, FS_CardinalityType
  <1> QED
    BY <1>1 DEF recoverSecretFromPoints, Points, Secret

LEMMA SenderType ==
  /\ \A x \in Submission : x.from \in Nodes /\ x.of \in Nodes
  /\ \A q \in Seq(Submission) : \A l \in 1 .. Len(q) : q[l].from \in Nodes /\ q[l].of \in Nodes
  <1>1. \A x \in Submission : x.from \in Nodes /\ x.of \in Nodes
    BY DEF Submission
  <1>2. \A q \in Seq(Submission) : \A l \in 1 .. Len(q) : q[l] \in Submission
    OBVIOUS
  <1> QED
    BY <1>1, <1>2

LEMMA EmptySequence ==
  /\ Repeated(<<>>) = {} /\ Senders(<<>>) = {} /\ \A a : Counted(a, <<>>)
  <1>1. Len(<<>>) = 0 /\ 1 .. 0 = {}
    OBVIOUS
  <1>2. Repeated(<<>>) = {} /\ Senders(<<>>) = {}
    BY <1>1 DEF Repeated, Senders
  <1> QED
    BY <1>1, <1>2 DEF Counted

-----------------------------------------------------------------------------
(***************************************************************************)
(* What the operations do to the channel of a node.                        *)
(***************************************************************************)
LEMMA ProcessLemma ==
  ASSUME NEW s \in NodeState, NEW q \in Seq(Submission)
  PROVE  LET r == processShares(s, q)
             all == s.shares \o q
             n == Taken(all)
         IN  /\ r \in NodeState
             /\ r.deal = s.deal /\ r.tossed = s.tossed /\ r.unordered = s.unordered
             /\ r.down = s.down /\ r.shares = SubSeq(all, 1, n)
             /\ r.blocked = (n < Len(all))
             /\ r.coin = IF s.coin = {} /\ n >= T + 1
                         THEN {recoverSecretFromPoints(SubSeq(all, 1, T + 1))} ELSE s.coin
  <1> DEFINE all == s.shares \o q
             n == Taken(all)
  <1>1. all \in Seq(Submission)
    BY DEF NodeState
  <1> HIDE DEF all
  <1>2. Len(all) \in Nat /\ n \in 0 .. Len(all)
    BY <1>1, TakenLemma
  <1>3. SubSeq(all, 1, n) \in Seq(Submission)
    BY <1>1, <1>2, Prefix
  <1>4. ASSUME n >= T + 1
        PROVE  {recoverSecretFromPoints(SubSeq(all, 1, T + 1))} \subseteq Points
    <2>1. T + 1 \in 0 .. Len(all)
      BY <1>2, <1>4, ThresholdAssumption
    <2>2. SubSeq(all, 1, T + 1) \in Seq(Submission)
      BY <1>1, <2>1, Prefix
    <2> QED
      BY <2>2, RecoverType
  <1> DEFINE c == IF s.coin = {} /\ n >= T + 1
                  THEN {recoverSecretFromPoints(SubSeq(all, 1, T + 1))} ELSE s.coin
             b == n < Len(all)
  <1>5. processShares(s, q) = [s EXCEPT !.shares = SubSeq(all, 1, n), !.blocked = b, !.coin = c]
    BY Zenon DEF processShares, required, all
  <1>6. c \in SUBSET Points /\ b \in BOOLEAN
    BY <1>4 DEF NodeState
  <1> HIDE DEF c, b, n
  <1>7. /\ processShares(s, q) \in NodeState
        /\ processShares(s, q).deal = s.deal /\ processShares(s, q).tossed = s.tossed
        /\ processShares(s, q).unordered = s.unordered /\ processShares(s, q).down = s.down
        /\ processShares(s, q).shares = SubSeq(all, 1, n)
        /\ processShares(s, q).blocked = b /\ processShares(s, q).coin = c
    BY <1>3, <1>5, <1>6 DEF NodeState
  <1> QED
    BY <1>7, Zenon DEF c, b, n, all

\* A prefix of what was counted is counted.
LEMMA CountedPrefix ==
  ASSUME NEW q \in Seq(Submission), NEW n \in 0 .. Len(q), NEW a, Counted(a, q)
  PROVE  Counted(a, SubSeq(q, 1, n))
  <1> DEFINE p == SubSeq(q, 1, n)
  <1>1. /\ Len(q) \in Nat /\ Len(p) = n /\ \A l \in 1 .. n : p[l] = q[l]
        /\ \A l \in Repeated(p) : l \in Repeated(q) /\ l <= n
    BY Prefix
  <1>2. \A l \in Repeated(p) : l \in 1 .. Len(p)
    BY DEF Repeated
  <1> HIDE DEF p
  <1>3. \A l \in 1 .. Len(p) : a[p[l].from] >= 1
    BY <1>1 DEF Counted
  <1>4. \A l \in Repeated(p) : a[p[l].from] >= 2
    BY <1>1, <1>2 DEF Counted
  <1> QED
    BY <1>3, <1>4 DEF Counted, p

\* A submission that arrives now is counted with those that arrived before.
LEMMA CountedMore ==
  ASSUME NEW q \in Seq(Submission), NEW x \in Submission, NEW a \in [Nodes -> Nat],
         NEW b \in [Nodes -> Nat], b = [a EXCEPT ![x.from] = @ + 1], Counted(a, q)
  PROVE  Counted(b, q) /\ Counted(b, Append(q, x))
  <1> DEFINE p == Append(q, x)
  <1>1. /\ Len(q) \in Nat /\ Len(p) = Len(q) + 1 /\ p[Len(q) + 1] = x
        /\ \A l \in 1 .. Len(q) : p[l] = q[l]
        /\ \A l \in Repeated(p) :
              \/ l \in Repeated(q)
              \/ l = Len(q) + 1 /\ \E m \in 1 .. Len(q) : q[m].from = x.from
    BY OneMore
  <1>2. x.from \in Nodes /\ \A l \in 1 .. Len(q) : q[l].from \in Nodes
    BY SenderType
  <1>3. Repeated(q) \subseteq 1 .. Len(q)
    BY DEF Repeated
  <1>4. \A j \in Nodes : b[j] >= a[j]
    BY <1>2
  <1>5. b[x.from] = a[x.from] + 1 /\ a[x.from] \in Nat
    BY <1>2
  <1> HIDE DEF p
  <1>6. Counted(b, q)
    <2>1. \A l \in 1 .. Len(q) : b[q[l].from] >= a[q[l].from] /\ a[q[l].from] \in Nat /\ b[q[l].from] \in Nat
      BY <1>2, <1>4
    <2> QED
      BY <1>3, <2>1 DEF Counted
  <1>7. \A l \in 1 .. Len(p) : b[p[l].from] >= 1
    BY <1>1, <1>5, <1>6 DEF Counted
  <1>8. ASSUME NEW l \in Repeated(p)
        PROVE  b[p[l].from] >= 2
    <2>1. CASE l \in Repeated(q)
      BY <1>1, <1>3, <1>6, <2>1 DEF Counted
    <2>2. CASE l = Len(q) + 1 /\ \E m \in 1 .. Len(q) : q[m].from = x.from
      <3>1. a[x.from] >= 1
        BY <2>2 DEF Counted
      <3> QED
        BY <1>1, <1>5, <2>2, <3>1
    <2> QED
      BY <1>1, <2>1, <2>2
  <1> QED
    BY <1>6, <1>7, <1>8 DEF Counted, p

\* The toss hands over what had been waiting for it.
LEMMA TossLemma ==
  ASSUME NEW s \in NodeState, NEW a \in [Nodes -> Nat], ChannelOK(s, a), ~s.tossed
  PROVE  LET r == [processShares(s, s.unordered) EXCEPT !.tossed = TRUE, !.unordered = <<>>] IN
         /\ r \in NodeState /\ ChannelOK(r, a)
         /\ r.tossed /\ r.unordered = <<>> /\ r.down = s.down
         /\ \E n \in 0 .. Len(s.unordered) : r.shares = SubSeq(s.unordered, 1, n)
  <1> DEFINE u == s.unordered
             n == Taken(u)
             m == processShares(s, u)
             r == [m EXCEPT !.tossed = TRUE, !.unordered = <<>>]
             p == SubSeq(u, 1, n)
  <1>1. u \in Seq(Submission) /\ s.shares = <<>> /\ Counted(a, u) /\ s.coin = {}
    <2>1. s.shares = <<>> /\ Counted(a, u) /\ (s.coin # {} <=> Len(s.shares) >= T + 1)
      BY DEF ChannelOK
    <2> QED
      BY <2>1, ThresholdAssumption DEF NodeState
  <1>2. s.shares \o u = u
    BY <1>1
  <1>3. /\ Len(u) \in Nat /\ n \in 0 .. Len(u)
        /\ Repeated(u) = {} => n = Len(u)
        /\ Repeated(u) # {} => n \in Repeated(u) /\ \A l \in Repeated(u) : n <= l
    BY <1>1, TakenLemma
  <1>4. /\ p \in Seq(Submission) /\ Len(p) = n
        /\ \A l \in Repeated(p) : l \in Repeated(u) /\ l <= n
        /\ \A k \in 0 .. n : SubSeq(p, 1, k) = SubSeq(u, 1, k)
        /\ n = Len(u) => p = u
    BY <1>1, <1>3, Prefix
  <1>5. /\ m \in NodeState /\ m.down = s.down /\ m.shares = p /\ m.blocked = (n < Len(u))
        /\ m.coin = IF n >= T + 1 THEN {recoverSecretFromPoints(SubSeq(u, 1, T + 1))} ELSE {}
    <2> HIDE DEF m, n, u
    <2> QED
      BY <1>1, <1>2, ProcessLemma, Zenon DEF m, n, u
  <1> HIDE DEF m, n
  <1>6. /\ r \in NodeState /\ r.tossed /\ r.unordered = <<>> /\ r.down = s.down
        /\ r.shares = p /\ r.blocked = (n < Len(u)) /\ r.coin = m.coin
    <2>1. /\ r \in NodeState /\ r.tossed /\ r.unordered = <<>> /\ r.down = m.down
          /\ r.shares = m.shares /\ r.blocked = m.blocked /\ r.coin = m.coin
      <3> HIDE DEF u, p
      <3>1. <<>> \in Seq(Submission)
        OBVIOUS
      <3> QED
        BY <1>5, <3>1 DEF NodeState
    <2> QED
      BY <1>5, <2>1, Zenon
  <1>7. Counted(a, p) /\ Counted(a, <<>>)
    BY <1>1, <1>3, CountedPrefix, EmptySequence
  <1>8. \A l \in Repeated(p) : l = Len(p)
    <2>1. \A l \in Repeated(p) : n <= l /\ l <= n /\ l \in 1 .. Len(u)
      BY <1>3, <1>4 DEF Repeated
    <2> QED
      BY <1>3, <1>4, <2>1
  <1>9. n < Len(u) => \E j \in Nodes : a[j] >= 2
    <2> SUFFICES ASSUME n < Len(u)
                 PROVE  \E j \in Nodes : a[j] >= 2
      OBVIOUS
    <2>1. n \in Repeated(u)
      BY <1>3
    <2>2. n \in 1 .. Len(u)
      BY <2>1 DEF Repeated
    <2>3. u[n].from \in Nodes
      BY <1>1, <2>2, SenderType
    <2> QED
      BY <1>1, <2>1, <2>3 DEF Counted
  <1>10. /\ (m.coin # {}) <=> (n >= T + 1)
         /\ m.coin # {} => m.coin = {recoverSecretFromPoints(SubSeq(p, 1, T + 1))}
    <2>1. n >= T + 1 => SubSeq(p, 1, T + 1) = SubSeq(u, 1, T + 1)
      BY <1>3, <1>4, ThresholdAssumption
    <2> QED
      BY <1>5, <2>1
  <1>11. ~(n < Len(u)) => \A j \in Nodes : a[j] >= 1 => j \in Senders(p)
    <2>1. \A j \in Nodes : a[j] >= 1 => j \in Senders(s.shares) \cup Senders(u)
      BY DEF ChannelOK
    <2>2. \A j \in Nodes : a[j] >= 1 => j \in Senders(u)
      BY <1>1, <2>1, EmptySequence
    <2> HIDE DEF u, p
    <2> QED
      BY <1>3, <1>4, <2>2
  <1>12. ChannelOK(r, a)
    <2> HIDE DEF r, p
    <2> QED
      BY <1>4, <1>6, <1>7, <1>8, <1>9, <1>10, <1>11 DEF ChannelOK
  <1> QED
    BY <1>3, <1>6, <1>12, Zenon DEF r, m, u, p

\* A share that arrives before the toss waits for it.
LEMMA WaitLemma ==
  ASSUME NEW s \in NodeState, NEW a \in [Nodes -> Nat], NEW x \in Submission,
         NEW b \in [Nodes -> Nat], b = [a EXCEPT ![x.from] = @ + 1],
         ChannelOK(s, a), ~s.tossed
  PROVE  LET r == [s EXCEPT !.unordered = Append(@, x)] IN
         /\ r \in NodeState /\ ChannelOK(r, b)
         /\ r.tossed = s.tossed /\ r.shares = s.shares /\ r.unordered = Append(s.unordered, x)
  <1> DEFINE p == Append(s.unordered, x)
             r == [s EXCEPT !.unordered = p]
  <1>1. s.unordered \in Seq(Submission) /\ p \in Seq(Submission) /\ x.from \in Nodes
    BY SenderType DEF NodeState
  <1>2. Senders(p) = Senders(s.unordered) \cup {x.from}
    BY <1>1, OneMore
  <1> HIDE DEF p
  <1>3. /\ r \in NodeState /\ r.deal = s.deal /\ r.tossed = s.tossed /\ r.blocked = s.blocked
        /\ r.shares = s.shares /\ r.coin = s.coin /\ r.unordered = p
    BY <1>1 DEF NodeState
  <1> HIDE DEF r
  <1>4. /\ s.shares = <<>> /\ ~s.blocked /\ Counted(a, s.unordered)
        /\ (s.coin # {}) <=> (Len(s.shares) >= T + 1)
        /\ s.coin # {} => s.coin = {recoverSecretFromPoints(SubSeq(s.shares, 1, T + 1))}
        /\ \A j \in Nodes : a[j] >= 1 => j \in Senders(s.shares) \cup Senders(s.unordered)
    BY DEF ChannelOK
  <1>5. Counted(b, p) /\ Counted(b, s.shares)
    BY <1>1, <1>4, CountedMore, EmptySequence DEF p
  <1>6. \A j \in Nodes : b[j] >= 1 => j \in Senders(s.shares) \cup Senders(p)
    <2>1. \A j \in Nodes \ {x.from} : b[j] = a[j]
      BY <1>1
    <2> QED
      BY <1>2, <1>4, <2>1
  <1>7. ChannelOK(r, b)
    BY <1>3, <1>4, <1>5, <1>6, EmptySequence DEF ChannelOK
  <1> QED
    BY <1>3, <1>7, Zenon DEF r, p

\* A share that arrives after the toss is combined, unless a repeated one was
\* the last to be.
LEMMA SubmitLemma ==
  ASSUME NEW s \in NodeState, NEW a \in [Nodes -> Nat], NEW x \in Submission,
         NEW b \in [Nodes -> Nat], b = [a EXCEPT ![x.from] = @ + 1],
         ChannelOK(s, a), s.tossed, ~s.blocked
  PROVE  LET r == processShares(s, <<x>>) IN
         /\ r \in NodeState /\ ChannelOK(r, b)
         /\ r.tossed = s.tossed /\ r.unordered = s.unordered
         /\ r.shares \in {s.shares, Append(s.shares, x)}
  <1> DEFINE q == s.shares
             p == Append(q, x)
             n == Taken(p)
             r == processShares(s, <<x>>)
  <1>1. q \in Seq(Submission) /\ x.from \in Nodes /\ <<x>> \in Seq(Submission)
    BY SenderType DEF NodeState
  <1>2. /\ p \in Seq(Submission) /\ q \o <<x>> = p
        /\ Len(q) \in Nat /\ Len(p) = Len(q) + 1
        /\ Repeated(q) \subseteq Repeated(p)
        /\ \A l \in Repeated(p) :
             \/ l \in Repeated(q)
             \/ l = Len(q) + 1 /\ \E m \in 1 .. Len(q) : q[m].from = x.from
        /\ \A k \in 0 .. Len(q) : SubSeq(p, 1, k) = SubSeq(q, 1, k)
        /\ Senders(p) = Senders(q) \cup {x.from}
    BY <1>1, OneMore
  <1>3. /\ s.unordered = <<>> /\ Counted(a, q)
        /\ \A l \in Repeated(q) : l = Len(q)
        /\ (s.coin # {}) <=> (Len(q) >= T + 1)
        /\ s.coin # {} => s.coin = {recoverSecretFromPoints(SubSeq(q, 1, T + 1))}
        /\ \A j \in Nodes : a[j] >= 1 => j \in Senders(q) \cup Senders(s.unordered)
    BY DEF ChannelOK
  <1>4. /\ n \in 0 .. Len(p)
        /\ Repeated(p) = {} => n = Len(p)
        /\ Repeated(p) # {} => n \in Repeated(p) /\ \A l \in Repeated(p) : n <= l
    BY <1>2, TakenLemma
  <1>5. /\ r \in NodeState /\ r.tossed = s.tossed /\ r.unordered = s.unordered
        /\ r.shares = SubSeq(p, 1, n) /\ r.blocked = (n < Len(p))
        /\ r.coin = IF s.coin = {} /\ n >= T + 1
                    THEN {recoverSecretFromPoints(SubSeq(p, 1, T + 1))} ELSE s.coin
    <2>1. LET all == s.shares \o <<x>> IN
          /\ r \in NodeState /\ r.tossed = s.tossed /\ r.unordered = s.unordered
          /\ r.shares = SubSeq(all, 1, Taken(all)) /\ r.blocked = (Taken(all) < Len(all))
          /\ r.coin = IF s.coin = {} /\ Taken(all) >= T + 1
                      THEN {recoverSecretFromPoints(SubSeq(all, 1, T + 1))} ELSE s.coin
      BY <1>1, ProcessLemma, Zenon
    <2> QED
      BY <1>2, <2>1, Zenon
  <1>6. Counted(b, q) /\ Counted(b, p)
    BY <1>1, <1>3, CountedMore
  <1>7. \A j \in Nodes : b[j] >= 1 => j \in Senders(p)
    <2>1. \A j \in Nodes \ {x.from} : b[j] = a[j]
      BY <1>1
    <2> QED
      BY <1>2, <1>3, <2>1, EmptySequence
  <1>8. SubSeq(p, 1, Len(p)) = p /\ SubSeq(p, 1, Len(q)) = q
    <2>1. SubSeq(p, 1, Len(p)) = p
      BY <1>2, Prefix
    <2>2. SubSeq(q, 1, Len(q)) = q
      BY <1>1, Prefix
    <2> QED
      BY <1>2, <2>1, <2>2
  <1> HIDE DEF r, n, p, q
  <1>9. CASE Repeated(q) = {}
    <2>1. n = Len(p) /\ \A l \in Repeated(p) : l = Len(p)
      BY <1>2, <1>4, <1>9
    <2>2. r.shares = p /\ ~r.blocked
      <3>1. ~(n < Len(p))
        BY <1>2, <2>1
      <3> QED
        BY <1>5, <1>8, <2>1, <3>1, Zenon
    <2>3. (r.coin # {}) <=> (Len(p) >= T + 1)
      <3>1. CASE s.coin = {}
        BY <1>5, <2>1, <3>1, Zenon
      <3>2. CASE s.coin # {}
        <4>1. r.coin = s.coin
          BY <1>5, <3>2, Zenon
        <4>2. Len(p) >= T + 1
          BY <1>2, <1>3, <3>2, ThresholdAssumption
        <4> QED
          BY <3>2, <4>1, <4>2
      <3> QED
        BY <3>1, <3>2
    <2>4. r.coin # {} => r.coin = {recoverSecretFromPoints(SubSeq(p, 1, T + 1))}
      <3>1. CASE s.coin = {}
        BY <1>5, <3>1
      <3>2. CASE s.coin # {}
        <4>1. SubSeq(p, 1, T + 1) = SubSeq(q, 1, T + 1)
          BY <1>2, <1>3, <3>2, ThresholdAssumption
        <4> QED
          BY <1>3, <1>5, <3>2, <4>1
      <3> QED
        BY <3>1, <3>2
    <2>5. ChannelOK(r, b)
      BY <1>3, <1>5, <1>6, <1>7, <2>1, <2>2, <2>3, <2>4, EmptySequence DEF ChannelOK
    <2> QED
      BY <1>5, <2>2, <2>5, Zenon DEF r, p, q
  <1>10. CASE Repeated(q) # {}
    <2>1. Len(q) \in Repeated(q) /\ Len(q) \in Repeated(p)
      BY <1>2, <1>3, <1>10
    <2>2. n = Len(q)
      BY <1>2, <1>3, <1>4, <2>1
    <2>3. r.shares = q /\ r.blocked
      <3>1. n < Len(p)
        BY <1>2, <2>2
      <3> QED
        BY <1>5, <1>8, <2>2, <3>1, Zenon
    <2>4. r.coin = s.coin
      BY <1>3, <1>5, <2>2
    <2>5. \E j \in Nodes : b[j] >= 2
      <3>1. Len(q) \in 1 .. Len(q)
        BY <2>1 DEF Repeated
      <3>2. q[Len(q)].from \in Nodes
        BY <1>1, <3>1, SenderType
      <3> QED
        BY <1>6, <2>1, <3>2 DEF Counted
    <2>6. ChannelOK(r, b)
      BY <1>3, <1>5, <1>6, <2>3, <2>4, <2>5, EmptySequence DEF ChannelOK, q
    <2> QED
      BY <1>5, <2>3, <2>6, Zenon DEF r, p, q
  <1> QED
    BY <1>9, <1>10

-----------------------------------------------------------------------------
(***************************************************************************)
(* The inductive invariant.                                                *)
(***************************************************************************)
LEMMA InitInv == Init => IInv
  <1> SUFFICES ASSUME Init
               PROVE  IInv
    OBVIOUS
  <1>1. TypeOK
    BY DEF Init, TypeOK, NodeState
  <1>2. ASSUME NEW i \in Correct
        PROVE  /\ ChannelOK(node[i], arrived[i])
               /\ Proven(Tossers, node[i].shares) /\ Proven(Tossers, node[i].unordered)
    <2>1. /\ ~node[i].tossed /\ node[i].shares = <<>> /\ node[i].unordered = <<>>
          /\ ~node[i].blocked /\ node[i].coin = {} /\ \A j \in Nodes : arrived[i][j] = 0
      BY DEF Init
    <2>2. ~(Len(<<>>) >= T + 1)
      BY ThresholdAssumption
    <2>3. Proven(Tossers, <<>>)
      BY DEF Proven
    <2> QED
      BY <2>1, <2>2, <2>3, EmptySequence DEF ChannelOK
  <1> QED
    BY <1>1, <1>2 DEF IInv

\* A node whose channel becomes r and whose counts become a keeps the invariant
\* if these do, and if it has not forgotten that it tossed.
LEMMA Replace ==
  ASSUME IInv, NEW i \in Correct, NEW r \in NodeState, NEW a \in [Nodes -> Nat],
         node' = [node EXCEPT ![i] = r], arrived' = [arrived EXCEPT ![i] = a],
         ChannelOK(r, a), node[i].tossed => r.tossed, Proven(Tossers, r.shares), Proven(Tossers, r.unordered)
  PROVE  IInv'
  <1>1. TypeOK'
    BY DEF IInv, TypeOK
  <1>2. /\ node'[i] = r /\ \A j \in Correct \ {i} : node'[j] = node[j]
        /\ arrived'[i] = a /\ \A j \in Correct \ {i} : arrived'[j] = arrived[j]
    BY DEF IInv, TypeOK
  <1>3. Tossers \subseteq Tossers'
    BY <1>2 DEF Tossers, isTossValid
  <1>4. ASSUME NEW j \in Correct
        PROVE  /\ ChannelOK(node'[j], arrived'[j])
               /\ Proven(Tossers', node'[j].shares) /\ Proven(Tossers', node'[j].unordered)
    <2>1. CASE j = i
      BY <1>2, <1>3, <2>1 DEF Proven
    <2>2. CASE j # i
      BY <1>2, <1>3, <2>2 DEF IInv, Proven
    <2> QED
      BY <2>1, <2>2
  <1> QED
    BY <1>1, <1>4 DEF IInv

\* The deal and the end of a process leave the shares alone.
LEMMA FlagStep ==
  ASSUME IInv, NEW i \in Correct, initializeChannel(i) \/ bebDeliver(i)
  PROVE  IInv'
  <1>1. PICK r \in {[node[i] EXCEPT !.deal = TRUE], [node[i] EXCEPT !.down = TRUE]} :
          node' = [node EXCEPT ![i] = r] /\ UNCHANGED arrived
    BY DEF initializeChannel, bebDeliver
  <1>2. node[i] \in NodeState /\ arrived[i] \in [Nodes -> Nat] /\ arrived' = [arrived EXCEPT ![i] = arrived[i]]
    BY <1>1 DEF IInv, TypeOK
  <1>3. /\ r \in NodeState /\ r.tossed = node[i].tossed /\ r.shares = node[i].shares
        /\ r.unordered = node[i].unordered /\ r.blocked = node[i].blocked /\ r.coin = node[i].coin
    BY <1>1, <1>2 DEF NodeState
  <1>4. ChannelOK(node[i], arrived[i]) /\ Proven(Tossers, node[i].shares) /\ Proven(Tossers, node[i].unordered)
    BY DEF IInv
  <1>5. ChannelOK(r, arrived[i])
    BY <1>3, <1>4 DEF ChannelOK
  <1> QED
    BY <1>1, <1>2, <1>3, <1>4, <1>5, Replace

LEMMA TossStep ==
  ASSUME IInv, NEW i \in Correct, TossCoin(i)
  PROVE  IInv'
  <1> DEFINE s == node[i]
             r == [processShares(s, s.unordered) EXCEPT !.tossed = TRUE, !.unordered = <<>>]
  <1>1. node' = [node EXCEPT ![i] = r] /\ UNCHANGED arrived /\ ~s.tossed
    BY Zenon DEF TossCoin
  <1>2. /\ s \in NodeState /\ arrived[i] \in [Nodes -> Nat]
        /\ arrived' = [arrived EXCEPT ![i] = arrived[i]] /\ s.unordered \in Seq(Submission)
    BY <1>1 DEF IInv, TypeOK, NodeState
  <1>3. ChannelOK(s, arrived[i]) /\ Proven(Tossers, s.unordered)
    BY DEF IInv
  <1>4. /\ r \in NodeState /\ ChannelOK(r, arrived[i]) /\ r.tossed /\ r.unordered = <<>>
        /\ \E n \in 0 .. Len(s.unordered) : r.shares = SubSeq(s.unordered, 1, n)
    <2> HIDE DEF s
    <2> QED
      BY <1>1, <1>2, <1>3, TossLemma
  <1> HIDE DEF r
  <1>5. PICK n \in 0 .. Len(s.unordered) : r.shares = SubSeq(s.unordered, 1, n)
    BY <1>4
  <1>6. Proven(Tossers, r.shares) /\ Proven(Tossers, r.unordered)
    <2>1. /\ Len(s.unordered) \in Nat /\ Len(r.shares) = n
          /\ \A l \in 1 .. n : r.shares[l] = s.unordered[l]
      BY <1>2, <1>5, Prefix
    <2>2. \A l \in 1 .. n : l \in 1 .. Len(s.unordered)
      BY <2>1
    <2>3. Proven(Tossers, r.shares)
      BY <1>3, <2>1, <2>2 DEF Proven
    <2> QED
      BY <1>4, <2>3 DEF Proven
  <1> QED
    BY <1>1, <1>2, <1>4, <1>6, Replace

LEMMA ShareStep ==
  ASSUME IInv, NEW i \in Correct, NEW j \in Nodes, NEW k \in Nodes,
         scheduleShareSubmission(i, j, k)
  PROVE  IInv'
  <1> DEFINE s == node[i]
             x == [from |-> j, of |-> k]
             a == arrived[i]
             b == [a EXCEPT ![j] = @ + 1]
             r == IF s.tossed THEN processShares(s, <<x>>)
                  ELSE [s EXCEPT !.unordered = Append(@, x)]
  <1>1. node' = [node EXCEPT ![i] = r] /\ isTossValid(k) /\ ~s.blocked
    BY Zenon DEF scheduleShareSubmission
  <1>2. /\ arrived \in [Correct -> [Nodes -> Nat]] /\ s \in NodeState
        /\ x \in Submission /\ x.from = j /\ x.of = k
    BY DEF IInv, TypeOK, Submission
  <1>3. a \in [Nodes -> Nat] /\ b \in [Nodes -> Nat] /\ arrived' = [arrived EXCEPT ![i] = b]
    BY <1>2 DEF scheduleShareSubmission
  <1>4. ChannelOK(s, a) /\ Proven(Tossers, s.shares) /\ Proven(Tossers, s.unordered)
    BY DEF IInv
  <1>5. s.shares \in Seq(Submission) /\ s.unordered \in Seq(Submission)
    BY <1>2 DEF NodeState
  <1>6. ASSUME NEW q \in Seq(Submission), Proven(Tossers, q)
        PROVE  Proven(Tossers, Append(q, x))
    <2> HIDE DEF x
    <2>1. /\ Len(q) \in Nat /\ Len(Append(q, x)) = Len(q) + 1 /\ Append(q, x)[Len(q) + 1] = x
          /\ \A l \in 1 .. Len(q) : Append(q, x)[l] = q[l]
      BY <1>2, OneMore
    <2>2. \A l \in 1 .. Len(Append(q, x)) : l \in 1 .. Len(q) \/ l = Len(q) + 1
      BY <2>1
    <2> QED
      BY <1>1, <1>2, <1>6, <2>1, <2>2 DEF Proven, Tossers
  <1>7. b = [a EXCEPT ![x.from] = @ + 1]
    BY <1>2, Zenon
  <1> HIDE DEF x, a, b
  <1>8. /\ r \in NodeState /\ ChannelOK(r, b) /\ r.tossed = s.tossed
        /\ Proven(Tossers, r.shares) /\ Proven(Tossers, r.unordered)
    <2>1. CASE s.tossed
      <3>1. r = processShares(s, <<x>>)
        BY <2>1, Zenon
      <3>2. /\ r \in NodeState /\ ChannelOK(r, b) /\ r.tossed = s.tossed
            /\ r.unordered = s.unordered /\ r.shares \in {s.shares, Append(s.shares, x)}
        <4> HIDE DEF r, s
        <4> QED
          BY <1>1, <1>2, <1>3, <1>4, <1>7, <2>1, <3>1, SubmitLemma
      <3> QED
        BY <1>4, <1>5, <1>6, <3>2, Zenon
    <2>2. CASE ~s.tossed
      <3>1. r = [s EXCEPT !.unordered = Append(@, x)]
        BY <2>2, Zenon
      <3>2. /\ r \in NodeState /\ ChannelOK(r, b) /\ r.tossed = s.tossed
            /\ r.shares = s.shares /\ r.unordered = Append(s.unordered, x)
        <4> HIDE DEF r, s
        <4> QED
          BY <1>2, <1>3, <1>4, <1>7, <2>2, <3>1, WaitLemma
      <3> QED
        BY <1>4, <1>5, <1>6, <3>2, Zenon
    <2> QED
      BY <2>1, <2>2
  <1> HIDE DEF r
  <1> QED
    BY <1>1, <1>3, <1>8, Replace

LEMMA NextInv == IInv /\ [Next]_vars => IInv'
  <1> SUFFICES ASSUME IInv, [Next]_vars
               PROVE  IInv'
    OBVIOUS
  <1>1. CASE UNCHANGED vars
    BY <1>1 DEF vars, IInv, TypeOK, Tossers, isTossValid
  <1>2. ASSUME NEW i \in Correct, initializeChannel(i) \/ bebDeliver(i)
        PROVE  IInv'
    BY <1>2, FlagStep
  <1>3. ASSUME NEW i \in Correct, TossCoin(i)
        PROVE  IInv'
    BY <1>3, TossStep
  <1>4. ASSUME NEW i \in Correct, NEW j \in Nodes, NEW k \in Nodes,
               scheduleShareSubmission(i, j, k)
        PROVE  IInv'
    BY <1>4, ShareStep
  <1> QED
    BY <1>1, <1>2, <1>3, <1>4 DEF Next

\* The invariant holds in every state, whatever the faulty nodes send.
THEOREM Invariance == Spec => []IInv
  BY InitInv, NextInv, PTL DEF Spec

\* The fields of a CTChannel keep their types, and a coin is one of the points
\* that combining shares may give.
THEOREM TypeCorrect == Spec => []TypeOK
  BY Invariance, PTL DEF IInv

-----------------------------------------------------------------------------
(***************************************************************************)
(* The properties.                                                         *)
(***************************************************************************)
\* What a node that knows a coin has computed it from.
LEMMA FirstShares ==
  ASSUME IInv, NEW i \in Correct, node[i].coin # {}
  PROVE  LET q == node[i].shares
             p == SubSeq(q, 1, T + 1)
         IN  /\ q \in Seq(Submission) /\ p \in Seq(Submission) /\ T + 1 \in Nat
             /\ Len(p) = T + 1 /\ Len(q) \in Nat /\ Len(q) >= T + 1
             /\ \A l \in 1 .. (T + 1) : p[l] = q[l]
             /\ node[i].coin = {recoverSecretFromPoints(p)}
  <1> DEFINE q == node[i].shares
  <1>1. q \in Seq(Submission) /\ Len(q) \in Nat
    BY DEF IInv, TypeOK, NodeState
  <1>2. Len(q) >= T + 1 /\ node[i].coin = {recoverSecretFromPoints(SubSeq(q, 1, T + 1))}
    BY DEF IInv, ChannelOK
  <1>3. T + 1 \in 0 .. Len(q) /\ T + 1 \in Nat
    BY <1>1, <1>2, ThresholdAssumption
  <1> QED
    BY <1>1, <1>2, <1>3, Prefix

LEMMA SparedCoin ==
  ASSUME IInv, NEW i \in Correct, Spared(i), node[i].coin # {}
  PROVE  node[i].coin = {Secret}
  <1> DEFINE q == node[i].shares
             p == SubSeq(q, 1, T + 1)
  <1>1. /\ q \in Seq(Submission) /\ Len(p) = T + 1 /\ T + 1 \in Nat
        /\ Len(q) \in Nat /\ Len(q) >= T + 1
        /\ \A l \in 1 .. (T + 1) : p[l] = q[l]
        /\ node[i].coin = {recoverSecretFromPoints(p)}
    BY FirstShares
  <1>2. ASSUME NEW l \in Repeated(q)
        PROVE  FALSE
    <2>1. l \in 1 .. Len(q)
      BY DEF Repeated
    <2>2. q[l].from \in Nodes
      BY <1>1, <2>1, SenderType
    <2>3. arrived[i][q[l].from] >= 2 /\ arrived[i][q[l].from] <= 1 /\ arrived[i][q[l].from] \in Nat
      BY <2>2 DEF IInv, TypeOK, ChannelOK, Counted, Spared
    <2> QED
      BY <2>3
  <1>3. \A l \in 1 .. Len(q) : q[l].from = q[l].of
    BY DEF Spared
  <1> HIDE DEF p, q
  <1>4. SameOwner(p) = {}
    BY <1>1, <1>2, <1>3 DEF SameOwner, Repeated
  <1> QED
    BY <1>1, <1>4, Zenon DEF recoverSecretFromPoints

\* Nodes that are spared repeated and relayed shares and know a coin know the
\* same, whichever T+1 shares each of them combined (instance.go:139).
THEOREM SparedAgreementHolds == Spec => []SparedAgreement
  <1>1. IInv => SparedAgreement
    BY SparedCoin DEF SparedAgreement
  <1> QED
    BY <1>1, Invariance, PTL

\* A sender is counted twice, and the invokers blocked (instance.go:135), only
\* where it sent two shares.
THEOREM OnlyRepeatsBlockHolds == Spec => []OnlyRepeatsBlock
  <1>1. ASSUME IInv, NEW i \in Correct, node[i].blocked \/ Repeated(node[i].shares) # {}
        PROVE  \E j \in Nodes : arrived[i][j] >= 2
    <2>1. CASE node[i].blocked
      BY <1>1, <2>1 DEF IInv, ChannelOK
    <2>2. CASE Repeated(node[i].shares) # {}
      <3>1. PICK l : l \in Repeated(node[i].shares)
        BY <2>2
      <3>2. l \in 1 .. Len(node[i].shares)
        BY <3>1 DEF Repeated
      <3>3. node[i].shares \in Seq(Submission)
        BY <1>1 DEF IInv, TypeOK, NodeState
      <3>4. node[i].shares[l].from \in Nodes
        BY <3>2, <3>3, SenderType
      <3> QED
        BY <1>1, <3>1, <3>4 DEF IInv, ChannelOK, Counted
    <2> QED
      BY <1>1, <2>1, <2>2
  <1>2. IInv => OnlyRepeatsBlock
    BY <1>1 DEF OnlyRepeatsBlock
  <1> QED
    BY <1>2, Invariance, PTL

\* Shares that give the coin are those of different owners: with a repeated one
\* some owner occurs in the result.
LEMMA SecretOwners ==
  ASSUME NEW p \in Seq(Submission), Len(p) = T + 1, recoverSecretFromPoints(p) = Secret
  PROVE  SameOwner(p) = {}
  <1> SUFFICES ASSUME SameOwner(p) # {}
               PROVE  FALSE
    OBVIOUS
  <1> DEFINE k == p[1].of
             S == {l \in 1 .. Len(p) : p[l].of = k}
  <1>1. 1 \in 1 .. Len(p) /\ Len(p) \in Nat
    BY ThresholdAssumption
  <1>2. k \in Nodes
    BY <1>1, SenderType
  <1>3. recoverSecretFromPoints(p) = [n \in Nodes |-> Cardinality({l \in 1 .. Len(p) : p[l].of = n})]
    BY Zenon DEF recoverSecretFromPoints
  <1>4. Cardinality(S) = 0
    BY <1>2, <1>3 DEF Secret
  <1>5. IsFiniteSet(1 .. Len(p)) /\ S \subseteq 1 .. Len(p) /\ 1 \in S
    BY <1>1, FS_Interval
  <1>6. IsFiniteSet(S)
    BY <1>5, FS_Subset
  <1> HIDE DEF S
  <1> QED
    BY <1>4, <1>5, <1>6, FS_EmptySet

\* A node that knows the right coin has combined shares of T+1 nodes, and each
\* of these has tossed the coin or is faulty.
THEOREM CoinHiddenHolds == Spec => []CoinHidden
  <1>1. ASSUME IInv, NEW i \in Correct, node[i].coin = {Secret}
        PROVE  Cardinality({k \in Correct : node[k].tossed} \cup Faulty) >= T + 1
    <2> DEFINE S == {k \in Correct : node[k].tossed} \cup Faulty
               q == node[i].shares
               p == SubSeq(q, 1, T + 1)
    <2>1. /\ q \in Seq(Submission) /\ p \in Seq(Submission) /\ Len(p) = T + 1 /\ T + 1 \in Nat
          /\ Len(q) \in Nat /\ Len(q) >= T + 1 /\ \A l \in 1 .. (T + 1) : p[l] = q[l]
          /\ node[i].coin = {recoverSecretFromPoints(p)}
      <3>1. node[i].coin # {}
        BY <1>1
      <3> QED
        BY <1>1, <3>1, FirstShares
    <2>2. IsFiniteSet(S) /\ Cardinality(S) \in Nat
      <3>1. S \subseteq Nodes
        BY NodesAssumption DEF Correct
      <3> QED
        BY <3>1, NodesAssumption, FS_Subset, FS_CardinalityType
    <2>3. \A l \in 1 .. (T + 1) : p[l].of \in S
      <3>1. \A l \in 1 .. Len(q) : q[l].of \in Tossers
        BY <1>1 DEF IInv, Proven
      <3>2. Tossers \subseteq S
        BY DEF Tossers, isTossValid, Correct
      <3>3. \A l \in 1 .. (T + 1) : l \in 1 .. Len(q)
        BY <2>1
      <3> QED
        BY <2>1, <3>1, <3>2, <3>3
    <2> HIDE DEF S, q, p
    <2>4. SameOwner(p) = {}
      <3>1. recoverSecretFromPoints(p) = Secret
        BY <1>1, <2>1
      <3> QED
        BY <2>1, <3>1, SecretOwners
    <2>5. IsFiniteSet(1 .. (T + 1)) /\ Cardinality(1 .. (T + 1)) = T + 1
      BY ThresholdAssumption, FS_Interval
    <2>6. ASSUME Cardinality(S) < T + 1
          PROVE  FALSE
      <3> DEFINE h == [l \in 1 .. (T + 1) |-> p[l].of]
      <3>1. h \in [1 .. (T + 1) -> S]
        BY <2>3
      <3> HIDE DEF h
      <3>2. \E x, y \in 1 .. (T + 1) : x # y /\ h[x] = h[y]
        BY <3>1, <2>2, <2>5, <2>6, FS_PigeonHole
      <3>3. \E x, y \in 1 .. Len(p) : x < y /\ p[x].of = p[y].of
        BY <3>2, <2>1, ThresholdAssumption DEF h
      <3> QED
        BY <3>3, <2>1, <2>4 DEF SameOwner
    <2> QED
      BY <2>2, <2>6, ThresholdAssumption DEF S
  <1>2. IInv => CoinHidden
    BY <1>1 DEF CoinHidden
  <1> QED
    BY <1>2, Invariance, PTL

\* There are at least as many submissions as senders.
LEMMA SendersCount ==
  ASSUME NEW q \in Seq(Submission)
  PROVE  IsFiniteSet(Senders(q)) /\ Cardinality(Senders(q)) <= Len(q)
  <1>1. Len(q) \in Nat /\ IsFiniteSet(1 .. Len(q)) /\ Cardinality(1 .. Len(q)) = Len(q)
    <2>1. Len(q) \in Nat
      OBVIOUS
    <2>2. /\ IsFiniteSet(1 .. Len(q))
          /\ Cardinality(1 .. Len(q)) = IF 1 > Len(q) THEN 0 ELSE Len(q) - 1 + 1
      BY <2>1, FS_Interval
    <2> QED
      BY <2>1, <2>2
  <1> DEFINE g == [l \in 1 .. Len(q) |-> q[l].from]
  <1>2. g \in Surjection(1 .. Len(q), Senders(q))
    BY DEF Senders, Surjection
  <1> HIDE DEF g
  <1> QED
    BY <1>1, <1>2, FS_Surjection

\* Where more than T correct nodes run, those that can still handle shares know a
\* coin once all have tossed and their shares are handled, in whatever order the
\* deal, the toss and the shares came (channel.go:86, 128).
THEOREM QuiescentTerminationHolds == Spec => []QuiescentTermination
  <1>1. ASSUME IInv, Quiescent, Cardinality(Up) > T, NEW i \in Serving
        PROVE  node[i].coin # {}
    <2> DEFINE q == node[i].shares
    <2>1. i \in Correct /\ i \in Up /\ ~node[i].blocked /\ node[i].tossed
      BY <1>1 DEF Serving, Up, Quiescent
    <2>2. /\ q \in Seq(Submission) /\ Len(q) \in Nat /\ node[i].unordered = <<>>
          /\ \A j \in Nodes : arrived[i][j] >= 1 => j \in Senders(q) \cup Senders(node[i].unordered)
          /\ (node[i].coin # {}) <=> (Len(q) >= T + 1)
      BY <1>1, <2>1 DEF IInv, TypeOK, NodeState, ChannelOK
    <2>3. Up \subseteq Senders(q)
      <3> SUFFICES ASSUME NEW j \in Up
                   PROVE  j \in Senders(q)
        OBVIOUS
      <3>1. j \in Correct /\ j \in Nodes
        BY DEF Up, Correct
      <3>2. arrived[i][j] >= 1
        BY <1>1, <2>1, <3>1, CopiesAssumption DEF Quiescent
      <3> QED
        BY <2>2, <3>1, <3>2, EmptySequence
    <2> HIDE DEF q
    <2>4. IsFiniteSet(Senders(q)) /\ Cardinality(Senders(q)) <= Len(q)
      BY <2>2, SendersCount
    <2>5. /\ Cardinality(Up) <= Cardinality(Senders(q)) /\ Cardinality(Up) \in Nat
          /\ Cardinality(Senders(q)) \in Nat
      BY <2>3, <2>4, FS_Subset, FS_CardinalityType
    <2> QED
      BY <1>1, <2>2, <2>4, <2>5, ThresholdAssumption
  <1>2. IInv => QuiescentTermination
    BY <1>1 DEF QuiescentTermination
  <1> QED
    BY <1>2, Invariance, PTL
=============================================================================
