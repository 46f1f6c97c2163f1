---------------------------- MODULE OverlayProofs ----------------------------
(***************************************************************************)
(* How the nodes of any network come to know each other, however their     *)
(* joining interleaves.                                                    *)
(*                                                                         *)
(* A node is answered by the contact once, so it dials each node once, and *)
(* its connections are told apart by name unless it has a twin.  N-1       *)
(* signals then are those of all other nodes.                              *)
(***************************************************************************)
EXTENDS Overlay, FiniteSetTheorems, TLAPS

-----------------------------------------------------------------------------
(***************************************************************************)
(* The inductive invariant.                                                *)
(***************************************************************************)
\* The connection that a dialled to b.
Link(a, b) == <<a, b>>

\* A connection has its two ends, and the contact dials nobody.
EndsAt(i, c) ==
  stage[i][c] # "none" =>
    /\ i \in {c[1], c[2]} /\ c[1] # Contact
    /\ stage[c[1]][c] # "none" /\ stage[c[2]][c] # "none"
EndsOpen == \A i \in Nodes, c \in Conn : EndsAt(i, c)

\* A node dials the contact when it joins, and others when the contact answers.
Answered(i) == stage[Contact][Link(i, Contact)] \in {"reading", "closing", "closed"}
DialsContact ==
  \A i \in Nodes \ {Contact} : i \in hasJoined <=> stage[i][Link(i, Contact)] # "none"
ToldOnce ==
  \A m \in told : m[1] # Contact /\ m[2] # Contact /\ stage[m[1]][m] = "none" /\ Answered(m[1])
DialsTold ==
  \A c \in Conn : (c[2] # Contact /\ stage[c[1]][c] # "none") => Answered(c[1])

\* The list of peers and the signals follow the goroutines.
ListedAt(i, c) ==
  /\ c \in peers[i] => stage[i][c] \in {"listed", "reading"}
  /\ (stage[i][c] \in {"listed", "reading"} /\ c \notin peers[i]) => Link(c[2], c[1]) \in broken
  /\ stage[i][c] \in {"closing", "closed"} => c \in broken
  /\ stage[i][c] = "listed" => i = Contact
ListedRight == \A i \in Nodes, c \in Conn : ListedAt(i, c)
SignalsAt(i, c) ==
  /\ c \in signalled[i] => stage[i][c] \in {"reading", "closing", "closed"}
  /\ stage[i][c] = "reading" => c \in signalled[i]
SignalsRight == \A i \in Nodes, c \in Conn : SignalsAt(i, c)

\* Who has started had the signals of as many connections as there are others.
Waited == \A i \in Nodes : participants[i] # None => Cardinality(signalled[i]) >= N - 1

ConnInv ==
  /\ TypeOK /\ EndsOpen /\ DialsContact /\ ToldOnce /\ DialsTold
  /\ ListedRight /\ SignalsRight

IInv == ConnInv /\ Waited /\ NobodyApart /\ DealComplete /\ KnowsEverybody

-----------------------------------------------------------------------------
(***************************************************************************)
(* Connections and their names.                                            *)
(***************************************************************************)
LEMMA ConnPairs ==
  ASSUME NEW c \in Conn
  PROVE  /\ c = Link(c[1], c[2]) /\ c[1] \in Nodes /\ c[2] \in Nodes /\ c[1] # c[2]
         /\ Ends(c) = {c[1], c[2]}
BY DEF Conn, Ends, Link

LEMMA PairsConn ==
  ASSUME NEW a \in Nodes, NEW b \in Nodes, a # b
  PROVE  Link(a, b) \in Conn /\ Link(a, b)[1] = a /\ Link(a, b)[2] = b
BY DEF Conn, Link

\* Two connections of a node with one name are equal or twins of each other.
LEMMA SameName ==
  ASSUME NEW i \in Nodes, NEW c \in Conn, NEW d \in Conn,
         i \in Ends(c), i \in Ends(d), name(i, c) = name(i, d)
  PROVE  c = d \/ (c = Link(d[2], d[1]) /\ d = Link(c[2], c[1]))
<1>1. c = Link(c[1], c[2]) /\ c[1] # c[2] /\ i \in {c[1], c[2]}
  BY ConnPairs
<1>2. d = Link(d[1], d[2]) /\ d[1] # d[2] /\ i \in {d[1], d[2]}
  BY ConnPairs
<1>3. (c[1] = d[1] /\ c[2] = d[2]) \/ (c[1] = d[2] /\ c[2] = d[1])
  BY <1>1, <1>2 DEF name
<1> QED
  BY <1>1, <1>2, <1>3

LEMMA NameIsOther ==
  ASSUME NEW i \in Nodes, NEW c \in Conn, i \in Ends(c)
  PROVE  name(i, c) \in Nodes \ {i}
BY ConnPairs DEF name

LEMMA FiniteConn == IsFiniteSet(Conn) /\ \A S \in SUBSET Conn : IsFiniteSet(S)
<1>1. IsFiniteSet(Nodes \X Nodes)
  BY NodesAssumption, FS_Product
<1>2. Conn \in SUBSET (Nodes \X Nodes)
  BY DEF Conn
<1>3. IsFiniteSet(Conn)
  BY <1>1, <1>2, FS_Subset
<1> QED
  BY <1>3, FS_Subset

LEMMA OtherNodes ==
  ASSUME NEW i \in Nodes
  PROVE  IsFiniteSet(Nodes \ {i}) /\ Cardinality(Nodes \ {i}) = N - 1 /\ N \in Nat
BY NodesAssumption, FS_RemoveElement, FS_CardinalityType DEF N

\* N-1 connections with different names lead to everybody.
LEMMA EnoughNames ==
  ASSUME NEW i \in Nodes, NEW S \in SUBSET Conn, Cardinality(S) >= N - 1,
         \A c \in S : i \in Ends(c),
         \A c, d \in S : name(i, c) = name(i, d) => c = d
  PROVE  {name(i, c) : c \in S} = Nodes \ {i}
<1> DEFINE O == Nodes \ {i}
           f == [c \in S |-> name(i, c)]
<1>1. f \in Injection(S, O)
  BY NameIsOther DEF Injection, IsInjective
<1>2. IsFiniteSet(O) /\ Cardinality(O) = N - 1 /\ N \in Nat
  BY OtherNodes
<1>3. IsFiniteSet(S) /\ Cardinality(S) <= Cardinality(O)
      /\ (Cardinality(S) = Cardinality(O) => f \in Surjection(S, O))
  BY <1>1, <1>2, FS_Injection
<1>4. Cardinality(S) \in Nat
  BY <1>3, FS_CardinalityType
<1>5. f \in Surjection(S, O)
  BY <1>2, <1>3, <1>4
<1>6. \A x \in O : \E c \in S : f[c] = x
  BY <1>5 DEF Surjection
<1> QED
  BY <1>6, NameIsOther

\* Connections that lead to everybody are N-1 at least.
LEMMA EnoughSignals ==
  ASSUME NEW i \in Nodes, NEW S \in SUBSET Conn, {name(i, c) : c \in S} = Nodes \ {i}
  PROVE  Cardinality(S) >= N - 1
<1> DEFINE O == Nodes \ {i}
           f == [c \in S |-> name(i, c)]
<1>1. f \in Surjection(S, O)
  BY DEF Surjection
<1>2. IsFiniteSet(S)
  BY FiniteConn
<1>3. Cardinality(O) <= Cardinality(S)
  BY <1>1, <1>2, FS_Surjection
<1> QED
  BY <1>2, <1>3, OtherNodes, FS_CardinalityType

\* The open ends of a node that has no twin have different names.
LEMMA NoTwinNames ==
  ASSUME ConnInv, NEW i \in Nodes, i = Contact \/ Twins(i) = {},
         NEW c \in Conn, NEW d \in Conn, stage[i][c] # "none", stage[i][d] # "none",
         name(i, c) = name(i, d)
  PROVE  c = d
<1>1. i \in Ends(c) /\ i \in Ends(d) /\ c[1] # Contact /\ d[1] # Contact
  BY ConnPairs DEF ConnInv, EndsOpen, EndsAt
<1>2. c = d \/ (c = Link(d[2], d[1]) /\ d = Link(c[2], c[1]))
  BY <1>1, SameName
<1>3. CASE i = Contact
  BY <1>1, <1>2, <1>3, ConnPairs, PairsConn
<1>4. CASE Twins(i) = {}
  <2>1. <<c[2], c[1]>> = Link(c[2], c[1])
    BY DEF Link
  <2>2. c # d => c \in Twins(i)
    BY <1>1, <1>2, <2>1 DEF Twins
  <2> QED
    BY <1>4, <2>2
<1> QED
  BY <1>3, <1>4

\* A node without a twin that has waited lists everybody once.
LEMMA ListsEverybody ==
  ASSUME ConnInv, broken = {}, NEW i \in Nodes, i = Contact \/ Twins(i) = {},
         Cardinality(signalled[i]) >= N - 1
  PROVE  OnceToEach(i, peers[i])
<1>1. signalled[i] \subseteq Conn /\ peers[i] \subseteq Conn
  BY DEF ConnInv, TypeOK
<1>2. signalled[i] \subseteq peers[i]
  BY <1>1 DEF ConnInv, SignalsRight, SignalsAt, ListedRight, ListedAt
<1>3. \A c \in peers[i] : stage[i][c] # "none" /\ i \in Ends(c)
  BY <1>1, ConnPairs DEF ConnInv, ListedRight, ListedAt, EndsOpen, EndsAt
<1>4. \A c, d \in peers[i] : name(i, c) = name(i, d) => c = d
  BY <1>1, <1>3, NoTwinNames
<1>5. {name(i, c) : c \in signalled[i]} = Nodes \ {i}
  BY <1>1, <1>2, <1>3, <1>4, EnoughNames
<1>6. {name(i, c) : c \in peers[i]} = Nodes \ {i}
  BY <1>1, <1>2, <1>3, <1>5, NameIsOther
<1> QED
  BY <1>4, <1>6 DEF OnceToEach
-----------------------------------------------------------------------------
(***************************************************************************)
(* What the actions do to the stages.                                      *)
(***************************************************************************)
LEMMA DialStages ==
  ASSUME TypeOK, NEW a \in Nodes, NEW b \in Nodes, a # b, dial(a, b)
  PROVE  /\ stage' \in [Nodes -> [Conn -> Stages]]
         /\ \A k \in Nodes, d \in Conn :
              stage'[k][d] = IF d = Link(a, b) /\ k \in {a, b} THEN "new" ELSE stage[k][d]
<1> DEFINE s == newOutbound(stage, a, b)
<1>1. Link(a, b) \in Conn /\ "new" \in Stages /\ stage \in [Nodes -> [Conn -> Stages]]
  BY PairsConn DEF TypeOK, Stages
<1>2. /\ s \in [Nodes -> [Conn -> Stages]]
      /\ \A k \in Nodes, d \in Conn :
           s[k][d] = IF d = Link(a, b) /\ k = a THEN "new" ELSE stage[k][d]
  <2>1. s = [stage EXCEPT ![a][Link(a, b)] = "new"]
    BY DEF newOutbound, Link
  <2> QED
    BY <1>1, <2>1
<1>3. stage' = [s EXCEPT ![b][Link(a, b)] = "new"]
  BY DEF dial, getInbound, Link
<1> HIDE DEF s
<1> QED
  BY <1>1, <1>2, <1>3

LEMMA UpdateStages ==
  ASSUME TypeOK, NEW i \in Nodes, NEW c \in Conn, NEW t \in Stages,
         stage' = [stage EXCEPT ![i][c] = t]
  PROVE  /\ stage' \in [Nodes -> [Conn -> Stages]]
         /\ \A k \in Nodes, d \in Conn :
              stage'[k][d] = IF d = c /\ k = i THEN t ELSE stage[k][d]
BY DEF TypeOK

\* An end stops reading, or is closed.
Closes(i, c) == readFromConnection(i, c) \/ closeConnection(i, c)

\* A step does one of these to the connections.
LEMMA Steps ==
  ASSUME [Next]_vars
  PROVE  \/ \E i \in Nodes : Join(i)
         \/ \E a, b \in Nodes : processMembershipMsg(a, b) \/ dialFails(a, b)
         \/ \E i \in Nodes, c \in Conn : updatePeers(i, c) \/ Closes(i, c)
         \/ \E c \in Conn : sendMembership(c) \/ Lose(c)
         \/ DealSecret
         \/ \E i \in Nodes : getParticipantIds(i) \/ BEBroadcast(i)
         \/ UNCHANGED vars
BY DEF Next, Connect, Start, Closes

\* Whom the contact answers, and about whom.
LEMMA MembershipRight ==
  ASSUME ConnInv, NEW c \in Conn, stage[Contact][c] # "none"
  PROVE  /\ c[1] # Contact /\ c[2] = Contact /\ name(Contact, c) = c[1]
         /\ Membership(c[1]) \subseteq Nodes \ {c[1], Contact}
<1>1. Contact \in Nodes
  BY NodesAssumption
<1>2. \A d \in Conn : stage[Contact][d] # "none" => d[1] # Contact /\ Contact \in Ends(d)
  BY <1>1, ConnPairs DEF ConnInv, EndsOpen, EndsAt
<1>3. \A d \in Conn : stage[Contact][d] # "none" => name(Contact, d) \in Nodes \ {Contact}
  BY <1>1, <1>2, NameIsOther
<1>4. \A d \in peers[Contact] : d \in Conn /\ stage[Contact][d] # "none"
  BY <1>1 DEF ConnInv, TypeOK, ListedRight, ListedAt
<1> QED
  BY <1>2, <1>3, <1>4, ConnPairs DEF Membership, name

LEMMA TypeStep == ConnInv /\ [Next]_vars => TypeOK'
<1> SUFFICES ASSUME ConnInv, [Next]_vars PROVE TypeOK'
  OBVIOUS
<1> USE NodesAssumption
<1>0. TypeOK
  BY DEF ConnInv
<1>1. ASSUME NEW i \in Nodes, Join(i) PROVE TypeOK'
  BY <1>0, <1>1, DialStages DEF Join, TypeOK
<1>2. ASSUME NEW a \in Nodes, NEW b \in Nodes, processMembershipMsg(a, b) PROVE TypeOK'
  <2>1. a # b
    BY <1>0, <1>2 DEF processMembershipMsg, isTold, TypeOK, Conn
  <2> QED
    BY <1>0, <1>2, <2>1, DialStages DEF processMembershipMsg, TypeOK
<1>3. ASSUME NEW i \in Nodes, NEW c \in Conn, updatePeers(i, c) PROVE TypeOK'
  <2>1. (IF i = Contact THEN "listed" ELSE "reading") \in Stages
    BY DEF Stages
  <2>2. stage' \in [Nodes -> [Conn -> Stages]]
    BY <1>0, <1>3, <2>1, UpdateStages DEF updatePeers
  <2> QED
    BY <1>0, <1>3, <2>2 DEF updatePeers, TypeOK
<1>4. ASSUME NEW i \in Nodes, NEW c \in Conn, Closes(i, c) PROVE TypeOK'
  <2>1. stage' \in [Nodes -> [Conn -> Stages]]
    BY <1>0, <1>4, UpdateStages DEF Closes, readFromConnection, closeConnection, Stages
  <2> QED
    BY <1>0, <1>4, <2>1 DEF Closes, readFromConnection, closeConnection, TypeOK
<1>5. ASSUME NEW c \in Conn, sendMembership(c) PROVE TypeOK'
  <2>1. stage' \in [Nodes -> [Conn -> Stages]]
    BY <1>0, <1>5, UpdateStages DEF sendMembership, Stages
  <2>2. stage[Contact][c] # "none"
    BY <1>5 DEF sendMembership
  <2>3. name(Contact, c) = c[1] /\ c[1] \in Nodes /\ Membership(c[1]) \subseteq Nodes \ {c[1], Contact}
    BY <2>2, MembershipRight, ConnPairs
  <2>4. told' \subseteq Conn
    BY <1>0, <1>5, <2>3, PairsConn DEF sendMembership, TypeOK, Link
  <2> QED
    BY <1>0, <1>5, <2>1, <2>4 DEF sendMembership, TypeOK
<1>6. ASSUME NEW c \in Conn, Lose(c) PROVE TypeOK'
  BY <1>0, <1>6 DEF Lose, TypeOK
<1>7. CASE DealSecret
  BY <1>0, <1>7 DEF DealSecret, TypeOK
<1>8. ASSUME NEW i \in Nodes, getParticipantIds(i) PROVE TypeOK'
  BY <1>0, <1>8 DEF getParticipantIds, TypeOK
<1>9. ASSUME NEW i \in Nodes, BEBroadcast(i) PROVE TypeOK'
  BY <1>0, <1>9 DEF BEBroadcast, TypeOK
<1>10. ASSUME NEW a \in Nodes, NEW b \in Nodes, dialFails(a, b) PROVE TypeOK'
  BY <1>0, <1>10 DEF dialFails, TypeOK
<1>11. CASE UNCHANGED vars
  BY <1>0, <1>11 DEF vars, TypeOK
<1> QED
  BY <1>1, <1>2, <1>3, <1>4, <1>5, <1>6, <1>7, <1>8, <1>9, <1>10, <1>11, Steps


\* What a step does to the stages of the ends, one way for each action.
LEMMA JoinStages ==
  ASSUME ConnInv, NEW i \in Nodes, Join(i), i # Contact
  PROVE  \E q \in Conn :
           /\ q = Link(i, Contact) /\ q[1] = i /\ q[2] = Contact
           /\ stage[i][q] = "none" /\ stage[Contact][q] = "none"
           /\ \A k \in Nodes, d \in Conn :
                stage'[k][d] = IF d = q /\ k \in {i, Contact} THEN "new" ELSE stage[k][d]
<1>1. Contact \in Nodes /\ TypeOK
  BY NodesAssumption DEF ConnInv
<1>2. Link(i, Contact) \in Conn /\ Link(i, Contact)[1] = i /\ Link(i, Contact)[2] = Contact
  BY <1>1, PairsConn
<1>3. stage[i][Link(i, Contact)] = "none"
  BY DEF Join, ConnInv, DialsContact
<1>4. stage[Contact][Link(i, Contact)] = "none"
  BY <1>1, <1>2, <1>3 DEF ConnInv, EndsOpen, EndsAt
<1>5. \A k \in Nodes, d \in Conn :
        stage'[k][d] = IF d = Link(i, Contact) /\ k \in {i, Contact} THEN "new" ELSE stage[k][d]
  BY <1>1, DialStages DEF Join
<1> QED
  BY <1>2, <1>3, <1>4, <1>5

LEMMA ProcessStages ==
  ASSUME ConnInv, NEW a \in Nodes, NEW b \in Nodes, processMembershipMsg(a, b)
  PROVE  \E q \in told :
           /\ q \in Conn /\ q = Link(a, b) /\ q[1] = a /\ q[2] = b /\ told' = told \ {q}
           /\ a # b /\ a # Contact /\ b # Contact /\ Answered(a)
           /\ stage[a][q] = "none" /\ stage[b][q] = "none"
           /\ \A k \in Nodes, d \in Conn :
                stage'[k][d] = IF d = q /\ k \in {a, b} THEN "new" ELSE stage[k][d]
<1>1. TypeOK /\ Link(a, b) \in told /\ Link(a, b) \in Conn /\ a # b /\ dial(a, b) /\ told' = told \ {Link(a, b)}
  BY DEF ConnInv, TypeOK, processMembershipMsg, isTold, Link, Conn
<1>2. Link(a, b)[1] = a /\ Link(a, b)[2] = b
  BY DEF Link
<1>3. a # Contact /\ b # Contact /\ stage[a][Link(a, b)] = "none" /\ Answered(a)
  BY <1>1, <1>2 DEF ConnInv, ToldOnce
<1>4. stage[b][Link(a, b)] = "none"
  BY <1>1, <1>2, <1>3 DEF ConnInv, EndsOpen, EndsAt
<1>5. \A k \in Nodes, d \in Conn :
        stage'[k][d] = IF d = Link(a, b) /\ k \in {a, b} THEN "new" ELSE stage[k][d]
  BY <1>1, DialStages
<1> QED
  BY <1>1, <1>2, <1>3, <1>4, <1>5

LEMMA UpdatePeersStages ==
  ASSUME ConnInv, NEW i \in Nodes, NEW c \in Conn, updatePeers(i, c)
  PROVE  /\ stage[i][c] = "new"
         /\ \A k \in Nodes, d \in Conn :
              stage'[k][d] = IF d = c /\ k = i THEN (IF i = Contact THEN "listed" ELSE "reading")
                             ELSE stage[k][d]
<1>1. (IF i = Contact THEN "listed" ELSE "reading") \in Stages /\ TypeOK
  BY DEF Stages, ConnInv
<1> QED
  BY <1>1, UpdateStages DEF updatePeers

LEMMA CloseStages ==
  ASSUME ConnInv, NEW i \in Nodes, NEW c \in Conn, Closes(i, c)
  PROVE  /\ stage[i][c] \in {"listed", "reading", "closing"} /\ c \in broken
         /\ peers' = [peers EXCEPT ![i] = @ \ Forgotten(i, c)] /\ told' \subseteq told
         /\ UNCHANGED <<hasJoined, signalled, broken>>
         /\ \E t \in {"closing", "closed"} : \A k \in Nodes, d \in Conn :
              stage'[k][d] = IF d = c /\ k = i THEN t ELSE stage[k][d]
<1>1. "closing" \in Stages /\ "closed" \in Stages /\ TypeOK
  BY DEF Stages, ConnInv
<1>2. CASE readFromConnection(i, c)
  <2>1. told' \subseteq told
    BY <1>2 DEF readFromConnection
  <2>2. \A k \in Nodes, d \in Conn :
          stage'[k][d] = IF d = c /\ k = i THEN "closing" ELSE stage[k][d]
    BY <1>1, <1>2, UpdateStages DEF readFromConnection
  <2>3. /\ stage[i][c] \in {"listed", "reading", "closing"} /\ c \in broken
        /\ peers' = [peers EXCEPT ![i] = @ \ Forgotten(i, c)]
        /\ UNCHANGED <<hasJoined, signalled, broken>>
    BY <1>2 DEF readFromConnection
  <2>4. \E t \in {"closing", "closed"} : \A k \in Nodes, d \in Conn :
          stage'[k][d] = IF d = c /\ k = i THEN t ELSE stage[k][d]
    BY <2>2
  <2> QED
    BY <2>1, <2>3, <2>4
<1>3. CASE closeConnection(i, c)
  <2>1. \A k \in Nodes, d \in Conn :
          stage'[k][d] = IF d = c /\ k = i THEN "closed" ELSE stage[k][d]
    BY <1>1, <1>3, UpdateStages DEF closeConnection
  <2>2. \E t \in {"closing", "closed"} : \A k \in Nodes, d \in Conn :
          stage'[k][d] = IF d = c /\ k = i THEN t ELSE stage[k][d]
    BY <2>1
  <2>3. /\ stage[i][c] \in {"listed", "reading", "closing"} /\ c \in broken
        /\ peers' = [peers EXCEPT ![i] = @ \ Forgotten(i, c)] /\ told' \subseteq told
        /\ UNCHANGED <<hasJoined, signalled, broken>>
    BY <1>3 DEF closeConnection
  <2> QED
    BY <2>2, <2>3
<1> QED
  BY <1>2, <1>3 DEF Closes

LEMMA SendStages ==
  ASSUME ConnInv, NEW c \in Conn, sendMembership(c)
  PROVE  /\ stage[Contact][c] = "listed"
         /\ c = Link(c[1], Contact) /\ c[1] \in Nodes \ {Contact}
         /\ Membership(c[1]) \subseteq Nodes \ {c[1], Contact}
         /\ told \subseteq told'
         /\ \A m \in told' : m \in told \/ \E b \in Membership(c[1]) : m = Link(c[1], b)
         /\ c \notin broken => \A b \in Membership(c[1]) : Link(c[1], b) \in told'
         /\ \A k \in Nodes, d \in Conn :
              stage'[k][d] = IF d = c /\ k = Contact THEN "reading" ELSE stage[k][d]
<1>1. "reading" \in Stages /\ TypeOK /\ Contact \in Nodes
  BY NodesAssumption DEF Stages, ConnInv
<1>2. stage[Contact][c] # "none"
  BY DEF sendMembership
<1>3. /\ c[1] # Contact /\ c[2] = Contact /\ name(Contact, c) = c[1]
      /\ Membership(c[1]) \subseteq Nodes \ {c[1], Contact}
  BY <1>2, MembershipRight
<1>4. c = Link(c[1], Contact) /\ c[1] \in Nodes
  BY <1>3, ConnPairs
<1>5. \A k \in Nodes, d \in Conn :
        stage'[k][d] = IF d = c /\ k = Contact THEN "reading" ELSE stage[k][d]
  BY <1>1, UpdateStages DEF sendMembership
<1>6. told' = IF c \in broken THEN told ELSE told \cup {Link(c[1], b) : b \in Membership(c[1])}
  BY <1>3 DEF sendMembership, Link
<1> QED
  BY <1>3, <1>4, <1>5, <1>6 DEF sendMembership

\* The other steps leave the connections alone.
Elsewhere ==
  /\ UNCHANGED <<hasJoined, stage, signalled, peers>>
  /\ told' \subseteq told /\ broken \subseteq broken'

LEMMA ElsewhereSteps ==
  /\ \A a, b \in Nodes : dialFails(a, b) => Elsewhere
  /\ \A c \in Conn : Lose(c) => Elsewhere
  /\ DealSecret => Elsewhere
  /\ \A i \in Nodes : (getParticipantIds(i) \/ BEBroadcast(i)) => Elsewhere
  /\ UNCHANGED vars => Elsewhere
BY DEF Elsewhere, dialFails, Lose, DealSecret, getParticipantIds, BEBroadcast, vars

LEMMA EndsStep == ConnInv /\ [Next]_vars => EndsOpen'
<1> SUFFICES ASSUME ConnInv, [Next]_vars, NEW k \in Nodes, NEW d \in Conn PROVE EndsAt(k, d)'
  BY DEF EndsOpen
<1>0. /\ EndsAt(k, d) /\ EndsAt(d[1], d) /\ EndsAt(d[2], d) /\ Contact \in Nodes
      /\ d[1] \in Nodes /\ d[2] \in Nodes
  BY ConnPairs, NodesAssumption DEF ConnInv, EndsOpen
<1>1. ASSUME NEW i \in Nodes, Join(i) PROVE EndsAt(k, d)'
  <2>1. CASE i = Contact
    BY <1>0, <1>1, <2>1 DEF Join, EndsAt
  <2>2. CASE i # Contact
    BY <1>0, <1>1, <2>2, JoinStages DEF EndsAt
  <2> QED
    BY <2>1, <2>2
<1>2. ASSUME NEW a \in Nodes, NEW b \in Nodes, processMembershipMsg(a, b) PROVE EndsAt(k, d)'
  BY <1>0, <1>2, ProcessStages DEF EndsAt
<1>3. ASSUME NEW i \in Nodes, NEW c \in Conn, updatePeers(i, c) PROVE EndsAt(k, d)'
  BY <1>0, <1>3, UpdatePeersStages DEF EndsAt
<1>4. ASSUME NEW i \in Nodes, NEW c \in Conn, Closes(i, c) PROVE EndsAt(k, d)'
  BY <1>0, <1>4, CloseStages DEF EndsAt
<1>5. ASSUME NEW c \in Conn, sendMembership(c) PROVE EndsAt(k, d)'
  BY <1>0, <1>5, SendStages DEF EndsAt
<1>6. CASE Elsewhere
  BY <1>0, <1>6 DEF Elsewhere, EndsAt
<1> QED
  BY <1>1, <1>2, <1>3, <1>4, <1>5, <1>6, Steps, ElsewhereSteps

LEMMA ListedStep == ConnInv /\ [Next]_vars => ListedRight'
<1> SUFFICES ASSUME ConnInv, [Next]_vars, NEW k \in Nodes, NEW d \in Conn PROVE ListedAt(k, d)'
  BY DEF ListedRight
<1>0. /\ ListedAt(k, d) /\ Contact \in Nodes /\ peers \in [Nodes -> SUBSET Conn]
  BY NodesAssumption DEF ConnInv, ListedRight, TypeOK
<1>1. ASSUME NEW i \in Nodes, Join(i) PROVE ListedAt(k, d)'
  <2>1. CASE i = Contact
    BY <1>0, <1>1, <2>1 DEF Join, ListedAt
  <2>2. CASE i # Contact
    BY <1>0, <1>1, <2>2, JoinStages DEF Join, ListedAt
  <2> QED
    BY <2>1, <2>2
<1>2. ASSUME NEW a \in Nodes, NEW b \in Nodes, processMembershipMsg(a, b) PROVE ListedAt(k, d)'
  BY <1>0, <1>2, ProcessStages DEF processMembershipMsg, ListedAt
<1>3. ASSUME NEW i \in Nodes, NEW c \in Conn, updatePeers(i, c) PROVE ListedAt(k, d)'
  <2>1. /\ stage[i][c] = "new" /\ broken' = broken
        /\ \A e \in Conn : e \in peers'[k] <=> (e \in peers[k] \/ (k = i /\ e = c))
    BY <1>0, <1>3 DEF updatePeers
  <2>2. stage'[k][d] = IF d = c /\ k = i THEN (IF i = Contact THEN "listed" ELSE "reading")
                       ELSE stage[k][d]
    BY <1>3, UpdatePeersStages
  <2> QED
    BY <1>0, <2>1, <2>2 DEF ListedAt
<1>4. ASSUME NEW i \in Nodes, NEW c \in Conn, Closes(i, c) PROVE ListedAt(k, d)'
  <2>1. /\ c \in broken /\ stage[i][c] # "none" /\ broken' = broken
        /\ peers' = [peers EXCEPT ![i] = @ \ Forgotten(i, c)]
    BY <1>4, CloseStages
  <2>2. i \in Ends(c) /\ \A e \in peers[i] : e \in Conn /\ i \in Ends(e)
    BY <1>0, <2>1, ConnPairs DEF ConnInv, ListedRight, ListedAt, EndsOpen, EndsAt
  <2>3. \A e \in Forgotten(i, c) : e = c \/ Link(e[2], e[1]) = c
    BY <2>2, SameName DEF Forgotten
  <2>4. c \in peers[i] => c \in Forgotten(i, c)
    BY DEF Forgotten
  <2> QED
    BY <1>0, <1>4, <2>1, <2>3, <2>4, CloseStages DEF ListedAt
<1>5. ASSUME NEW c \in Conn, sendMembership(c) PROVE ListedAt(k, d)'
  BY <1>0, <1>5, SendStages DEF sendMembership, ListedAt
<1>6. CASE Elsewhere
  BY <1>0, <1>6 DEF Elsewhere, ListedAt
<1> QED
  BY <1>1, <1>2, <1>3, <1>4, <1>5, <1>6, Steps, ElsewhereSteps

LEMMA SignalsStep == ConnInv /\ [Next]_vars => SignalsRight'
<1> SUFFICES ASSUME ConnInv, [Next]_vars, NEW k \in Nodes, NEW d \in Conn PROVE SignalsAt(k, d)'
  BY DEF SignalsRight
<1>0. /\ SignalsAt(k, d) /\ Contact \in Nodes /\ signalled \in [Nodes -> SUBSET Conn]
  BY NodesAssumption DEF ConnInv, SignalsRight, TypeOK
<1>1. ASSUME NEW i \in Nodes, Join(i) PROVE SignalsAt(k, d)'
  <2>1. CASE i = Contact
    BY <1>0, <1>1, <2>1 DEF Join, SignalsAt
  <2>2. CASE i # Contact
    BY <1>0, <1>1, <2>2, JoinStages DEF Join, SignalsAt
  <2> QED
    BY <2>1, <2>2
<1>2. ASSUME NEW a \in Nodes, NEW b \in Nodes, processMembershipMsg(a, b) PROVE SignalsAt(k, d)'
  BY <1>0, <1>2, ProcessStages DEF processMembershipMsg, SignalsAt
<1>3. ASSUME NEW i \in Nodes, NEW c \in Conn, updatePeers(i, c) PROVE SignalsAt(k, d)'
  <2>1. /\ stage[i][c] = "new"
        /\ \A e \in Conn : e \in signalled'[k] <=> (e \in signalled[k] \/ (k = i /\ i # Contact /\ e = c))
    BY <1>0, <1>3 DEF updatePeers
  <2>2. stage'[k][d] = IF d = c /\ k = i THEN (IF i = Contact THEN "listed" ELSE "reading")
                       ELSE stage[k][d]
    BY <1>3, UpdatePeersStages
  <2> QED
    BY <1>0, <2>1, <2>2 DEF SignalsAt
<1>4. ASSUME NEW i \in Nodes, NEW c \in Conn, Closes(i, c) PROVE SignalsAt(k, d)'
  BY <1>0, <1>4, CloseStages DEF SignalsAt
<1>5. ASSUME NEW c \in Conn, sendMembership(c) PROVE SignalsAt(k, d)'
  <2>1. \A e \in Conn : e \in signalled'[k] <=> (e \in signalled[k] \/ (k = Contact /\ e = c))
    BY <1>0, <1>5 DEF sendMembership
  <2>2. stage'[k][d] = IF d = c /\ k = Contact THEN "reading" ELSE stage[k][d]
    BY <1>5, SendStages
  <2> QED
    BY <1>0, <2>1, <2>2 DEF SignalsAt
<1>6. CASE Elsewhere
  BY <1>0, <1>6 DEF Elsewhere, SignalsAt
<1> QED
  BY <1>1, <1>2, <1>3, <1>4, <1>5, <1>6, Steps, ElsewhereSteps

\* The contact's answer is not taken back.
LEMMA AnsweredStays ==
  ASSUME ConnInv, [Next]_vars, NEW e \in Nodes \ {Contact}, Answered(e)
  PROVE  Answered(e)'
<1>0. Contact \in Nodes /\ Link(e, Contact) \in Conn
  BY PairsConn, NodesAssumption
<1>1. ASSUME NEW i \in Nodes, Join(i) PROVE Answered(e)'
  <2>1. CASE i = Contact
    BY <1>0, <1>1, <2>1 DEF Join, Answered
  <2>2. CASE i # Contact
    BY <1>0, <1>1, <2>2, JoinStages DEF Answered
  <2> QED
    BY <2>1, <2>2
<1>2. ASSUME NEW a \in Nodes, NEW b \in Nodes, processMembershipMsg(a, b) PROVE Answered(e)'
  BY <1>0, <1>2, ProcessStages DEF Answered
<1>3. ASSUME NEW i \in Nodes, NEW c \in Conn, updatePeers(i, c) PROVE Answered(e)'
  BY <1>0, <1>3, UpdatePeersStages DEF Answered
<1>4. ASSUME NEW i \in Nodes, NEW c \in Conn, Closes(i, c) PROVE Answered(e)'
  BY <1>0, <1>4, CloseStages DEF Answered
<1>5. ASSUME NEW c \in Conn, sendMembership(c) PROVE Answered(e)'
  BY <1>0, <1>5, SendStages DEF Answered
<1>6. CASE Elsewhere
  BY <1>6 DEF Elsewhere, Answered
<1> QED
  BY <1>1, <1>2, <1>3, <1>4, <1>5, <1>6, Steps, ElsewhereSteps

\* Nor is a connection.
LEMMA EndsStay ==
  ASSUME ConnInv, [Next]_vars, NEW k \in Nodes, NEW d \in Conn, stage[k][d] # "none"
  PROVE  stage'[k][d] # "none"
<1>1. ASSUME NEW i \in Nodes, Join(i) PROVE stage'[k][d] # "none"
  <2>1. CASE i = Contact
    BY <1>1, <2>1 DEF Join
  <2>2. CASE i # Contact
    BY <1>1, <2>2, JoinStages
  <2> QED
    BY <2>1, <2>2
<1>2. ASSUME NEW a \in Nodes, NEW b \in Nodes, processMembershipMsg(a, b) PROVE stage'[k][d] # "none"
  BY <1>2, ProcessStages
<1>3. ASSUME NEW i \in Nodes, NEW c \in Conn, updatePeers(i, c) PROVE stage'[k][d] # "none"
  BY <1>3, UpdatePeersStages
<1>4. ASSUME NEW i \in Nodes, NEW c \in Conn, Closes(i, c) PROVE stage'[k][d] # "none"
  BY <1>4, CloseStages
<1>5. ASSUME NEW c \in Conn, sendMembership(c) PROVE stage'[k][d] # "none"
  BY <1>5, SendStages
<1>6. CASE Elsewhere
  BY <1>6 DEF Elsewhere
<1> QED
  BY <1>1, <1>2, <1>3, <1>4, <1>5, <1>6, Steps, ElsewhereSteps

\* A connection is there after a step if it was before, or was just dialled: to the
\* contact by a node that joins, to another node by one that was told of it.
LEMMA NewEnds ==
  ASSUME ConnInv, [Next]_vars, NEW k \in Nodes, NEW d \in Conn,
         stage[k][d] = "none", stage'[k][d] # "none"
  PROVE  \/ d[2] = Contact /\ d[1] # Contact /\ hasJoined' = hasJoined \cup {d[1]} /\ told' = told
         \/ d \in told /\ told' = told \ {d} /\ Answered(d[1]) /\ hasJoined' = hasJoined
                       /\ d[1] # Contact /\ d[2] # Contact
<1>1. ASSUME NEW i \in Nodes, Join(i)
      PROVE  d[2] = Contact /\ d[1] # Contact /\ hasJoined' = hasJoined \cup {d[1]} /\ told' = told
  <2>1. i # Contact
    BY <1>1 DEF Join
  <2> QED
    BY <1>1, <2>1, JoinStages DEF Join
<1>2. ASSUME NEW a \in Nodes, NEW b \in Nodes, processMembershipMsg(a, b)
      PROVE  /\ d \in told /\ told' = told \ {d} /\ Answered(d[1]) /\ hasJoined' = hasJoined
             /\ d[1] # Contact /\ d[2] # Contact
  BY <1>2, ProcessStages DEF processMembershipMsg
<1>3. ASSUME NEW i \in Nodes, NEW c \in Conn, updatePeers(i, c) PROVE FALSE
  BY <1>3, UpdatePeersStages
<1>4. ASSUME NEW i \in Nodes, NEW c \in Conn, Closes(i, c) PROVE FALSE
  BY <1>4, CloseStages
<1>5. ASSUME NEW c \in Conn, sendMembership(c) PROVE FALSE
  BY <1>5, SendStages
<1>6. CASE Elsewhere
  BY <1>6 DEF Elsewhere
<1> QED
  BY <1>1, <1>2, <1>3, <1>4, <1>5, <1>6, Steps, ElsewhereSteps

\* Who joins, and who is told of others.
LEMMA Joins ==
  ASSUME [Next]_vars
  PROVE  /\ hasJoined \subseteq hasJoined'
         /\ \A i \in Nodes : (i \in hasJoined' /\ i \notin hasJoined) => Join(i)
BY Steps, ElsewhereSteps
   DEF Elsewhere, Join, processMembershipMsg, updatePeers, Closes, readFromConnection, closeConnection, sendMembership

LEMMA Tells ==
  ASSUME [Next]_vars, NEW m, m \in told', m \notin told
  PROVE  \E c \in Conn : sendMembership(c)
BY Steps, ElsewhereSteps
   DEF Elsewhere, Join, processMembershipMsg, updatePeers, Closes, readFromConnection, closeConnection

LEMMA DialsContactStep == ConnInv /\ [Next]_vars => DialsContact'
<1> SUFFICES ASSUME ConnInv, [Next]_vars, NEW i \in Nodes \ {Contact}
             PROVE  i \in hasJoined' <=> stage'[i][Link(i, Contact)] # "none"
  BY DEF DialsContact
<1>0. /\ Link(i, Contact) \in Conn /\ Link(i, Contact)[1] = i /\ Link(i, Contact)[2] = Contact
      /\ i \in hasJoined <=> stage[i][Link(i, Contact)] # "none"
  BY PairsConn, NodesAssumption DEF ConnInv, DialsContact
<1>1. CASE i \in hasJoined
  BY <1>0, <1>1, Joins, EndsStay
<1>2. CASE i \notin hasJoined /\ i \in hasJoined'
  BY <1>0, <1>2, Joins, JoinStages
<1>3. CASE i \notin hasJoined'
  BY <1>0, <1>3, Joins, NewEnds
<1> QED
  BY <1>1, <1>2, <1>3

LEMMA DialsToldStep == ConnInv /\ [Next]_vars => DialsTold'
<1> SUFFICES ASSUME ConnInv, [Next]_vars, NEW c \in Conn, c[2] # Contact, stage'[c[1]][c] # "none"
             PROVE  Answered(c[1])'
  BY DEF DialsTold
<1>0. c[1] \in Nodes
  BY ConnPairs
<1>1. Answered(c[1]) /\ c[1] # Contact
  <2>1. CASE stage[c[1]][c] # "none"
    BY <1>0, <2>1 DEF ConnInv, DialsTold, EndsOpen, EndsAt
  <2>2. CASE stage[c[1]][c] = "none"
    BY <1>0, <2>2, NewEnds
  <2> QED
    BY <2>1, <2>2
<1> QED
  BY <1>0, <1>1, AnsweredStays

LEMMA ToldStep == ConnInv /\ [Next]_vars => ToldOnce'
<1> SUFFICES ASSUME ConnInv, [Next]_vars, NEW m, m \in told'
             PROVE  m[1] # Contact /\ m[2] # Contact /\ stage'[m[1]][m] = "none" /\ Answered(m[1])'
  BY DEF ToldOnce
<1>1. CASE m \in told
  <2>1. m \in Conn /\ m[1] \in Nodes
    BY <1>1, ConnPairs DEF ConnInv, TypeOK
  <2>2. m[1] # Contact /\ m[2] # Contact /\ stage[m[1]][m] = "none" /\ Answered(m[1])
    BY <1>1 DEF ConnInv, ToldOnce
  <2>3. stage'[m[1]][m] = "none"
    BY <2>1, <2>2, NewEnds
  <2> QED
    BY <2>1, <2>2, <2>3, AnsweredStays
<1>2. CASE m \notin told
  <2> PICK c \in Conn : sendMembership(c)
    BY <1>2, Tells
  <2>1. /\ stage[Contact][c] = "listed" /\ c = Link(c[1], Contact) /\ c[1] \in Nodes \ {Contact}
        /\ \A k \in Nodes, d \in Conn :
             stage'[k][d] = IF d = c /\ k = Contact THEN "reading" ELSE stage[k][d]
    BY SendStages
  <2>2. PICK b \in Nodes \ {c[1], Contact} : m = Link(c[1], b)
    BY <1>2, SendStages
  <2>3. m \in Conn /\ m[1] = c[1] /\ m[2] = b
    BY <2>1, <2>2, PairsConn
  <2>4. stage[Contact][Link(c[1], Contact)] = "listed"
    BY <2>1
  <2>5. stage[c[1]][m] = "none"
    BY <2>1, <2>2, <2>3, <2>4 DEF ConnInv, DialsTold, Answered
  <2>6. Answered(c[1])'
    BY <2>1, NodesAssumption DEF Answered
  <2> QED
    BY <2>1, <2>2, <2>3, <2>5, <2>6
<1> QED
  BY <1>1, <1>2

LEMMA ConnStep == ConnInv /\ [Next]_vars => ConnInv'
BY TypeStep, EndsStep, DialsContactStep, ToldStep, DialsToldStep, ListedStep, SignalsStep
   DEF ConnInv

-----------------------------------------------------------------------------
(***************************************************************************)
(* Starting.                                                               *)
(***************************************************************************)
LEMMA SignalsStay ==
  ASSUME ConnInv, [Next]_vars, NEW i \in Nodes
  PROVE  /\ signalled[i] \subseteq signalled'[i] /\ IsFiniteSet(signalled'[i])
         /\ Cardinality(signalled'[i]) \in Nat /\ Cardinality(signalled[i]) \in Nat
         /\ Cardinality(signalled[i]) <= Cardinality(signalled'[i])
<1>1. signalled \in [Nodes -> SUBSET Conn] /\ signalled' \in [Nodes -> SUBSET Conn]
  BY TypeStep DEF ConnInv, TypeOK
<1>2. signalled[i] \subseteq signalled'[i]
  BY <1>1, Steps, ElsewhereSteps
     DEF Elsewhere, Join, processMembershipMsg, updatePeers, Closes, readFromConnection, closeConnection, sendMembership
<1>3. IsFiniteSet(signalled'[i])
  BY <1>1, FiniteConn
<1> QED
  BY <1>2, <1>3, FS_Subset, FS_CardinalityType

\* What only some steps change.
LEMMA Starts ==
  ASSUME [Next]_vars
  PROVE  /\ broken \subseteq broken'
         /\ dealt' = dealt \/ DealSecret
         /\ participants' = participants \/ \E i \in Nodes : getParticipantIds(i)
         /\ sent' = sent \/ \E i \in Nodes : BEBroadcast(i)
BY Steps
   DEF Join, processMembershipMsg, updatePeers, Closes, readFromConnection, closeConnection, sendMembership,
       Lose, dialFails, DealSecret, getParticipantIds, BEBroadcast, vars

LEMMA TwinsStay ==
  ASSUME ConnInv, [Next]_vars, NEW i \in Nodes, Twins(i)' = {}
  PROVE  Twins(i) = {}
<1> SUFFICES ASSUME NEW c \in Twins(i) PROVE FALSE
  OBVIOUS
<1>1. c \in Conn /\ i \in Ends(c) /\ stage[i][c] # "none" /\ stage[i][<<c[2], c[1]>>] # "none"
  BY DEF Twins
<1>2. <<c[2], c[1]>> \in Conn
  BY <1>1 DEF Conn
<1>3. c \in Twins(i)'
  BY <1>1, <1>2, EndsStay DEF Twins, Ends
<1> QED
  BY <1>3

LEMMA WaitedStep == ConnInv /\ Waited /\ [Next]_vars => Waited'
<1> SUFFICES ASSUME ConnInv, Waited, [Next]_vars, NEW i \in Nodes, participants'[i] # None
             PROVE  Cardinality(signalled'[i]) >= N - 1
  BY DEF Waited
<1>1. Cardinality(signalled[i]) >= N - 1
  <2>1. CASE participants[i] # None
    BY <2>1 DEF Waited
  <2>2. CASE participants[i] = None
    BY <2>2, Starts DEF getParticipantIds, WaitForPeers, ConnInv, TypeOK
  <2> QED
    BY <2>1, <2>2
<1>2. N \in Nat
  BY OtherNodes
<1> QED
  BY <1>1, <1>2, SignalsStay

LEMMA DealStep == ConnInv /\ DealComplete /\ [Next]_vars => DealComplete'
<1> SUFFICES ASSUME ConnInv, DealComplete, [Next]_vars, dealt' # None, broken' = {}
             PROVE  OnceToEach(Contact, dealt')
  BY DEF DealComplete, OnceToEach, name
<1>1. broken = {} /\ Contact \in Nodes
  BY Starts, NodesAssumption
<1>2. CASE dealt' = dealt
  BY <1>1, <1>2 DEF DealComplete
<1>3. CASE DealSecret
  BY <1>1, <1>3, ListsEverybody DEF DealSecret, WaitForPeers
<1> QED
  BY <1>2, <1>3, Starts

LEMMA KnowsStep == ConnInv /\ Waited /\ KnowsEverybody /\ [Next]_vars => KnowsEverybody'
<1> SUFFICES ASSUME ConnInv, Waited, KnowsEverybody, [Next]_vars, NEW i \in Nodes,
                    Twins(i)' = {}, broken' = {}
             PROVE  /\ participants'[i] # None => OnceToEach(i, participants'[i])
                    /\ sent'[i] # None => OnceToEach(i, sent'[i])
  BY DEF KnowsEverybody, OnceToEach, name
<1>1. broken = {} /\ Twins(i) = {}
  BY Starts, TwinsStay
<1>2. /\ participants[i] # None => OnceToEach(i, participants[i])
      /\ sent[i] # None => OnceToEach(i, sent[i])
  BY <1>1 DEF KnowsEverybody
<1>3. participants'[i] # None => OnceToEach(i, participants'[i])
  <2>1. CASE participants'[i] = participants[i]
    BY <1>2, <2>1
  <2>2. CASE participants'[i] # participants[i]
    <3>1. getParticipantIds(i) /\ participants'[i] = peers[i]
      BY <2>2, Starts DEF getParticipantIds, ConnInv, TypeOK
    <3> QED
      BY <1>1, <3>1, ListsEverybody DEF getParticipantIds, WaitForPeers
  <2> QED
    BY <2>1, <2>2
<1>4. sent'[i] # None => OnceToEach(i, sent'[i])
  <2>1. CASE sent'[i] = sent[i]
    BY <1>2, <2>1
  <2>2. CASE sent'[i] # sent[i]
    <3>1. participants[i] # None /\ sent'[i] = peers[i]
      BY <2>2, Starts DEF BEBroadcast, ConnInv, TypeOK
    <3> QED
      BY <1>1, <3>1, ListsEverybody DEF Waited
  <2> QED
    BY <2>1, <2>2
<1> QED
  BY <1>3, <1>4

-----------------------------------------------------------------------------
(***************************************************************************)
(* Nobody is left apart.                                                   *)
(***************************************************************************)
\* A dialled b, or is to.
Meets(a, b) == Link(a, b) \in told \/ stage[a][Link(a, b)] # "none"
Reads(a) == stage[Contact][Link(a, Contact)] = "reading"

LEMMA ApartMeets ==
  NobodyApart <=>
    (broken = {} => \A a, b \in Nodes \ {Contact} :
                      (a # b /\ Reads(a) /\ Reads(b)) => Meets(a, b) \/ Meets(b, a))
BY DEF NobodyApart, Meets, Reads, Link

\* A node that cannot dial loses its connection with the contact.
LEMMA FailureBreaks ==
  ASSUME ConnInv, NEW a \in Nodes, NEW b \in Nodes, dialFails(a, b)
  PROVE  broken' # {}
<1>1. Link(a, b) \in told /\ Link(a, b)[1] = a /\ stage[a][Link(a, Contact)] # "none"
  BY DEF dialFails, isTold, Link
<1>2. a # Contact
  BY <1>1 DEF ConnInv, ToldOnce
<1>3. Link(a, Contact) \in Conn
  BY <1>2, PairsConn, NodesAssumption
<1> QED
  BY <1>1, <1>3 DEF dialFails

LEMMA MeetsStays ==
  ASSUME ConnInv, [Next]_vars, broken' = {}, NEW a \in Nodes, NEW b \in Nodes, a # b, Meets(a, b)
  PROVE  Meets(a, b)'
<1>0. Link(a, b) \in Conn /\ broken = {}
  BY PairsConn, Starts
<1>1. CASE stage[a][Link(a, b)] # "none"
  BY <1>0, <1>1, EndsStay DEF Meets
<1>2. CASE Link(a, b) \in told /\ Link(a, b) \notin told'
  <2>1. PICK e \in Nodes, g \in Nodes : processMembershipMsg(e, g)
    <3>1. \A e, g \in Nodes : ~dialFails(e, g)
      BY FailureBreaks
    <3> QED
      BY <1>0, <1>2, <3>1, Steps
         DEF Join, updatePeers, Closes, readFromConnection, closeConnection, sendMembership, Lose,
             DealSecret, getParticipantIds, BEBroadcast, vars
  <2>2. PICK q \in told : /\ q = Link(e, g) /\ told' = told \ {q} /\ q \in Conn /\ q[1] = e
                          /\ stage'[e][q] = "new"
    BY <2>1, ProcessStages
  <2>3. q = Link(a, b) /\ e = a
    BY <1>2, <2>2, PairsConn
  <2> QED
    BY <2>2, <2>3 DEF Meets
<1> QED
  BY <1>1, <1>2 DEF Meets

\* A node that is being answered is told of those that were answered before.
LEMMA AnsweredMeets ==
  ASSUME ConnInv, [Next]_vars, broken' = {},
         NEW a \in Nodes \ {Contact}, NEW b \in Nodes \ {Contact}, a # b,
         ~Reads(a), Reads(a)', Reads(b)'
  PROVE  Meets(a, b)'
<1>0. /\ broken = {} /\ Contact \in Nodes
      /\ Link(a, Contact) \in Conn /\ Link(a, Contact)[1] = a
      /\ Link(b, Contact) \in Conn /\ Link(b, Contact)[1] = b /\ Link(b, Contact)[2] = Contact
  BY PairsConn, Starts, NodesAssumption
<1>1. sendMembership(Link(a, Contact))
  <2>1. ASSUME NEW i \in Nodes, Join(i) PROVE FALSE
    <3>1. CASE i = Contact
      BY <2>1, <3>1 DEF Join, Reads
    <3>2. CASE i # Contact
      BY <1>0, <2>1, <3>2, JoinStages DEF Reads
    <3> QED
      BY <3>1, <3>2
  <2>2. ASSUME NEW e \in Nodes, NEW g \in Nodes, processMembershipMsg(e, g) PROVE FALSE
    BY <1>0, <2>2, ProcessStages DEF Reads
  <2>3. ASSUME NEW i \in Nodes, NEW c \in Conn, updatePeers(i, c) PROVE FALSE
    BY <1>0, <2>3, UpdatePeersStages DEF Reads
  <2>4. ASSUME NEW i \in Nodes, NEW c \in Conn, Closes(i, c) PROVE FALSE
    BY <1>0, <2>4, CloseStages DEF Reads
  <2>5. ASSUME NEW c \in Conn, sendMembership(c) PROVE c = Link(a, Contact)
    BY <1>0, <2>5, SendStages DEF Reads
  <2>6. CASE Elsewhere
    BY <2>6 DEF Elsewhere, Reads
  <2> QED
    BY <2>1, <2>2, <2>3, <2>4, <2>5, <2>6, Steps, ElsewhereSteps
<1>2. Reads(b)
  BY <1>0, <1>1, SendStages DEF Reads
<1>3. Link(b, Contact) \in peers[Contact]
  BY <1>0, <1>2 DEF Reads, ConnInv, ListedRight, ListedAt
<1>4. name(Contact, Link(b, Contact)) = b
  BY <1>0 DEF name
<1>5. b \in Membership(a)
  BY <1>3, <1>4 DEF Membership
<1> QED
  BY <1>0, <1>1, <1>5, SendStages DEF Meets

LEMMA ApartStep == ConnInv /\ NobodyApart /\ [Next]_vars => NobodyApart'
<1> SUFFICES ASSUME ConnInv, NobodyApart, [Next]_vars, broken' = {},
                    NEW a \in Nodes \ {Contact}, NEW b \in Nodes \ {Contact},
                    a # b, Reads(a)', Reads(b)'
             PROVE  Meets(a, b)' \/ Meets(b, a)'
  BY DEF NobodyApart, Meets, Reads, Link
<1>1. broken = {}
  BY Starts
<1>2. CASE Reads(a) /\ Reads(b)
  BY <1>1, <1>2, ApartMeets, MeetsStays
<1>3. CASE ~Reads(a)
  BY <1>3, AnsweredMeets
<1>4. CASE ~Reads(b)
  BY <1>4, AnsweredMeets
<1> QED
  BY <1>2, <1>3, <1>4

-----------------------------------------------------------------------------
(***************************************************************************)
(* The theorems.                                                           *)
(***************************************************************************)
LEMMA InitInv == Init => IInv
<1> SUFFICES ASSUME Init PROVE IInv
  OBVIOUS
<1> USE NodesAssumption
<1>1. \A i \in Nodes, c \in Conn : stage[i][c] = "none"
  BY DEF Init
<1>2. TypeOK
  <2>1. stage \in [Nodes -> [Conn -> Stages]]
    BY DEF Init, Stages
  <2>2. signalled \in [Nodes -> SUBSET Conn] /\ peers \in [Nodes -> SUBSET Conn]
    BY DEF Init
  <2>3. None \in (SUBSET Conn) \cup {None}
    OBVIOUS
  <2>4. /\ dealt \in (SUBSET Conn) \cup {None}
        /\ participants \in [Nodes -> (SUBSET Conn) \cup {None}]
        /\ sent \in [Nodes -> (SUBSET Conn) \cup {None}]
    BY <2>3 DEF Init
  <2> QED
    BY <2>1, <2>2, <2>4 DEF Init, TypeOK
<1>3. EndsOpen /\ ListedRight /\ SignalsRight
  BY <1>1 DEF Init, EndsOpen, EndsAt, ListedRight, ListedAt, SignalsRight, SignalsAt
<1>4. DialsContact /\ ToldOnce /\ DialsTold
  BY <1>1, PairsConn, ConnPairs DEF Init, DialsContact, ToldOnce, DialsTold
<1>5. Waited /\ DealComplete /\ KnowsEverybody
  BY DEF Init, Waited, DealComplete, KnowsEverybody
<1>6. NobodyApart
  BY <1>1, PairsConn, ApartMeets DEF Reads
<1> QED
  BY <1>2, <1>3, <1>4, <1>5, <1>6 DEF IInv, ConnInv

\* The invariant behind the properties below: how stages, lists, signals and names
\* that were told belong together, however the joins interleave (node.go:162-211).
THEOREM Invariance == Spec => []IInv
<1>1. IInv /\ [Next]_vars => IInv'
  BY ConnStep, WaitedStep, ApartStep, DealStep, KnowsStep DEF IInv
<1> QED
  BY <1>1, InitInv, PTL DEF Spec

\* Type correctness; in particular nobody is told of itself (node.go:188).
THEOREM TypeCorrect == Spec => []TypeOK
<1>1. IInv => TypeOK
  BY DEF IInv, ConnInv
<1> QED
  BY <1>1, Invariance, PTL

\* The contact of any network deals one share to every other node as long as no
\* connection is lost (ssChannel.go:45).
THEOREM DealCompleteHolds == Spec => []DealComplete
<1>1. IInv => DealComplete
  BY DEF IInv
<1> QED
  BY <1>1, Invariance, PTL

\* A node without a twin connection knows everybody when it starts (main.go:80).
THEOREM KnowsEverybodyHolds == Spec => []KnowsEverybody
<1>1. IInv => KnowsEverybody
  BY DEF IInv
<1> QED
  BY <1>1, Invariance, PTL

\* Of two nodes that were answered one is told of the other (node.go:165-176).
THEOREM NobodyApartHolds == Spec => []NobodyApart
<1>1. IInv => NobodyApart
  BY DEF IInv
<1> QED
  BY <1>1, Invariance, PTL

\* The list of peers follows the connections, but for twins (node.go:210).
THEOREM ListFollowsHolds == Spec => []ListFollows
<1>1. IInv => ListFollows
  <2>1. \A c \in Conn : Link(c[2], c[1]) = <<c[2], c[1]>>
    BY DEF Link
  <2> QED
    BY <2>1 DEF IInv, ConnInv, ListedRight, ListedAt, ListFollows
<1> QED
  BY <1>1, Invariance, PTL

\* When the goroutines have nothing left to do and no connection was lost, all
\* nodes of any network know each other and none waits for ever (main.go:69).
THEOREM SettledMeshedHolds == Spec => []SettledMeshed
<1>1. IInv => SettledMeshed
  <2> SUFFICES ASSUME IInv, Settled, NEW i \in Nodes
               PROVE  WaitForPeers(i) /\ {name(i, c) : c \in peers[i]} = Nodes \ {i}
    BY DEF SettledMeshed
  <2>0. /\ ConnInv /\ broken = {} /\ told = {} /\ hasJoined = Nodes /\ Contact \in Nodes
        /\ signalled[i] \subseteq Conn /\ peers[i] \subseteq Conn
    BY NodesAssumption DEF Settled, IInv, ConnInv, TypeOK
  <2>1. \A k \in Nodes, c \in Conn : stage[k][c] # "none" => stage[k][c] = "reading"
    BY <2>0 DEF Settled, ConnInv, TypeOK, Stages, ListedRight, ListedAt
  <2>2. \A k \in Nodes, c \in Conn :
          stage[k][c] # "none" => k \in Ends(c) /\ c \in peers[k] /\ c \in signalled[k]
    BY <2>0, <2>1, ConnPairs
       DEF ConnInv, EndsOpen, EndsAt, ListedRight, ListedAt, SignalsRight, SignalsAt
  <2>3. \A a \in Nodes \ {Contact} :
          /\ Link(a, Contact) \in Conn
          /\ stage[a][Link(a, Contact)] # "none" /\ stage[Contact][Link(a, Contact)] # "none"
    BY <2>0, PairsConn DEF ConnInv, DialsContact, EndsOpen, EndsAt
  <2>4. \A a \in Nodes \ {Contact} : Reads(a)
    BY <2>0, <2>1, <2>3 DEF Reads
  <2>5. \A a, b \in Nodes \ {Contact} : a # b => Meets(a, b) \/ Meets(b, a)
    BY <2>0, <2>4, ApartMeets DEF IInv
  <2>6. ASSUME NEW b \in Nodes \ {i}
        PROVE  \E c \in Conn : stage[i][c] # "none" /\ name(i, c) = b
    <3>1. ASSUME NEW a \in Nodes, NEW e \in Nodes, a # e, stage[a][Link(a, e)] # "none"
          PROVE  /\ Link(a, e) \in Conn /\ stage[e][Link(a, e)] # "none"
                 /\ name(a, Link(a, e)) = e /\ name(e, Link(a, e)) = a
      BY <2>0, <3>1, PairsConn DEF ConnInv, EndsOpen, EndsAt, name
    <3>2. stage[i][Link(i, b)] # "none" \/ stage[b][Link(b, i)] # "none"
      BY <2>0, <2>3, <2>5 DEF Meets
    <3> QED
      BY <3>1, <3>2
  <2>7. {name(i, c) : c \in peers[i]} = Nodes \ {i}
    <3>1. \A c \in peers[i] : name(i, c) \in Nodes \ {i}
      BY <2>0, <2>2, NameIsOther DEF ConnInv, ListedRight, ListedAt
    <3> QED
      BY <2>2, <2>6, <3>1
  <2>8. {name(i, c) : c \in signalled[i]} = Nodes \ {i}
    <3>1. \A c \in signalled[i] : name(i, c) \in Nodes \ {i}
      BY <2>0, <2>2, NameIsOther DEF ConnInv, SignalsRight, SignalsAt
    <3> QED
      BY <2>2, <2>6, <3>1
  <2> QED
    BY <2>0, <2>7, <2>8, EnoughSignals DEF WaitForPeers
<1> QED
  BY <1>1, Invariance, PTL
=============================================================================
