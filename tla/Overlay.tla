------------------------------- MODULE Overlay -------------------------------
(***************************************************************************)
(* How the nodes come to know each other and start (src/overlayNetwork,    *)
(* src/main.go): joining through the contact, connections, the lists of    *)
(* peers, the deal of the coin's secret and the first broadcast.           *)
(*                                                                         *)
(* A node joins by dialling the contact.  The contact adds it to its peers *)
(* and, in another critical section, sends it the names of its peers; the  *)
(* node dials each of them.  Both ends of a connection are maintained by a *)
(* goroutine of their own that lists the peer, signals memChan and reads   *)
(* until the connection is lost.  After n-1 signals a node starts: the     *)
(* contact deals the shares of a secret, one for each entry of its list,   *)
(* and everybody takes the participants of BKR from its list.              *)
(*                                                                         *)
(* A connection is the pair of the node that dialled and the one that      *)
(* accepted; a node dials another one at most once.  Dialling and          *)
(* accepting are one step: what follows at the two ends is not.  A         *)
(* connection that is lost is not made again.                              *)
(*                                                                         *)
(* A node that cannot dial a peer it was told of goes on with a peer       *)
(* without a connection, and panics when it reads from it: its process     *)
(* ends, and its connections with it.  The contact dials nobody and stays. *)
(***************************************************************************)
EXTENDS Naturals, FiniteSets

CONSTANTS
  Nodes,        \* every node of the network
  Contact,      \* the node that the others join through
  MaxBroken     \* bound: the connections that may be lost

ASSUME NodesAssumption == IsFiniteSet(Nodes) /\ Contact \in Nodes
ASSUME BrokenAssumption == MaxBroken \in Nat

N == Cardinality(Nodes)
Conn == {c \in Nodes \X Nodes : c[1] # c[2]}
None == {<<Contact, Contact>>}   \* not taken yet: no set of connections

VARIABLES
  hasJoined,    \* the nodes that have joined
  told,         \* <<a, b>>: the name of b is on its way to a
  stage,        \* stage[i][c]: where node i is with its end of connection c
  signalled,    \* signalled[i]: the connections that signalled memChan of i
  peers,        \* peers[i]: the connections that i lists as its peers
  broken,       \* the connections that were lost
  down,         \* the nodes whose process has ended
  dealt,        \* the connections over which the contact dealt
  participants, \* participants[i]: the connections of i when it took its participants
  sent          \* sent[i]: the connections over which i broadcast its first message

vars == <<hasJoined, told, stage, signalled, peers, broken, down, dealt, participants, sent>>

Stages == {"none", "new", "listed", "reading", "closing", "closed"}

Init ==
  /\ hasJoined = {} /\ told = {} /\ broken = {} /\ down = {}
  /\ stage = [i \in Nodes |-> [c \in Conn |-> "none"]]
  /\ signalled = [i \in Nodes |-> {}] /\ peers = [i \in Nodes |-> {}]
  /\ dealt = None
  /\ participants = [i \in Nodes |-> None] /\ sent = [i \in Nodes |-> None]

\* The name under which node i lists connection c.
name(i, c) == IF c[1] = i THEN c[2] ELSE c[1]
Ends(c) == {c[1], c[2]}

-----------------------------------------------------------------------------
(***************************************************************************)
(* Joining.                                                                *)
(***************************************************************************)
\* The two ends of a connection that a dialled, in stages s.
newOutbound(s, a, b) == [s EXCEPT ![a][<<a, b>>] = "new"]
getInbound(s, a, b) == [s EXCEPT ![b][<<a, b>>] = "new"]

\* Node a dials node b, which accepts, and each maintains its end.
dial(a, b) == stage' = getInbound(newOutbound(stage, a, b), a, b)

Join(i) ==
  /\ i \notin hasJoined
  /\ hasJoined' = hasJoined \cup {i}
  /\ IF i = Contact THEN UNCHANGED stage ELSE dial(i, Contact)
  /\ UNCHANGED <<told, signalled, peers, broken, down, dealt, participants, sent>>

\* The name of b, which a has read from its connection with the contact.
isTold(a, b) ==
  /\ <<a, b>> \in told
  /\ stage[a][<<a, Contact>>] \in {"reading", "closing", "closed"}

processMembershipMsg(a, b) ==
  /\ isTold(a, b) /\ b \notin down
  /\ told' = told \ {<<a, b>>}
  /\ dial(a, b)
  /\ UNCHANGED <<hasJoined, signalled, peers, broken, down, dealt, participants, sent>>

\* Node a cannot dial b, because b is down or for a reason of the network, and
\* ends: its connections are lost.  The entry and the signal of the peer without
\* a connection go with the process.
dialFails(a, b) ==
  /\ isTold(a, b)
  /\ b \in down \/ Cardinality(broken) < MaxBroken
  /\ told' = told \ {<<a, b>>}
  /\ down' = down \cup {a}
  /\ broken' = broken \cup {c \in Conn : stage[a][c] # "none"}
  /\ UNCHANGED <<hasJoined, stage, signalled, peers, dealt, participants, sent>>

-----------------------------------------------------------------------------
(***************************************************************************)
(* maintainConnection.                                                     *)
(***************************************************************************)
\* Node i lists the connection; all but the contact then signal and read.
updatePeers(i, c) ==
  /\ stage[i][c] = "new"
  /\ peers' = [peers EXCEPT ![i] = @ \cup {c}]
  /\ stage' = [stage EXCEPT ![i][c] = IF i = Contact THEN "listed" ELSE "reading"]
  /\ signalled' = [signalled EXCEPT ![i] = IF i = Contact THEN @ ELSE @ \cup {c}]
  /\ UNCHANGED <<hasJoined, told, broken, down, dealt, participants, sent>>

\* Slips of the contact.
MembershipWithSelf(a) ==               \* tells a node about itself
  {name(Contact, c) : c \in peers[Contact]}
MembershipFirst(a) ==                  \* stops after the first name
  LET known == {name(Contact, c) : c \in peers[Contact]} \ {a}
  IN  IF known = {} THEN {} ELSE {CHOOSE b \in known : TRUE}

\* Whom the contact tells a node about: all of its peers but the node itself.
Membership(a) == {name(Contact, c) : c \in peers[Contact]} \ {a}

\* The contact sends the names of its peers to the node it accepted, then signals
\* and reads.  Over a lost connection nothing arrives.
sendMembership(c) ==
  LET a == name(Contact, c)
  IN  /\ stage[Contact][c] = "listed"
      /\ told' = IF c \in broken THEN told ELSE told \cup {<<a, b>> : b \in Membership(a)}
      /\ stage' = [stage EXCEPT ![Contact][c] = "reading"]
      /\ signalled' = [signalled EXCEPT ![Contact] = @ \cup {c}]
      /\ UNCHANGED <<hasJoined, peers, broken, down, dealt, participants, sent>>

\* A connection is lost (external: the network).
Lose(c) ==
  /\ \E i \in Ends(c) : stage[i][c] # "none"
  /\ c \notin broken /\ Cardinality(broken) < MaxBroken
  /\ broken' = broken \cup {c}
  /\ UNCHANGED <<hasJoined, told, stage, signalled, peers, down, dealt, participants, sent>>

ForgottenAll(i, c) == peers[i]         \* a slip: forgets everybody

\* What goes from the list of i when c is forgotten: peers are forgotten by name.
Forgotten(i, c) == {d \in peers[i] : name(i, d) = name(i, c)}

\* The read fails and the peer is forgotten.  The names that had not been read
\* go with the connection.
readFromConnection(i, c) ==
  /\ c \in broken /\ stage[i][c] = "reading"
  /\ stage' = [stage EXCEPT ![i][c] = "closing"]
  /\ peers' = [peers EXCEPT ![i] = @ \ Forgotten(i, c)]
  /\ \E unread \in SUBSET {m \in told : m[1] = i /\ c = <<i, Contact>>} : told' = told \ unread
  /\ UNCHANGED <<hasJoined, signalled, broken, down, dealt, participants, sent>>

\* maintainConnection returns, because the read or the contact's send has failed:
\* the end is closed and the peer forgotten, after a read for the second time.
closeConnection(i, c) ==
  /\ c \in broken /\ stage[i][c] \in {"listed", "closing"}
  /\ stage' = [stage EXCEPT ![i][c] = "closed"]
  /\ peers' = [peers EXCEPT ![i] = @ \ Forgotten(i, c)]
  /\ UNCHANGED <<hasJoined, told, signalled, broken, down, dealt, participants, sent>>

-----------------------------------------------------------------------------
(***************************************************************************)
(* Starting.                                                               *)
(***************************************************************************)
\* A slip: the peers that are still missing are counted too few.
WaitForFewerPeers(i) == i \in hasJoined /\ Cardinality(signalled[i]) >= N - 2

WaitForPeers(i) == i \in hasJoined /\ Cardinality(signalled[i]) >= N - 1

\* The contact deals a share over each of its connections, and one to itself.
DealSecret ==
  /\ WaitForPeers(Contact) /\ dealt = None
  /\ dealt' = peers[Contact]
  /\ UNCHANGED <<hasJoined, told, stage, signalled, peers, broken, down, participants, sent>>

getParticipantIds(i) ==
  /\ WaitForPeers(i) /\ participants[i] = None
  /\ i = Contact => dealt # None
  /\ participants' = [participants EXCEPT ![i] = peers[i]]
  /\ UNCHANGED <<hasJoined, told, stage, signalled, peers, broken, down, dealt, sent>>

\* The first message of node i goes over every connection it lists.
BEBroadcast(i) ==
  /\ participants[i] # None /\ sent[i] = None
  /\ sent' = [sent EXCEPT ![i] = peers[i]]
  /\ UNCHANGED <<hasJoined, told, stage, signalled, peers, broken, down, dealt, participants>>

Connect(i) ==
  \/ Join(i)
  \/ \E b \in Nodes : processMembershipMsg(i, b) \/ dialFails(i, b)
  \/ \E c \in Conn : updatePeers(i, c) \/ readFromConnection(i, c) \/ closeConnection(i, c)

Start(i) == getParticipantIds(i) \/ BEBroadcast(i)

Next ==
  \/ \E i \in Nodes \ down : Connect(i) \/ Start(i)
  \/ \E c \in Conn : sendMembership(c) \/ Lose(c)
  \/ DealSecret

Spec == Init /\ [][Next]_vars

-----------------------------------------------------------------------------
(***************************************************************************)
(* Properties.                                                             *)
(***************************************************************************)
TypeOK ==
  /\ hasJoined \subseteq Nodes /\ told \subseteq Conn /\ broken \subseteq Conn
  /\ down \subseteq Nodes
  /\ stage \in [Nodes -> [Conn -> Stages]]
  /\ signalled \in [Nodes -> SUBSET Conn] /\ peers \in [Nodes -> SUBSET Conn]
  /\ dealt \in (SUBSET Conn) \cup {None}
  /\ participants \in [Nodes -> (SUBSET Conn) \cup {None}]
  /\ sent \in [Nodes -> (SUBSET Conn) \cup {None}]

\* Node i has a twin connection: it dialled a node that dialled it.
Twins(i) == {c \in Conn : i \in Ends(c) /\ stage[i][c] # "none" /\ stage[i][<<c[2], c[1]>>] # "none"}

\* Connections S of node i lead to every other node, once to each.
OnceToEach(i, S) ==
  /\ {name(i, c) : c \in S} = Nodes \ {i}
  /\ \A c, d \in S : name(i, c) = name(i, d) => c = d

\* The contact deals exactly one share to every node, as the coin needs it, however
\* the joining of the nodes interleaves: it waits for as many signals as there are
\* other nodes, and never has two connections with one (ssChannel.go:45, node.go:303).
DealComplete ==
  (dealt # None /\ broken = {}) => OnceToEach(Contact, dealt)

\* A node that has no twin connection takes every node as a participant, once, and
\* its first message goes to each of them once (main.go:80, bebChannel.go:36).
\* Nodes that are told of each other make a twin, are signalled twice by it, and may
\* start before the others have joined (node.go:165).
KnowsEverybody ==
  \A i \in Nodes :
    (Twins(i) = {} /\ broken = {}) =>
      /\ participants[i] # None => OnceToEach(i, participants[i])
      /\ sent[i] # None => OnceToEach(i, sent[i])

\* Of two nodes that the contact has answered, one at least was told of the other,
\* so it is to dial or has dialled it: the two critical sections of the contact
\* leave no pair apart (node.go:165-176).
NobodyApart ==
  broken = {} =>
    \A a, b \in Nodes \ {Contact} :
      ( /\ a # b
        /\ stage[Contact][<<a, Contact>>] = "reading"
        /\ stage[Contact][<<b, Contact>>] = "reading" )
        => \E c \in {<<a, b>>, <<b, a>>} : c \in told \/ stage[c[1]][c] # "none"

\* The list of peers follows the connections: what is listed is open, and what is
\* read is listed, so that broadcasts go over it, unless the other one of a twin was
\* lost: forgetting is by name (node.go:210).
ListFollows ==
  \A i \in Nodes, c \in Conn :
    /\ c \in peers[i] => stage[i][c] \in {"listed", "reading"}
    /\ (stage[i][c] = "reading" /\ c \notin peers[i]) => <<c[2], c[1]>> \in broken

\* When all have joined and there is nothing left to do for a goroutine, every node
\* knows all others and has the signals it waits for: no interleaving of the joins
\* leaves a node waiting for ever (main.go:69).
Settled ==
  /\ hasJoined = Nodes /\ told = {} /\ broken = {}
  /\ \A i \in Nodes, c \in Conn : stage[i][c] \notin {"new", "listed"}
SettledMeshed ==
  Settled => \A i \in Nodes : WaitForPeers(i) /\ {name(i, c) : c \in peers[i]} = Nodes \ {i}
=============================================================================
