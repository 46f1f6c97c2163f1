# A TLA+ verification of bkr-acs

bkr-acs agrees on a common subset of proposals among `n` nodes of which `f`
may be Byzantine (`n = 4`, `f = 1` in `main.go`; the tests use `n = 3f+1`). It is a
stack of asynchronous protocols written as goroutines that talk over channels.
This directory holds models of the layers, the runs that check them and the
proofs about them. `PROJECT.json` maps every definition to the lines it models.

## 1. Inventory

| Component (under `src/`) | State | Operations | Talks to |
|---|---|---|---|
| `overlayNetwork` node, peer | list of peers, `memChan`, message observers | `Join`, accept and dial, membership messages, read loops, `WaitForPeers`, `Close` | TLS sockets; hands every message to the observers, a goroutine each |
| `overlayNetwork` BEB and SS channels | a channel code | broadcast to all peers and itself; dealing of secret shares | node below, middlewares above |
| `byzantineReliableBroadcast` | per instance: echoes and readies counted per message, peers already counted, three phases; per node: `instances`, `finished` | `BRBroadcast`, handlers of SEND, ECHO, READY, `processOutput` | BEB below, `BKRChannel` above |
| `coinTosser` | per coin: shares, `receivedFrom`; per node: `instances`, `unordered`, the deal | `TossCoin`, submission of shares, recovery of the coin | BEB and SS below, binary agreement above |
| `asynchronousBinaryAgreement`: `ivbca`, `evbca` | per round: echoes, votes, binds, eight or more buffered channels, three goroutines | `propose`, `submitEcho/Vote/Bind`, `waitToVote/Bind/Decide` | `mmr` |
| ... `mmrRound`, `mmr`, `concurrentMMR` | rounds, estimates, coins, decision; one invoker | `propose`, `submitCoin`, forwarding of the requests of all rounds | crusader agreement below, networked instance above |
| ... `mmrTermination` | decisions received, counts | `submitDecision`: f+1 equal ones are adopted, n-f end the instance | `mmr` |
| ... networked instance, `AbaChannel`, middlewares | `instances`, `finished` | `Propose`, `GetOutput`, routing by instance and round | BEB, coin, BKR |
| `agreementCommonSubset` | per instance: an acceptor per participant (`input`, `proposed`), results; per node: `instances` | `Propose`, `submitInput`, `rejectProposal`, `processResponses` | BRB and binary agreement below, the application above |
| `main.go`, `utils` | none | start-up, identifiers, logging | everything |

**What is hard.** Every message is carried by goroutines of its own, so anything
may overtake anything: a READY arrives before the SEND, a share of a coin before
the coin is tossed, a decision before the proposal it accepts. Faulty nodes
may tell each node something else. Handlers and goroutines share small buffered
channels, and a send too many stops an invoker that serves many others. In BKR
two threads interleave between the critical sections of an acceptor. The hazards, each
at its line, with the properties that would notice, are in `PROJECT.json`.

**What makes each layer correct.**

* Reliable broadcast: consistency, integrity, validity, totality; one output.
* Coin: the same coin everywhere, unknown before f+1 correct nodes toss it, known
  to all in the end; a share counts once. Where shares are repeated or relayed the code does not keep the first.
* Crusader agreement: agreement, validity, binding in the first round, termination; no
  full channel.
* Binary agreement: agreement, validity and termination over the rounds.
* Common subset: equal outputs, at least n-f proposals, termination, one proposal
  of a node to each binary agreement.
* Overlay: every node comes to know every other one before it starts; the secret of the
  coin is dealt to each node once.

## 2. Modules

| Module | What it is |
|---|---|
| `ReliableBroadcast` | abstract: what one broadcast promises to the layer above |
| `BRB` | one instance of reliable broadcast at all nodes; implements `ReliableBroadcast` |
| `BRBProofs` | its safety, totality and refinement, proved |
| `BKR` | one instance of the common subset at all nodes, over abstract broadcast and agreement |
| `BKRProofs` | its safety, proved |
| `CrusaderAgreement` | abstract: what one crusader agreement promises to the rounds |
| `IVBCA` | crusader agreement of round 0 at all nodes, with its goroutines and channels; implements `CrusaderAgreement` |
| `IVBCAProofs` | its channels, binding, unanimous termination, progress and refinement, proved |
| `EVBCA` | crusader agreement of a later round at all nodes, with the transition from the round before; implements `CrusaderAgreement` |
| `EVBCAProofs` | its channels, what it decides, unanimous termination, progress and refinement, proved |
| `CoinTosser` | one coin at all nodes, with its two invokers |
| `CoinTosserProofs` | its safety and its termination in quiescent states, proved |
| `BinaryAgreement` | abstract: what one binary agreement promises to BKR |
| `MMR` | rounds and termination gadget of binary agreement at all nodes, over abstract crusader agreement and coin; implements `BinaryAgreement` |
| `MMRProofs` | its safety and refinement, proved |
| `Overlay` | joining, connections, lists of peers, the deal and the start of all nodes |
| `OverlayProofs` | its properties, proved |
| `MCBRB`, `MCBKR`, `MCIVBCA`, `MCEVBCA`, `MCCoinTosser`, `MCMMR`, `MCOverlay` | constants, schedules and views of the runs |

How they fit: `BKR` uses the promises of `ReliableBroadcast` (which `BRB` keeps) and
of `BinaryAgreement` (which `MMR` keeps); `MMR` uses those of `CrusaderAgreement` (which
`IVBCA` and `EVBCA` keep) and of `CoinTosser`. `Overlay` shows what the other
models start from: everybody connected, the deal made once.

### BRB

`node[i]` is the `brbHandler` of node `i` with its entry in the channel. `echoes[j]`
and `readies[j]` are the messages counted for peer `j`: the counts of `brbData` and
the sets `peersEchoed`, `peersReadied` in one. The phases are functions from state
to state (`Phase1Echo`, `Phase2Ready`, ...) that fall through to each other as
the handlers do, and test their thresholds with `=` as the code does. An action is one
handler run by `brbInstance.invoker`. There is no message soup: what a
correct node sent is read off `echo` and `ready`, and what has arrived off the
counted peers. A faulty origin may send each node another content; faulty peers
may echo and ready any message of `FaultyMsgs`, to each node a different one. A SEND is
routed by the key of its sender, so nobody else puts one into the instance; the
echoed bytes carry the sender's identifier and are chosen by whoever echoes.
`ProcessOutput` delivers, marks the instance finished and drops the counts.

### BKR

`input`, `est` are the fields of the acceptors (`proposed` is `est # Nil`);
`results`, `pending` and `checked` are the locals of `processResponses`. The
rejecting loop is split where the lock of an acceptor is released, between
`hasProposed` and `rejectProposal`, because the invoker of the channel may run
`submitInput` there. Below it are `ReliableBroadcast` (each broadcast is delivered
alike everywhere) and an abstract binary agreement: `Decide` picks a value that more than
`F - |Faulty|`, and at least one, correct nodes proposed, since a value is
repeated and approved only when f+1 nodes echo it.

### IVBCA

`node[i]` holds the maps of `ivbca`, what the node sent, the content of the
channels, and where its goroutines are. A handler is a step of the one invoker
(`concurrentMMR`); a goroutine takes a step per receive. `select` is a
disjunction. Two sends in a row of a goroutine to channels with room are one step
(an earlier send only enables more), and the first receive of `waitToDecide` from
`terminateBotChan`, after which it is still open to both outcomes, is taken
together with the second. Channels are unbounded in the model, and
`ChannelsSuffice` bounds them by the capacities of the code.

`CrusaderAgreement` has two actions, `Propose` and `Decide`. `IVBCA` implements it with
`Enough` = the sets of correct nodes that are not empty and larger than
`F - |Faulty|`: with the faulty nodes they are f+1, which is when a value is echoed on.

### EVBCA

The same record and channels as `IVBCA`, instantiated from there (`R`), whose votes are the
same; the rest differs. `prev` and `coin` are the outcome of the round
before: what crusader agreement gave each node, one value or bot, and its coin; `decided` are the nodes that
had decided earlier still, and so go on where others stop. `Estimate` is
what `execRound` makes of them, `Proposes` the branch of `submitCoin` that goes on. A node whose
estimate is the coin runs `fastForward`: it approves and binds its estimate and marks
it as echoed without echoing it. Others echo. `submitBind` refuses bot, as the code does
(`externalValidityBCA.go:146`). `bindValChan` has room for one value and may be sent two,
so the invoker may block: `Running`.

Two parts of the file cannot be reached and are left out: `waitForPrevCoin` has
no `go` statement, so nothing reads the externally valid values, and the
estimate is never bot, so `voteOnCoin` is not called. Since nobody echoes the coin, each value is
approved at most once, although `approveValChan` has room for two of each.

`EVBCA` implements `CrusaderAgreement` with `Enough` = the nonempty sets of correct nodes: less than
round 0, but all that `MMR` relies on after it. It does not keep `Binding`: correct nodes may bind
different values, and a first decision may leave both open (see the observations of section 5).

### CoinTosser

A submission has a sender (`from`) and an owner (`of`), the node whose point it is. They may differ:
`isTossValid` checks the proof against the commitment of the index inside the share
(`instance.go:100-107`) and `processShare` counts by sender (`instance.go:135`), so a faulty node may submit the share of any
node that has tossed as its own. `unordered` are the submissions that wait for the toss; `shares` the ones combined.
`processShares` is the loop of `processUnordered` and the single submission
alike: it stops after the first share that repeats a sender, because the invoker of
the share processor is stuck on the second send to `errChan`, and `blocked`
says that the invoker of the channel waits for it in turn. Shares of T+1 different owners
give the coin (`Secret`); anything else gives a point that depends on which shares they are and how often. The bit that
`hashPointToBool` makes of a point is left out: different points stand for coins that may differ.

`Copies[i][j]` is how many shares reach `i` from `j` (more than one from a faulty node, or over the two connections of a
twin), `Relayed[i]` whose shares faulty nodes submit at `i`, and `Garbled` whom they send a message that does not decode.
The middleware logs such a message and then uses it although it is nil (`middleware.go:42-46`), which ends the process: `down`.
A share that decodes and fails its proof is an error return and changes nothing. That nobody can prove a share that
its owner has not sent is what the DLEQ proofs promise.

### MMR

`est[r]` is what a node proposed to round `r`, `dec[r]` what `execRound` got from crusader
agreement, after which it asks for the coin, `coined` the coins that came back;
`reached` and `adopted` are the sends to `reachedDecision` and to the gadget's
`deliverDecision`, `output` is what `reachDecision` took first and broadcast,
`received` the decisions the gadget counted. `submitCoin` is one step, as the
invoker waits for the transition of the round. Rounds are independent: `decide`
may give a node the result of a round it has not proposed to. A node that has
decided and meets the coin again proposes to the next round, one that decides
for the first time does not, as in `mmr.go:105`.

Crusader agreement is what it promises (`CrusaderAgreement`): decisions other than bot
agree, a value that is decided was proposed by a correct node, in round 0 by more than
`F - |Faulty|` of them, and bot is decided only when both values could be approved. A coin is one value, and
known after 2f+1 nodes asked for it. That nobody knows it earlier matters to
termination, not to what is shown here. Values that a round passes to the next one as externally
valid are left out: the goroutine that would read them is never started
(`externalValidityBCA.go:63`).

That `MMR` uses each round as crusader agreement may be used, and takes no more from it than it promises, is a
property of its own: `RoundsAreCrusader` says that what the nodes propose to and get from round `r` is a
behaviour of `CrusaderAgreement`, with the `Enough` of `IVBCA` for round 0 and that of `EVBCA` for the later ones.

### Overlay

A connection is the pair of who dialled and who accepted. `stage[i][c]` is where the goroutine
`maintainConnection` of node `i` is with its end: `new` before `updatePeers`, `listed` between that
and `sendMembership` (the contact only, in another critical section), `reading` once it signalled
`memChan`, `closing` once the read has failed and the peer was forgotten, `closed` once the connection was closed and
the peer forgotten again (`node.go:232`, `204`). `told` are the names under way from the contact. `peers` is the list,
which `forgetPeer` filters by name: when one of two connections to a node is lost, both
go (`Forgotten`). After n-1 signals (`WaitForPeers`, which counts connections, not nodes) the
contact deals and every node takes its participants and begins to broadcast, each over the
list as it is then. Any connection may be lost, at any point between these steps.

A dial may fail (`dialFails`). `processMembershipMsg` logs the error and does not return
(`node.go:266-269`): it maintains a zero peer, which is listed and signalled, and the read from its nil connection panics.
The process ends, its connections are lost, and a node that is told of it later fails in the same way.

## 3. Runs

| Run | Question | Result |
|---|---|---|
| `brb_faulty_origin` | the origin equivocates and supports both contents | consistency, one output, totality; implements `ReliableBroadcast` |
| `brb_correct_origin` | a correct origin, a peer that supports its content under another name | all correct nodes deliver what was broadcast, in the origin's name (liveness) |
| `bkr_race` | inputs race the rejecting loop, a participant may propose twice | equal participants, equal values of those that proposed once, at least n-f of them, one proposal per agreement, termination |
| `bkr_propose_twice` | are the outputs equal when a participant proposes twice? | **no** (finding 1) |
| `mmr_rounds` | rounds overtake each other, a faulty node announces any decision | a decision locks later estimates, no channel is used twice, f+1 decisions carry everybody; implements `BinaryAgreement` |
| `ivbca_scenarios` | correct nodes agree against a faulty one; or they voted differently and it supports both sides | no channel overflows; the first decision, bot included, rules out a value; a common proposal is decided by all; every step gets a node on; implements `CrusaderAgreement` |
| `ivbca_termination` | a faulty node sends its bind to one node only | **a correct node waits for ever** (finding 2) |
| `evbca_rounds` | a later round, entered with every outcome of the round before | implements `CrusaderAgreement`; an earlier decision stands; the coin takes n-f nodes that have it; a common estimate is decided by all; only a node that bound bot can be blocked for good |
| `evbca_stuck` | no fault, two of four nodes enter with the value that is not the coin | **nobody decides** (finding 4) |
| `overlay_joining` | three nodes join through the contact at once, a connection is lost, a dial fails | the deal is complete, nobody waits for ever once all have joined, who has no twin knows everybody, lists follow connections |
| `coin_shares` | shares before and after deal and toss, in any order; a faulty node repeats, relays and garbles | who is spared repeated and relayed shares sees the same coin; nobody computes it too soon; only a repetition blocks; all that run and are not blocked learn a coin |
| `coin_repeated` | a faulty node sends its own share twice | **nodes see different coins** (finding 3) |

`CHECK_DEADLOCK FALSE` everywhere: a finished instance has nothing more to do.

**Bounds.** Four nodes and `f = 1` are the smallest network with a fault for BRB,
crusader agreement and the coin (T = 2f = 2). BKR itself only uses `n - f`, so
three nodes with one fault, which may propose twice, once or never, show all of
its races. Two contents are enough to disagree; crusader agreement has two values.
Only the rounds of `MMR` are a counter, bounded by `MaxRound`; elsewhere every handler
uses up a message, and peers count once.

* `mmr_rounds` has the rounds 0 and 1, and estimates for round 2: enough for a
  decision in one round to meet bot, the other value and a second decision in the
  next. The theorems hold for any number of rounds. `RoundsFirst` runs the
  steps of the rounds before those that output and count decisions: rounds never
  read the latter, so the steps of every behaviour can be put in this order without
  changing what the decisions see last, and invariants only about rounds see
  all of their states.

* `ivbca_scenarios` is two families of behaviours (`ScenariosSpec`). From the start, all correct
  nodes propose 0 and the faulty one echoes and binds 1 (`Against0`). And from `Voted`, where the
  echoes are through and the votes are split: a reachable state, to which the faulty node leads by
  echoing both values to everybody; from there it supports one node of each side (`TwoFaced`).
  `ivbca_termination` starts there too. That the bounds hide nothing of the passing
  properties is what `IVBCAProofs` shows.
* `evbca_rounds` has every outcome of the round before up to renaming: one set of each size for the
  nodes that were given a value, and the coin 1 (handlers treat the two values alike); and where all were given
  the coin, one set of each size for those that had decided earlier (`Later`). The
  faulty node votes against the coin and binds either value, towards one correct node each
  (`Sparing`). `waitToVote` runs as soon as it can (`VoterStep`): it decides nothing by when it
  runs, and its messages may be late anyway. `evbca_stuck` handles echoes before votes
  before binds (`InOrder`); a counterexample needs no more. That the bounds of `evbca_rounds` hide nothing of what
  it passes is what `EVBCAProofs` shows.
* `overlay_joining` has the contact and three nodes that join: two that are told of each other
  and one more, so that twins can make a node start early. Only the contact and one of
  the others start, since nothing depends on what started; in other behaviours one
  connection that this node dialled is lost, or it is the first whose dial fails, once all have joined, and nobody starts. The theorems need neither
  restriction.
* `coin_shares` gives each correct node another trouble: two shares of the faulty node at `n1`, its
  own share or that of `n1` at `n2`, a message that does not decode at `n3`, and no share of the faulty node there. Both ways in which
  a coin goes wrong happen, next to a node that is spared both, and a third node that may end at any point.
  The theorems hold for all of it everywhere.
* These schedules, and `HastySpec` of BKR, which lets two nodes run ahead, are some of the
  behaviours of the specification, chosen for where the property is at risk. A counterexample
  found in them is one of the specification; a pass is bounded by them.

**Symmetry and views.** Correct nodes that are not the origin are interchangeable
in BRB, and two of the joining nodes in the overlay. Views drop counts no handler reads again (echoes after phase 2, votes
after the bind, except where they may block an invoker), replace sets of counted peers by their sizes, and in
`Anonymous` node names by the number of nodes in each state: handlers compare
sizes with thresholds and never look at names, and what is on its way is
determined by what was sent and counted. Neither is used with liveness.

**Fairness.** Connections between correct nodes are TLS streams that are read as
long as the node lives, and every message has a goroutine, so what a correct node
sent is handled in the end (weak fairness of each delivery). Nothing is assumed of
faulty nodes, nor that an origin broadcasts. In BKR an agreement that every
correct node proposed to decides; this is the promise of the layer below, and findings 2
to 4 are cases in which that layer does not keep it. Weak fairness of
the response loop is the Go scheduler's. The dealer of the coin is correct
(`main.go:72`), so deals arrive. A share of a node whose process has ended may still arrive or not (`Delivers`).

Totality and validity of BRB, termination of crusader agreement, of the coin and of the common subset, and the end of
joining are stated about quiescent states: where nothing a correct node sent is left to handle. Every step uses up a
message, so under fair delivery every behaviour comes to one, and the
statement is an invariant that can be proved. For BKR quiescent also means that the broadcasts and agreements below have done what
`Fairness` says they do. For crusader agreement, where
goroutines step too, that every step uses something up is `EveryStepCounts`, an action property and a
theorem: a step counts a peer for the first time, or proposes, votes, binds, decides or leaves a
`select` for good. There are finitely many of these.

## 4. Proofs

**BRBProofs**, from: `Nodes` finite, `n > 3f`, `|Faulty| <= f`, the origin is a
node, faulty nodes send messages, `NoMsg` is none. Consistency is not inductive: it
rests on why a node may be ready. `IInv` is the conjunction of

* `TypeOK`;
* `PhasesInOrder`: a node that sent READY has echoed, and phases match what was sent;
* `CountsGenuine`: what is counted for a correct peer is what it sent;
* `EchoesGenuine`: a correct node echoes the origin's SEND, or something f+1
  nodes echoed, so the message carries the origin's name;
* `Supported`: behind a READY of a correct node there is a quorum of n-f echoes,
  behind an output n-f READYs;
* `BelowThreshold`: a phase that has not acted has seen less than its thresholds, of echoes and of READYs,
  which makes the `=` in the code as good as `>=`.

Two quorums of n-f share a correct node, which echoes once: `ReadyAgreement`, then
`Consistency`, `Integrity` and `SingleOutput`. Totality: n-f READYs contain f+1 of
correct nodes; once they have arrived everybody is ready, and then everybody has
n-f. Validity: all correct nodes echo what was broadcast, which are n-f echoes, then n-f READYs. `Refinement` shows each step to be a step of `ReliableBroadcast` or a stutter.

**BKRProofs**, from: `Nodes` finite, `F < n`, `|Faulty| <= F`, `Nil` distinct from
values. `IInv` adds to `TypeOK`: `DecisionsProposed` (a decision was proposed by a
correct node), `ResultsFollow` (results are the decisions and inputs),
`RejectsLate` (who rejects saw n-f acceptances) and `InputsSent`. `OutputSize`
follows: either everything was accepted, or some correct node rejected and
therefore knew n-f acceptances, which are decisions and so in every output.
`AcceptedAgreement` and `ProposalAgreement` need no assumption on how often others
propose. `ProposesOnce` is an action property. `QuiescentTermination` takes two more invariants: `AcceptsRight` (an
acceptor accepts when it has its input, and has proposed if it has one) and `RejectsAll` (who saw n-f acceptances has proposed to
every agreement or is about to, although the loop starts at exactly n-f). When nothing is left to do the
agreements on the correct nodes have decided; n-f agreements accept, those or the ones that a node saw before it
rejected one of them; what they accepted was delivered to somebody and so to all; hence everybody saw n-f
acceptances, has proposed everywhere, and every agreement has decided.

**CoinTosserProofs**, from: `Nodes` finite, `T` a natural number, at least one copy of a share between correct nodes
arrives. Nothing is assumed of how often shares arrive, whose they are, or who panics. `IInv` adds to `TypeOK`:
`ChannelOK` of each node, which says that a sender found in `unordered` or `shares` has arrived, and twice where it comes again
(`Counted`), that everybody who arrived is found there unless the node is blocked, that the invoker is blocked only where somebody arrived twice, and that
there is a coin exactly when T+1 shares were combined, and it is what they interpolate to; and that all owners are among
`Tossers`, the nodes whose share can be proved. `SparedAgreement`: where nothing was repeated or relayed different places have
different senders, so different owners, and the interpolation is right. `CoinHidden` needs the pigeonhole principle: the coin comes from
shares of T+1 different owners only, and these are T+1 tossers; a repeated or relayed share may complete the
T+1 sooner, but not to the coin. `OnlyRepeatsBlock` is `Counted`: two places of one sender are two arrivals. `QuiescentTermination`: the
shares of more than T running nodes have arrived at a node that is not blocked, so each has a place, and they are T+1.

**MMRProofs**, from: `Nodes` finite, `|Faulty| <= F`, `None` is not a value; nothing on
`n`, which only crusader agreement needs. `EstimatesLocked` speaks of all later
rounds, and an induction over rounds is avoided by an invariant that holds of each
pair of rounds: `UnanimityLasts`, if the correct nodes propose one value only to a
round, they propose no other one to any later round. `IInv` is `RoundInv`, which adds
to `TypeOK`

* `CrusadersAgree`: decisions of a round other than bot agree;
* `Justified`: what was decided can be approved, for bot both values;
* `FromCoin`: an estimate is the decision of the round before, or its coin after bot;
* `Grounded`: every estimate goes back to a value that can be approved in round 0;
* `ReachedRight`: a decision was given to the node in a round whose coin confirms
  it, and is sent once;

with `OutputsDecided` (an output goes back to a decision of some round at a
correct node) and `AdoptedRight` (the gadget adopts at exactly f+1, so at least one of
them is a correct node's). Two decisions of different rounds agree by `EstimatesLocked`; hence
`Refinement`. `RoundsAreCrusader` needs `FromCoin`: a node has an estimate for a round only if the coin
of the round before came back, and coins come back once, so it never proposes twice. With the refinements of
`IVBCA` and `EVBCA` this links the layers: what `MMR` assumes of a round is proved of the code of the round.

**IVBCAProofs**, from: `Nodes` finite, `n > 3f`, `|Faulty| <= f`, nodes propose and send
values, `None` is none. Each handler and goroutine is first reduced to a relation between the old and the
new state of one node (`AfterEcho`, ...; the `Moves` lemmas), and each relation keeps `LocalInv`, one part per
channel:

* `ApprovalsRight`: what is in `approveValChan` is approved, never twice, and not what was voted;
* `BindsRight`: bot is offered once both values are approved, a value once it has n-f votes,
  and at most one of each;
* `TerminatesRight`: binds are counted once, so one value at most has n-f; bot is signalled once by the
  second approval and once by n-f binds of any kind;
* `DecidesRight` and `EchoesRight`: why a node decided, and why it echoed.

`IInv` adds `CountsGenuine` (what is counted for a correct peer it sent) and `EchoesRooted`: behind f+1
echoes there are enough proposals, for either all correct echoers proposed the value or one of them
repeated f+1 earlier echoes. `ChannelsSuffice` is local. `Binding`: two quorums of votes share a correct node, so
correct nodes bind one value at most; of the n-f binders behind the first decision at least n-2f are
correct and have bound, so the other value can get 2f < n-f binds at most. `Refinement` goes from n-f
binds to a correct binder, from its n-f votes to a correct voter, from its n-f echoes to the proposals.
`UnanimousTermination` needs one more invariant, `KeepsGoing`: whoever has n-f echoes, votes or binds has
gone on or has something to read. `EveryStepCounts` goes through the same relations: each adds to the counts or
moves a goroutine on, and none takes back.

**EVBCAProofs**, from: `Nodes` finite, `n > 3f`, `|Faulty| <= f`, in an outcome of the round before the values
other than bot agree, faulty nodes send values, `None` is none. Nothing is assumed of the coin, of who had decided, or of
how many were given a value. The layout is that of `IVBCAProofs`, with relations between states of one node and one part of
`LocalInv` per channel. What is different is why a value is approved and bound:

* `CoinSilent`: no correct node echoes the coin, since who estimates it is fast-forwarded and the echoes of faulty
  nodes alone are at most f. So the coin is approved by fast-forwarding only, and once;
* `ApprovalsRight`: what is in `approveValChan` is approved, each value once, and is not what was voted;
* `BindsRight`: what was bound or may be has n-f votes, or is the coin of a fast-forwarded node, and `bindValChan` was
  sent to at most once for each (`BindsSent`);
* `TerminatesRight`: binds are counted once and never for bot; `DecidesRight` and `EchoesRight` as before.

`IInv` adds `EnteredRight` (the outcome is one of `Outcomes`, and estimates follow it), `CountsGenuine` and `EchoesRooted`.
`ChannelsSuffice` is local: `BindsSent` is at most 2, and 2 only at a fast-forwarded node. Correct nodes may bind different values
here, so agreement cannot come from the votes as in round 0: two quorums of binds share a correct node,
which binds once. `Refinement` goes from n-f binds to a correct binder, which was fast-forwarded with the value or saw n-f votes, hence
to a proposal. `DecidedStays`: if some node was given the coin, everybody's estimate is the coin, and what is
decided was proposed; bot would need the other value approved. `CoinNeedsQuorum`: who votes for the coin estimates it, and who binds
it estimates it or saw n-f votes of those; n-f binds of the coin therefore lead to n-f nodes that
estimate it or are faulty. `UnanimousTermination` has two cases, the coin (all are fast-forwarded and bind it at once)
and the other value (as in round 0).

**OverlayProofs**, from: `Nodes` finite with the contact among them, `MaxBroken` a natural number. `IInv` says how
stages, lists and names belong together: `EndsOpen` (a connection has its two ends, the contact dials
nobody), `DialsContact`, `ToldOnce` and `DialsTold` (who dials others was answered, and dials each once),
`ListedRight`, `SignalsRight`, `Waited`. `NobodyApart` is inductive with these: the contact lists a node before it
answers it, so of two nodes the one answered later is told of the other. For `DealComplete`,
`KnowsEverybody` and `SettledMeshed` connections are counted: without twins the connections of a node have different
names, and n-1 of them lead to all others.

**Only model-checked.** Liveness under fairness (`Validity` of BRB, `Termination` of BKR and the
coin), which is out of reach of the prover: what is proved of them is that no quiescent state lacks what they
promise. Every invariant and every other action property of a passing run is a
theorem.

**Stated by a theorem alone.** `ReadyAgreement` of BRB and `NobodyApart` of the overlay, on which `Consistency` and
`SettledMeshed` rest; `QuiescentValidity` of BRB and `QuiescentTermination` of BKR and the coin, of which the
runs check the temporal form; `EveryStepCounts` of `EVBCA`, which `ivbca_scenarios` checks of the first round;
and `RoundsAreCrusader` of `MMR`, which links the modules.

## 5. Findings

1. An acceptor keeps the first input it sees (`proposalAcceptor.go:44`), and two
   broadcasts of one participant arrive in different orders: outputs differ.
2. A node that decides before it has bound may leave `waitToVote` through
   `unblockChan` (`internalValidityBCA.go:133`) and never bind; others that count
   on its bind are one short for ever.
3. `processShare` reports a repeated share and counts it all the same
   (`instance.go:135`); it may complete the coin with a wrong value, and the second
   answer blocks the share processor. This also takes away the common coin that `MMR` builds on: `EstimatesLocked` and
   `ABASpec` are shown of one coin per round, and nodes that see different coins may estimate and decide differently.
4. In a later round a node whose estimate is the coin never echoes it
   (`externalValidityBCA.go:98`), and `waitForPrevCoin`, through which the others would
   approve it, is never started. Two nodes with each value vote in vain: the round ends
   nowhere, and with it the agreement, without any fault.

Observations that are no run of their own:

* A share relayed by a faulty node under its own name (`instance.go:100`) has the same effect as finding 3, with every
  share arriving once: T+1 senders, one point twice, another coin. `SparedAgreement` says where the coin is still common. Agreement of
  the rounds above is as much at stake as with finding 3.
* A message of the coin that does not decode ends the process that receives it (`middleware.go:46`). `Termination` of the coin is
  stated for as long as more than T correct nodes run.
* A dial that fails ends the process of the dialler (`node.go:266`), and of all that dial it later.
* `README.md:8` promises an output as long as there are correct nodes; `bkr.go:64` stops at n-f,
  so with fewer than f faults a correct proposal may be left out. `OutputSize` states n-f.
* A later round is not binding, although `externalValidityBCA.go:12` calls it so. The echoes of others may
  make a node vote for 0 before it proposes; `fastForward` (line 102) then makes it bind the coin 1. With a bind of 0
  from one node and one of 1 from a faulty node it decides bot, while another node may still bind 0, by n-f votes, or 1, by being
  fast-forwarded. Agreement does not need binding (`CASpec` and `EstimatesLocked` hold); the argument that
  rounds end with a coin nobody can foresee does.
* In a later round the invoker of a node that bound bot after it was fast-forwarded blocks on
  `bindValChan` when n-f votes arrive, which takes no fault (`ChannelsSuffice` of `EVBCA` says that this is
  the only case). The invoker serves all rounds.
* When a single correct node decides in a round and f faulty ones are silent, the next round
  has n-f-1 proposers (`mmr.go:105`) and the decision is announced once, not f+1 times: the
  others wait for ever. `DecisionsSpread` and `UnanimousTermination` exclude it.
* Two nodes that join at the same time may be told of each other and connect twice. Each is signalled
  twice for one peer, so it may start before others have joined, takes the other as a participant twice,
  and sends it every message twice. `README.md` says that messages are only exchanged "after all nodes have
  joined the network"; `KnowsEverybody` holds without twins only. A share of the coin that
  is sent over both connections is finding 3 without a faulty node. If the contact told a node only of the peers it has
  already answered there would be no twins, and `NobodyApart` would still hold.
* `forgetPeer` works by name, so the loss of one twin takes the other off the list although it is still
  read (`ListFollows`). It is forgotten twice, when the read fails and when the connection is closed, and the second time may
  take a twin off the list that was added in between.

## 6. Plan

1. Progress of the other components: an action property like `EveryStepCounts`, proved.
2. Several broadcasts per origin and several coins at a time: the `finished` sets, and nonces
   (`middleware.go:89`).
3. Liveness of `MMR` for the schedules in which rounds end.

There is one run for each question; a new question replaces or joins one of these.

## 7. Not modelled

* Elliptic-curve arithmetic, proofs of shares and serialisation: a share is valid or not.
* Closing of channels and instances: `Close` is only called at the end of tests, the
  termination signal of binary agreement has no reader (`abaChannel.go:171`).
* The unlocked read of the map of instances in `bkrChannel.go:118`: a data race of the Go runtime.
* In the overlay: nodes that close or come back, the unlocked read of the list in `GetPeerIds`, certificates, and the dispatch of a message to
  its observers by channel code.
* The maps of instances and their `finished` sets: each model is one instance, and what is
  delivered to a finished one is dropped.
* The schedulers in the test helpers: what they do are interleavings of the models.

## 8. Running

    tlc -workers 2 -config BRB_faulty_origin.cfg MCBRB
    tlapm BRBProofs.tla

Each run takes less than five minutes on two cores, each proof less than five.
