# GoShimmer in TLA+

A formal model of the protocol core of the GoShimmer node (`packages/protocol`
and `packages/core`, in Go) and of the three browser applications that show
what it does (`plugins/dashboard`, `plugins/analysis/dashboard` and
`plugins/dagsvisualizer`, in TypeScript): TLA+ modules translated from the code,
TLC configurations that check them on small instances, and theorems that TLAPS
proves for all instances.  `PROJECT.json` ("map") names, for every definition,
the lines of the source it stands for.

- [1 The system](#1-the-system): components, their state, how they interact
- [2 What is hard about it](#2-what-is-hard-about-it)
- [3 The modules](#3-the-modules) and how they correspond to the code
- [4 What the runs check](#4-what-the-runs-check), bounds, fairness
- [5 What is proved](#5-what-is-proved)
- [6 Where code and promise part](#6-where-code-and-promise-part)
- [7 What is not modelled](#7-what-is-not-modelled)
- [8 Plan](#8-plan)

To repeat a run: `tlc -config MCLedger_booking.cfg MCLedger`; to repeat a proof:
`tlapm ConflictDAGProofs.tla`.

## 1 The system

A GoShimmer node receives blocks from its neighbours, builds a DAG of them (the
tangle), books the transactions they carry into a ledger, lets the weight of
the validators behind the blocks decide between double spends, and notarizes
what was accepted in one commitment per epoch.

| component (Go package) | state | operations | what makes it correct |
|---|---|---|---|
| `ledger/conflictdag` | conflicts with parents, conflict sets and confirmation state; Child and Member references | `CreateConflict`, `UpdateConflictParents`, `UpdateConflictingResources`, `SetConflictAccepted` | references are mirrored, the DAG is acyclic, two competitors are never both accepted, decisions reach the whole cone |
| `ledger` (booking) | transactions, outputs and their metadata, Consumer references, the DAGMutex | `StoreAndProcessTransaction`, booking, `forkTransaction` with its propagation, the TransactionBooked retry | every double spend is noticed, the future cone of a fork inherits it, every solid transaction is booked, no deadlock |
| `ledger` (acceptance) | inclusion epochs and confirmation states of transactions and outputs | `SetTransactionInclusionEpoch`, `triggerAcceptedEvent`, `triggerRejectedEvent` and their walks | a transaction is accepted once, when both consensus and a block have accepted it |
| `core/causalorder` | counters of unordered parents, registered children, the evicted epoch | `Queue`, `EvictUntil`, tasks of the event loop | parents first, every entity in the end, nothing of an evicted epoch |
| `engine/tangle/blockdag` | blocks, placeholders, children, flags | `Attach`, `SetInvalid`, `EvictUntil` | no block waits for parents that are solid, invalidity reaches the future cone |
| `engine/eviction` | the evicted epoch and the root blocks | `EvictUntil`, `AddRootBlock` | only root blocks of evicted epochs are referenced |
| `engine/notarization` | counters of pending conflicts, acceptance time, mutations, commitments | `IncreaseConflictsCounter`, `DecreaseConflictsCounter`, `SetAcceptanceTime`, `createCommitment` | no pending conflict is committed, nothing accepted is lost, commitments go on |
| `engine/ledgerstate` | state diffs and the state of the last committed epoch | `onTransactionAccepted`, `ApplyStateDiff` | the state is the sum of the committed diffs |
| `engine/tangle/booker`, `virtualvoting`, `core/votes`, `core/markers` | attachments, markers, votes | booking of blocks, votes on conflicts and markers | a block inherits the conflicts of its past cone; a vote is counted once |
| `engine/consensus` | accepted and confirmed markers and blocks | block gadget, epoch gadget, conflict resolver | accepted past cones, monotonic confirmation |
| `chainmanager` | commitments, chains and forks | `ProcessCommitment`, `ProcessCandidateCommitment` | a solid commitment has a solid parent and one chain |
| `congestioncontrol/icca/scheduler` | a buffer of queues per issuer, deficits | `AddBlock`, `tryReady`, `schedule` | ready blocks are scheduled, the buffer is bounded |
| `tipmanager` | tips, tips of future epochs | `AddTip`, `PromoteFutureTips` | tips are solid, scheduled and not too new |
| `core/eventticker` and the requesters | running retries | `StartTicker`, `StopTicker`, `EvictUntil` | a request is retried until answered, evicted or given up |
| node dashboard (`plugins/dashboard`): explorer | the page, the fields of one store, requests in flight | search, queries, answers, mounting and leaving of pages | a page shows what was asked for, or an error; whoever waits has a request |
| node dashboard: tangle visualizer | vertices and their order, counters, graph, selection | `addVertex`, `addTipInfo`, `checkLimit`, the fetched history, the user | counters and line match the vertices, the graph shows them |
| node dashboard: websocket and feeds | the socket, metrics, conflicts, live feed, chat | `onmessage` and its handlers, reconnect | what was sent is shown, also after a reconnect |
| network analyzer (`plugins/analysis`) | a map of networks in the server and in the browser, graph, selection, colours | heartbeats to events, replay to a new client, network and node selection, colouring | the browser has the map of the server, the graph shows the chosen network |
| DAGs visualizer (`plugins/dagsvisualizer`) | blocks, transactions and conflicts with a graph of each, selections, a search | events, pause and resume, limits, synchronized selections, search and return | each graph mirrors its store, marks are removed |

The rest of the node (sybil protection, mana, clock, filter, storage, network,
block issuer, retainer, VM, other plugins, clients, tools) is listed with a
reason in `PROJECT.json` ("components").

How they interact.  A block goes through the filter into the BlockDAG; the
CausalOrder hands it, solid, to the Booker, which attaches its transaction and
calls the ledger.  The ledger books it and calls the ConflictDAG while holding
the DAGMutex entries of the transactions concerned.  Votes make the block
gadget accept blocks, which sets inclusion epochs in the ledger, and accept
conflicts, which triggers events **under the lock of the ConflictDAG**: some
hooks run on the spot (the counters of the notarization, which may commit an
epoch right there), others are submitted to an event loop (the acceptance of
transactions).  A committed epoch is evicted everywhere.

```
blocks -> BlockDAG --(CausalOrder)--> Booker -> Ledger --> ConflictDAG
             ^                          |         |            | events under its lock
             |                        votes    accepted        v
          eviction  <-- commitment <-- Notarization <-- counters, event loop
```

The browser applications only observe.  Plugins of the node turn its events
into messages, queue them for each websocket and drop them when a queue is
full.  A handler per type of message writes them into MobX stores; pages show
the stores and fetch what the stores do not have over HTTP.  Everything in a
browser runs in one thread, handler by handler; what interleaves are messages,
answers, timers and the user.

## 2 What is hard about it

- **Interleaving.**  Every block is processed in goroutines of its own.  The
  ledger locks transaction by transaction (a `DAGMutex`, entries taken one
  after the other), the ConflictDAG has one lock for all, attachment and
  solidification of blocks hold two different locks, eviction a third.
- **Order of arrival.**  Blocks, transactions, forks, votes and decisions
  arrive in every order: children before parents, decisions before bookings,
  rejections before creations.
- **Events.**  A hook may run under the lock of whoever triggers it, after the
  lock was released (`ConflictCreated`), or as a task later (`eventloop`); what
  it reads is not what the event was about any more.
- **Eviction.**  Whatever waits (a block for its parents, a task in the event
  loop) may find the epoch it belongs to gone.
- **Partial failure.**  A commitment is made of steps that are persisted one by
  one and tried again.
- **Liveness.**  One lost wake-up leaves a future cone waiting forever; one
  wrong counter stops all later commitments.
- **Answers.**  In the browser an answer is written into the store when it
  arrives, whatever the store and the page are about by then; a drawing that
  awaits one goes on in a graph that was evicted from, cleared and redrawn.
- **Lossy and repeated messages.**  Queues drop, sockets close, what a new
  client is replayed overlaps with what it is sent.
- **Two copies.**  A graph mirrors a store and is only brought up to date while
  it is shown, not paused and not taken by a search; an exception in between
  leaves the two apart.
- **Arithmetic.**  Counters are unsigned: a `uint8` in the CausalOrder, a
  `uint64` in the notarization, and both are decreased without a test for 0.

`PROJECT.json` ("hazards") lists 40 of these at their lines, with the
properties that would catch them or the reason why none does; the notes of the
planned components there say what waits in them.

## 3 The modules

```
ConflictDAG <--INSTANCE-- Ledger          CausalOrder <--INSTANCE-- BlockDAG
     ^------INSTANCE-- Acceptance         Notarization

Explorer  Visualizer  NodeFeeds       node dashboard   \
Autopeering                           network analyzer  >-- MCFrontends
TangleView  UTXOView  ConflictView    DAGs visualizer  /
     ^--------- EXTENDS ---------^--- DagsVisualizer
```

`<Module>Proofs` extends a module with its theorems.  Where a module is built
on another one, so are the proofs:

```
ConflictDAGProofs <--INSTANCE-- LedgerProofs, AcceptanceProofs
CausalOrderProofs <--INSTANCE-- BlockDAGProofs
NotarizationProofs    DashboardProofs (of Explorer and NodeFeeds)    AutopeeringProofs
```

`MC<Module>` instantiates a module for TLC, `MC<Module>_<run>.cfg` gives the
constants and names the properties; definitions that say `Mutant of` are
plausible bugs of the definition they precede, which the property they belong
to must detect.

**ConflictDAG.**  One action per method; the methods run under the lock of the
ConflictDAG.  `confirmationState`, `parents`, `conflictSetIDs` are the fields of
a conflict, `members` and `children` the stored references.  The walks
(`utils.go`, `conflictdag.go`) are least closures.  `Create`, `ForkParents`,
`ForkResources`, `Accept` enumerate what the ledger may call: a fork is of a
transaction that is booked, thus never below itself; consensus accepts only
conflicts none of whose competitors is accepted (`RefreshConflictAcceptance` in
the block gadget).  Both assumptions are discharged by the refinement below.

**Ledger.**  A goroutine per transaction that is processed, with its local
state in `booking[t]` (where it is in the dataflow, the conflicts it inherited,
the transactions it must fork, what a fork still has to visit); `mutex` is the
DAGMutex.  The steps follow `dataflow.go` and `booker.go`: store, solidity,
register with each input, create the own conflict, fork each first consumer
(lock, update, walk the consumers), book, wake up the consumers.  `tasks` and
`bookedEvents` are the event loop.  The calls into the ConflictDAG are the
actions of that module; `ImplementsConflictDAG` (initial states are
initial states of the abstract module, steps are its steps or stutters) states
that every behaviour of the concurrent ledger is a behaviour of the abstract ConflictDAG:
the detailed specification implements the abstract one, variable by variable.

**Acceptance.**  What follows a decision: the goroutines that set inclusion
epochs and the tasks of ConflictAccepted and ConflictRejected, each step by
step, with the two hooks that store the state diff and the mutation.  The
state diff of an epoch has a store for what is spent (`spentOutputs`), which goes
by the inclusion epoch of the transaction, and one for what is created
(`createdOutputs`), which goes by that of the outputs (`outputEpoch`); the second
is set after the first and read after it.  The transactions are booked from the
start (`ConflictIDs` computes what `Ledger` leaves behind); the acceptance of a
conflict is that of the ConflictDAG.

**CausalOrder.**  `Queue` is a sequence of steps under locks (`running[e]`):
look at each parent, register with those that are unordered, store the counter
or call back; `tasks` are the submitted `triggerChildIfReady`; `EvictUntil` is
one step (its write lock excludes the others), its callbacks follow.  A counter
is a `uint8`: 0 when not stored, and `% 256`.

**BlockDAG.**  `Attach` step by step: `CanAttach`, `Store` (the block takes the
place of its placeholder or a new one), `RegisterChild` for each parent (which
may store a placeholder), `Attached`, `Queue`.  The solidifier is an instance
of `CausalOrder` over the variables of `BlockDAG`: `known` is `Block()`,
`ordered` the solid flag, `rejected` the invalid flag.  `MarkSolid` looks the
parents up again, as `checkParents` does.  `WalkFutureCone` is the walk of
`SetInvalid`, child by child.  An eviction reaches the eviction state, the
solidifier and the storage one after the other.

**Notarization.**  Three kinds of goroutines: the one that decides a conflict
(`deciding`, under the lock of the ConflictDAG), the one that announces a
created conflict (`announcing`, without it), and the one that advances the
acceptance time.  Accepted transactions reach the two stores in two steps
(`accepting[t]`).  `committing` is the holder of the `commitmentMutex` and how far
`createCommitment` has come: state diff, mutations, attestations (which may
fail), commitment.

**Explorer.**  The store of the explorer is a function from its fields to what
was last written there (`entity`); `requests` is a bag of what is in flight,
and `Answered` takes any of them, with any outcome, at any time.  `Show` is the
router: it unmounts a page (`Cleared` is its `reset()`) and mounts another, or
lets it ask again.  `Render` is what follows inside a block page: the component
of a transaction payload (`nested`, with the transaction it was mounted with)
asks for the metadata when it is mounted, clears the whole store when it is
unmounted, by an error or by a block without a transaction, and does not ask
again when the block of another transaction takes the place of the first.
`patient` remembers whether the user ever left a page while something was in
flight: only then may a page show what another one asked for.

**Visualizer, TangleView, UTXOView, ConflictView.**  A store is one record and
a method an operator from stores to stores: handlers run to their end, and
such operators compose as the calls do.  An exception is the field `threw`: what
was assigned before it stays, what comes after is skipped (`Handled`, `Caught`).
The graph libraries (vivagraph, cytoscape) are their documented behaviour: sets
of nodes and links, and an exception for an edge without its ends.  In
`ConflictView` a drawing that awaits a fetch is a record in `waiting`: the
conflict, the parent it asked for and the rest it has to do.

**DagsVisualizer.**  Composes the three stores with the `GlobalStore`
(`SyncWith...`, `Search`, `RenderSearchResults`, `ClearSearchAndResume`) and with
the stream: the node's `log`, the message that comes `next`, and `StreamBreak`,
which lets it go on with an earlier or a later one, as a connect and a
reconnect do.  `TangleDAG`, `UTXODAG` and `ConflictsDAG` are the users of the three
components.

**NodeFeeds.**  The worker pools of the node (`pools`, whose `TrySubmit` refuses
what does not fit), the queue of the client (`channel`, which drops what does not
fit), the bounded map of conflicts (`stored`) that is sent anew when a client
connects, the handlers of NodeStore, ConflictsStore, ChatStore and the live
feed, and the reconnect.  A message carries a number; `NodeType` and `WSMsgType` are
the enumerations of the two sides, with their own numbers, and a message reaches
the handler the browser registered under the number the node gave it.  A list
of neighbors that is null is passed over, as the handler does.  The handlers of
the node's events are tasks; they are taken in the order in which they run.

**Autopeering.**  The server's map; its events, whose handlers are attached
(`runAutopeeringFeed`): each runs as a task of its own and submits when its turn
comes, so `SendEvent` takes any of the events that wait (`pool`), and `overtaken`
remembers the networks of which an event was sent before an earlier one; the
replay to a client that connects, network by network; and the AutopeeringStore:
networks, neighbours, graph, selection, highlight and colours that are written
to the graph by hand.  Events that wait are kept by network: as the tasks run in
any order, and networks share no data, the order among networks tells nothing
apart.

## 4 What the runs check

| run | instance | states | properties |
|---|---|---|---|
| `conflictdag` | 4 conflicts, 2 outputs, symmetric | 35 000 | references mirrored and acyclic; competitors never both accepted; decisions settle the past cone, the competitors and their future cone in the same step; consistent until the first fork |
| `ledger` | 5 transactions with one double spend above another, or 4 of which one competes with two | 103 000 | every double spend is a conflict (`SpendersConflict`); future cones inherit forks (`FutureConeInherits`); no double spend is accepted (`NoDoubleSpendAccepted`); every transaction with a complete past cone is booked (`EventuallyBooked`); the ledger implements the ConflictDAG |
| `causalorder` | a root, a diamond and a tail in 2 epochs, 2 refusals, 2 evictions | 3 000 | parents first; exact counters; final verdicts; nothing evicted is ordered; everything else is |
| `notarization` | 2 competitors in 2 epochs, one attached again in the later one, 4 epochs of time, 1 failure | 252 000 | no epoch committed with a pending conflict; nothing added is lost; commitments go on unless disturbed |
| `acceptance` | a double spend above another with a cone of its own, 5 transactions, 2 blocks for one of them | 1 199 000 | accepted once, by whoever comes last, and stored for the right epoch; what is accepted too early is in the future cone of an announced conflict; rejections reach the cone |
| `blockdag` | 4 blocks above the genesis in 3 epochs, 2 evictions, 1 invalid | 99 000 | nobody waits for solid parents; invalid future cones; evicted blocks are forgotten |
| `frontends` | each browser application by itself, 3 vertices, 2 nodes, 3 blocks, 2 transactions or 3 conflicts | 2 182 000 | see below |

The run `frontends` drives one part at a time (`focus`); its properties are:

- *explorer*: `PatientUserSeesHerPage`, `LoadingHasARequest` (who sees "loading"
  waits for a request that is in flight; "searching" is not checked);
- *visualizer*: `VerticesAccountedFor` (counters and the line of eviction),
  `GraphMirrorsVertices`;
- *feeds*: `FeedShowsLatestBlocks` (through full pools, full queues and closed
  sockets), `TrafficMatchesMetrics`;
- *wire* and *page*: `StoreMirrorsServer` (once no event is under way, whatever was
  announced twice, for the networks whose events were sent in their order),
  `GraphShowsNetwork` (the nodes and the ends of links in any order, the links once
  settled in theirs), `ChosenNetworkShown`, `ColoringOffLeavesNoColor`;
- *tangle*, *utxo*, *conflicts* and *sync*: `TangleGraphMirrorsBlocks`,
  `UTXOGraphMirrorsTransactions`, `ConflictGraphMirrorsMap`.

There are five runs that show what the code does against what it says (section 6):
`ledger_twins`, `causalorder_evict_task`, `notarization_state`,
`acceptance_nested`, `blockdag_parents`.

**Bounds.**  All names are constants or definitions of the MC modules.

- *Four conflicts and two outputs* give every shape the walks distinguish: a
  chain of three with a competitor, a diamond, a conflict in both sets, a fork
  in the middle of a chain.  The safety part is proved for any number.
- *The transactions of the ledger runs* are chosen per question: a fork whose
  future cone contains another fork and an unbooked transaction (`Nested`), a transaction that joins a second conflict set after it was decided
  (`TwoSets`), two transactions that take two locks in opposite order
  (`ledger_twins`).  A behaviour is of one of the two shapes (`MCNext`).  `Acceptable` limits what consensus accepts in a run: the acceptance
  interleaves with everything else.
- *CausalOrder:* `QueueLimit = 1`, each entity is queued once (see section 6
  for twice); the diamond has an entity with two parents that are ordered in
  either order, the tail one whose parents are ordered in different epochs.
- *Notarization:* `MaxTime = 3` stands for all later times: two epochs that can
  be committed while conflicts of each are pending, and one after them.
  `CounterSize = 16` shows the wrap-around below 0; no run comes near it from
  below.  `MaxFailures = 1`: a failure and the attempts after it.
  `FairSpec` keeps the earliest attachment of a conflict with an event to come
  (`EarliestStays`; section 6 for what happens without); later attachments arrive at
  any time.
- *BlockDAG:* `LastIndex = 2`, so that the epochs of a waiting block's parents,
  and of the block itself, are evicted.  `RootBlocksEvictionDelay = 0` makes root
  blocks expire within the run.

- *Frontends:* limits of one or two vertices instead of 50 or 500, so that every
  third one evicts (`InitialLimit`, `Limits`, `InitialTangleLimit`,
  `InitialUTXOLimit`, `InitialConflictLimit`, `DagLimits`); worker pools of two tasks
  instead of 50 (`PoolSize`), one conflict set in the node (`MaxCount`), queues of four
  messages (`ChannelSize`), feeds of two blocks, series of two points.  `MaxVisits`,
  `MaxRequests`, `MaxTipChanges`, `MaxMetrics`, `MaxCloses`, `MaxEvents`, `MaxLog` and
  `MaxJumps` bound what the world does.  `MCFrontends` bounds combinations: in the
  explorer a search is in flight with at most one other request (`BoundedExplorer`);
  in the visualizer blocks are accepted after their parents, the two that are alike
  are attached in one order, only the first may be lost, and only the first is
  selected, while no tip changes (`BoundedVisualizer`); in the analyzer either three
  events meet no choice of the user, or two, and sockets close early, while the page
  is not looked at; while it is, at most one event is queued, and two of them meet
  no mana (`BoundedPeering`); in the DAGs visualizer the stream starts again at its
  first message or skips one (`BoundedBreak`); of a pause, a changed limit, a break
  of the stream and a search at most two are on at a time in the graphs of
  transactions and conflicts, and in the tangle all but a break, or a break alone,
  or a break and a pause (`AtMost`); and the messages are those of one graph
  (`BoundedTangle`, `BoundedUTXO`, `BoundedConflicts`) but for `sync`, where selections
  of all three meet and nothing is paused (`BoundedSync`).
- *Acceptance:* one transaction with blocks of two epochs has its epoch moved
  once, at any moment of its acceptance; three levels of consumers make the walks
  repeat.  In the passing run (`MCSpec`) consensus decides the upper double spend for
  one side or not at all, so that both sides of its wrong early acceptance
  (`acceptance_nested`) do not meet; the goroutines that accept something are any
  two at a time, or all those of the transaction with two blocks, beside any number
  of rejections.

`CHECK_DEADLOCK FALSE` where the system really stops: everything arrived, is
booked and evicted, the bounds of the world are used up.

**Fairness.**  Only what the Go scheduler guarantees, and never an arrival, a
decision or an eviction.

- `Ledger`: weak fairness of each goroutine's next step (`Process`) and of the
  tasks submitted for a transaction (`EventLoop`): a runnable goroutine runs, the
  event loop's workers empty its queue.
- `CausalOrder`: weak fairness of the next step of each entity (`Proceed`).
- `Notarization`: weak fairness of a commitment under way and of a triggered
  event, whose goroutines hold their locks until they are done.  Strong
  fairness of `AnnounceConflict` and `SetAcceptanceTime`: they wait for the
  `commitmentMutex`, which is free again and again, and Go's mutex does not starve
  a waiter.  That the acceptance time advances is the assumption that blocks go
  on being accepted.
- The other modules are checked for safety only.  In the browser whatever
  should follow waits for a user or for a network that may be gone.

`EventuallyCommittedUnlessDisturbed` is conditional on purpose: `Due` (nothing
pending, nothing on its way), no conflict created rejected, no failure; section
6 says what happens otherwise.

## 5 What is proved

TLAPS checks 41 theorems in eight modules, for every set of transactions,
conflicts, blocks and ids, every DAG they form, every distribution over epochs,
every bound and every interleaving.

**Assumptions.**  Those of the modules about their constants, which TLC
evaluates on every run: `NotarizationConstants`, `LedgerConstants` and
`InputsAreOlder` (a transaction spends outputs that exist when it is made),
`CausalOrderConstants` (less than 256 parents, none of them the entity itself),
`AcceptanceConstants`, `BlockDAGConstants` and `GenesisHasNoParents` (the genesis
is the empty block), `ExplorerConstants`, `NodeFeedsConstants`,
`AutopeeringConstants`.  Six hypotheses are stated with the theorems that need
them:

- `QueuedOnce` in CausalOrderProofs: each entity is queued once.  It is true of
  the BlockDAG, which queues a block when it is first attached (BlockDAGProofs
  needs no such hypothesis), and not of the Booker; section 6 says what happens then.
- `[]OnlyAcceptedTransactions` in three theorems of AcceptanceProofs:
  TransactionAccepted is only triggered for what is accepted.  Finding 4 shows
  that the code breaks it when conflicts depend on each other.  How far it breaks
  it is a theorem without hypothesis, `AcceptanceComesFromThePast`.
- `UnforkedSpec` in `DecidedConesAreConsistent`: until a conflict is forked.
- `[][EarliestStays]_vars` and `WideCounters` in two theorems of NotarizationProofs.
  A transaction may have any number of attachments, and be attached again at any
  time; but while its conflict is unsettled no block of an earlier epoch than all
  before brings it, and its earliest attachment is not evicted before the others.
  And there are fewer conflicts than a counter has values.  Without the first,
  `IncreaseConflictsCounter` and `DecreaseConflictsCounter` are called for different
  epochs, because the earliest attachment is looked up again for each event
  (`engine.go:401`, section 6), and the statement is false of the code.
- `AllPending` in `FutureConesInherit`: nothing is decided yet.  After a decision the
  statement is false where section 6 says.
- `[]NoRefusedBlockReturns` in `InvalidityReachesTheCone`: no block is attached after all
  that was refused before, because of a parent that was too old then.  The code
  does not prevent it (section 6); `InvalidityReachesTheConeAtFirst` needs no such
  hypothesis, as nothing is too old before the first eviction.

**ConflictDAGProofs.**

- `TypeCorrect`, `ReferencesCorrect`: `Spec => []TypeOK`, `Spec =>
  []ReferencesMirrored`.  The second is inductive only together with the first.
- `ConflictsStayAcyclic`: `Spec => []Acyclic`.  A cone is a set that is closed
  under the parents; the future cone of a conflict is disjoint from some cone
  exactly when it does not lead back, and each fork keeps the cones of everything
  that is not below the new conflict.
- `DoubleSpendSafety`: `Spec => []AtMostOneAccepted`, forks included.  The
  inductive invariant is `TypeOK /\ ReferencesMirrored /\ AtMostOneAccepted`:
  mirrored references make "conflicts with" symmetric
  (`ConflictingIsSymmetric`), and that is what carries the argument.  The
  lemmas `AcceptanceWalk` and `RejectionWalk` say what the two walks reach (they
  rest on three lemmas about least closures), `StatesAfterAcceptance` what
  `SetConflictAccepted` leaves behind; every other action leaves decisions
  alone (`OnlyAcceptDecides`), and no action takes one back (`DecisionsAreFinal`).
- `AcceptanceSettlesEverything`, `RejectionReachesEverything`: the two action
  properties, from the same invariant.
- `DecidedConesAreConsistent`: for `UnforkedSpec`, accepted past cones, rejected
  future cones and settled conflict sets are invariant together.  Each of the
  three is needed for the others: a rejection spreads down, an acceptance up,
  and sets connect the two.  This is the property that forks break.

**LedgerProofs.**

- `ConflictDAGImplemented`: the concurrent ledger implements the ConflictDAG.  What
  is to be shown is that the ledger only calls what the abstract module allows:
  it forks a conflict below parents that are not below it, and it never adds an
  accepted conflict to a conflict set with another accepted member.
- The inductive invariant names what that needs: who holds which entry of the
  DAGMutex (`LockInv`), that conflicts are inherited along the inputs and only
  from what is booked (`ConeInv`), what the walk of a fork has done so far
  (`WalkInv`), what a goroutine knows of the other spenders of its inputs
  (`RegisterInv`, `SpenderInv`) and whom it is still going to fork (`ForkInv`).
  The last three say together that whoever spends second creates its conflict
  and forks the first spender before it is booked, and only what is booked is
  accepted.
- `DoubleSpendsAreNoticed` and `NoDoubleSpend` follow from the invariant and from
  the lemmas of ConflictDAGProofs, taken over the same variables.
- `FutureConesInherit`: while all is pending, `FutureConeInherits`.  `InheritInv` speaks
  of the states between, when goroutines run: what a transaction depends on
  only grows (`OwnInv`, `SolidInv`); what its inputs inherited when it looked is
  what it is going to be booked with (`SeenInv`); and what an input inherits later
  is on its way to each of its consumers, in the walk of a fork that has not
  visited them yet (`EdgeInv`).  When nobody runs nothing is on its way, so each
  edge is inherited along, and by `ConeFacts` each path.

**CausalOrderProofs.**

- `TypeCorrect`, `ParentsFirst`, `ExactCounters`, `FinalVerdicts`, `NoTriggerLost`.
  The first does not need `QueuedOnce`: the counter is a `uint8` however often it
  is set.
- `CounterExact` speaks of entities at rest; the invariant says of every entity
  in which of five situations it is: `Untouched`, `Inspecting` (what was found so
  far is what it is registered with, and nobody it found is ordered before the
  locks are given back), `Settled`, `Waiting` (the counter is what is owed: the
  tasks on their way and the parents that have not handed on their order), or
  `Refused` (its inspection ended halfway; the registrations it leaves behind
  decrease a counter that was never set, which wraps around and never gets to 0,
  because there are fewer than 256 parents).
- `FinalVerdicts` adds `Final`; it is kept apart from the rest because a user that
  refuses entities by itself breaks it and nothing else (`EnvironmentStep`).

**BlockDAGProofs.**  The BlockDAG is such a user: its SetInvalid sets the flag that the
solidifier reads as `rejected`, whenever it likes.  Every step of the BlockDAG is
a step of its CausalOrder or of that environment, so the invariant of the
one is an invariant of the other (`SolidifierStep`, `EnvironmentOf`).

- `SolidAfterParents`: BlockSolid is triggered for parents first.
- `NothingStoredAfterEviction`: `Spec => []EvictedBlocksForgotten`.  `AttachInv`: whatever is
  stored or between its check and its storing is of an epoch that is not
  evicted, or whose eviction still waits for the read lock; `EvictionInv` relates
  the progress of the three evictions.
- `NoBlockForgotten`: `Spec => []NobodyWaitsForSolidParents`, from `NothingOwed` of the
  CausalOrder and `NothingStoredAfterEviction`: a stored block is not too old.
- `InvalidityReachesTheCone`, `InvalidityReachesTheConeAtFirst`: a child of an invalid
  block is found by the walk of SetInvalid or finds the mark itself.  `RegisteredInv`:
  a parent knows every child that has registered, until it is solid or evicted, so
  the walk goes there.  `ConeInv`: any other child is still to be checked by the
  solidifier.  `ReasonInv`: what is marked has a final verdict, was never queued,
  or has an invalid parent, and so does not become solid.  `AncientInv` says for
  the second theorem that nothing is evicted before the first eviction.

**AcceptanceProofs.**

- `InclusionMeetsAcceptance`: an acceptance needs two facts that arrive in
  different goroutines.  `MeetInv`: whenever both are there, the transaction is
  accepted or one of the two goroutines is before its look at the other fact.
  `DAGInv` (everything is booked, so the ConflictDAG stays consistent, from
  ConflictDAGProofs), `IncludeInv`, `TaskInv` and `StateInv` say what each kind of
  goroutine may be doing.
- `OutputInv` is about the second epoch: the outputs have none before the
  transaction has one, and keep none until the block that was the first to give
  the transaction its epoch gives it to them.
- `AnnouncedOnce`, `StoresFollowInclusion`, `RejectionIsComplete` add `EventInv`, `StoredInv`
  and `WalkInv` (a rejected transaction has rejected consumers but for those its
  walk has still to visit).  `StoredInv` is three facts, one for each store: it
  follows the inclusion epoch, as somebody who moves or stores it is still to read
  that epoch or has read this one (`SpentFollows`, `MutationFollows`); what is
  created follows it as well, unless the outputs have come to another epoch than
  their transaction (`Apart`) or were stored before they had one (`CreatedFollows`).
  What happens then is in section 6 (*Acceptance*).
- `AcceptanceComesFromThePast`: `Spec => []AcceptedByThePast`, for every ledger.  The walk
  after an acceptance accepts what is undecided, but only in the future cone of
  the conflict it started from (`ConeInv`, `ConesAreClosed`), and a block only accepts
  what has accepted conflicts.

**NotarizationProofs.**

- `TypeCorrect`: the counters stay within a `uint64` by wrapping around, and an
  epoch that is committed lies in the past.
- `CommitmentsInOrder`: `CommitInv`, how far a commitment has come seen from
  outside.  Whoever commits works on the successor of the latest commitment,
  and the mutations are at most one epoch ahead, failures included.
- `AcceptedTransactionsCommitted`: `Spec => []AddedTransactionsCommitted`.
  The property says nothing of the time between acceptance and commitment, so
  it is strengthened to `AddedInv`: an added transaction is in the mutations,
  or in the hands of whoever commits its epoch, or in the commitment.  The
  argument is that the refusal of a late transaction and the eviction of the
  mutations look at the same `mutationsEpoch` under the same lock.  The state
  diffs have no such refusal, and there the statement fails (section 6).
- `CountersAreBalances`: `CounterInv`.  The counter of an epoch is the number of its
  counted conflicts less the number of those whose decision has arrived,
  modulo 2^64: a decision that overtakes its announcement takes the counter
  below 0, the announcement brings it back.
- `PendingConflictsBlockCommitments`: `Spec => NoPendingConflictCommitted`, an action
  property.  `CommittingInv`: the epoch in the hands of whoever commits had a
  counter of 0 under the `commitmentMutex`, and it takes this mutex to change a
  counter; so the balance is 0 when the commitment is stored, and a pending
  conflict that was counted is made up for by a decided one that was not.

**DashboardProofs.**  `PagesShowTheirEntity`: `PageInv` says what holds for a patient user
while answers are missing: whatever is in flight is about the page that is
shown; the fields of the page hold its entity, nothing or an error object; for
the pages of blocks and addresses, whose fields are not reset, an old value
stays only behind an error or a request for the new one; and where no page of
these fields is shown they are empty.  The component in the block page is there
exactly while a block with a transaction is shown without an error (`TypeInv`); its
request for the metadata is about the transaction it was mounted with.  The
property names what the component spoils: a page that it cleared (`blanked`), and
metadata that stay those of the first transaction.  `LoadingEnds` shares the
lemmas about the bag of requests.

`TrafficIsAligned`: metrics and traffics are counted from
their newest element (`Newest`), because they are shifted out at different
times; `CollectNewest` says what adding to a series does to that.  It holds
whatever the numbers of the message types are.

**AutopeeringProofs.**

- `ChoiceStands`, `NoColorStays` and the first part of `GraphFollowsStore` hold of the
  store whatever it is told: `StoreOK`, which every handler keeps (one lemma each,
  `AddNodeKeeps` to `RichestKeeps`).  Colours are the hard part of it: no handler
  computes them anew, so each is shown to give the colour of the mana only
  while the colouring is on (`Recolored`, `Started`).
- `StoreFollowsServer` and the rest of `GraphFollowsStore` need the wire, and they are
  about the networks whose events were sent in their order; what overtakes what
  in the others is left open (`Apart`: a handler leaves the data of the other
  networks alone).  `Followed`, for one network: the events that are queued for the
  client or still to be sent lead, through a sequence of maps `r`, from the map
  `r[1]` the client has been told of to the one the server has by now.  The store
  need not be that map: the replay told it of a later one, and the events in
  between will be told again.  But it is right about each node and link on which
  all maps of `r` agree (`KnowsNodes`, `KnowsLinks`; what is still to be replayed
  counts as known).  When nothing is on its way `r` is one map, and everything is
  steady.  Of a network that is still to be replayed the store has nothing
  (`Unheard`, in `WireInv`).
- Two more conjuncts make it inductive, one for each kind of event that the store
  may refuse: a connection whose node left meanwhile (`LosesNodesInOrder`: the store
  has no links of a node that it lost before the server did), and the end of a
  link the graph does not have (`DrawsLinks`: then the store does not have it
  either).  When the last node of a network leaves, the store drops the
  network's connections; a steady one would have steady nodes, so it had none.

**Only model-checked:**

- Liveness (`EventuallyBooked`, `EventuallyOrdered`,
  `EventuallyCommittedUnlessDisturbed`) and `ENABLED` are outside TLAPS.
- `FutureConeInherits` after a decision, and `InvalidFutureCone` when a refused placeholder
  returns: they hold in the instances of their runs and not for every constant
  (section 6).  Forks pass over accepted conflicts, and a placeholder that was
  refused because of a parent that is too old may become solid after all.
- `DecidedUntilForked` is the checked form of `DecidedConesAreConsistent`.
- `FeedShowsLatestBlocks`: what a sequence of full pools, queues and feeds leaves of
  a sequence of blocks is an induction over that sequence.
- The properties of the visualizer and the DAGs visualizer.  Their stores change
  in loops over lists and maps (folds and recursive functions in the models),
  and what a loop leaves behind for every input is an induction over data, which
  TLAPS cannot do here.  The walks of the ConflictDAG are defined as least
  closures instead, and the drawing loops of the analyzer, which only add, as the
  sets they add; both the proofs reason about directly.
  The one RECURSIVE operator (`History`, the ancestors of a conflict in
  `DagsVisualizer`) is in a module without theorems.

## 6 Where code and promise part

Each of the first five has a run that ends with the counterexample, and an entry
in `PROJECT.json` ("findings").

1. `ledger_twins`: two transactions that spend the same two outputs wait for
   each other's DAGMutex entry forever (`booker.go:142`).
2. `causalorder_evict_task`: a task meets the evicted epoch of its child and
   dereferences a nil storage (`causalorder.go:170`).
3. `notarization_state`: a state diff is stored for an epoch whose diff was
   applied already (`ledgerstate.go:163`); for a conflict that is decided late,
   always: its own ConflictAccepted event commits the epoch first.
4. `acceptance_nested`: the walk after an acceptance accepts consumers that are
   pending conflicts and passes over those that are not (`ledger.go:281`).
5. `blockdag_parents`: `checkParents` panics when a parent was evicted after
   the solidifier saw it (`blockdag.go:146`).

Further deviations that the models reach but no run is kept for:

- *Ledger.*  The propagation of a fork stops at a transaction that is a
  conflict, also when that conflict is accepted (`booker.go:181`): consumers
  whose conflict is merged away do not learn of the forked ancestor.  In
  the run `ledger` no transaction spends an output of the accepted `d` or `e`; with
  one that does, `FutureConeInherits` fails this way.  A competitor
  that joins through another output after a decision stays pending
  (`booker.go:93`, `148`).  `UpdateConflictingResources` returns the result of its
  last iteration only (`conflictdag.go:104`).
- *CausalOrder.*  An entity that waits and is queued again (`booker.go:438` does
  this) is registered twice with its parents while its counter starts over: it
  is ordered before its parents.  `ParentsOrderedFirst` fails with
  `QueueLimit = 2`.
- *Notarization.*  A conflict that is rejected when it is created increases a
  counter that nobody decreases (`engine.go:398`, `conflictdag.go:52`):
  commitments stop.  The epoch of a conflict is computed again for each of its
  events (`engine.go:401`), so an attachment of an earlier epoch that arrives in
  between changes the wrong counter: with `Spec` in place of `SpecEarliestStays` and
  such attachments `NoPendingConflictCommitted` fails.  A commitment that failed after its mutations were evicted is
  refused ever after (`manager.go:210`).  When the attachments of a conflict are
  evicted before its event, the earliest attachment is nil (`engine.go:398`; the
  model stops in `crashed`).  A conflict that is decided before it is announced
  takes its counter below 0, or to 0 while another one is pending: the exemption
  in `NoPendingConflictCommitted`.
- *Acceptance.*  `UpdateTransactionInclusion` adds a transaction to the mutations
  of an earlier epoch whether or not it is accepted (`engine.go:384`), and a
  racing `AddAcceptedTransaction` leaves it in both epochs.  An included consumer
  of an accepted transaction that has no conflict of its own is never accepted.
  The epoch of a transaction and that of its outputs are set one after the other,
  and the state diff uses the one for what is spent and the other for what is
  created (`ledger.go:133`, `statediffs.go:265`, `289`): with two blocks of
  different epochs, or an acceptance in between, the diff of an accepted
  transaction is split over two epochs, or its outputs are stored under none.
- *BlockDAG.*  A placeholder can be stored for an epoch that is evicted already
  and stays there (`blockdag.go:224`).  A block can be both solid and invalid:
  invalidated as a placeholder because of a parent that is too old, attached
  after all once the parent is a root block (`blockdag.go:211`).
- *Node dashboard.*  An error on a page that shows a block with a transaction
  unmounts the component of the transaction, which clears the store and the error
  with it: the page shows neither block nor error
  (`ExplorerTransactionMetadata.tsx:26`; the exception `blanked` of
  `PatientUserSeesHerPage`).  The numbers of the message types are written down
  twice and disagree from `ManaDashboardAddress` on (`misc/WS.ts:18`,
  `plugins/dashboard/plugin.go:190`): chat, rate setter and conflict messages reach
  handlers of mana, or none, and the conflicts tab stays empty, in the model as in
  the code.  A conflict one of whose sets makes room for another of its own stays
  in the node's bounded map for ever (`conflicts_livefeed.go:285`).  `broadcastWsBlock` returns after its first
  client when messages may not be dropped (`ws.go:133`).  `reset` says "reset all
  variables" and keeps addresses, payloads and voters (`ExplorerStore.tsx:474`).  From a
  block with a transaction to another one the component of the transaction stays,
  and shows the metadata of the first (`ExplorerTransactionMetadata.tsx:21`); from it
  to a block without one the new block is cleared with the store.  In
  the visualizer `resetLinks` loses its `this` and throws at the first link
  (`VisualizerStore.ts:326`), so that markings survive their vertex against the
  comment at line 154, and a handler is left half way; a negative limit makes
  `checkLimit` loop forever.
- *Network analyzer.*  The handlers of the server's events are attached, so the
  events of one network overtake each other (`autopeering_feed.go:133`): a link
  announced before its node is refused, a node that is removed and added again is
  taken away last, and the browser ends without nodes and links the server has
  (`overtaken`).  A socket that was closed is never opened again
  (`services/WS.ts:40`: the reconnect finds the old one).  "We choose the newest"
  network (`AutopeeringStore.tsx:199`) compares versions as texts.  The automatic
  switch of the network leaves the highlight of the selected node, and starts a
  graph on a page that is not mounted.  A second click does not deselect a node
  without neighbours, and links that are announced twice leave one behind.
- *DAGs visualizer.*  The node sends `conflictIDs` of a transaction, the store
  reads `conflictID` (`type.go:75`, `UTXOStore.tsx:104`): synchronizing with a
  transaction never finds its conflict, with a conflict never its transactions.
  After `syncWithBlk` of a block that is not booked every later one throws;
  `syncWithConflict` throws while any block is not booked.  A transaction that is
  announced twice (with each attachment) makes `checkLimit` throw at its second
  turn and lose another one; with a spender announced before what it spends,
  drawing throws, and a resume or the return from a search stops half way, the
  graphs staying paused or out of use.  A search with two attachments of a
  transaction is not drawn to its end.  The conflict graph goes on drawing while
  paused; conflicts created during a search are not drawn after it, and fetched
  ancestors are never evicted.  After a reconnect while paused a short pause
  skips blocks.  The limit is a text: an empty one is 0 and evicts everything.
  `disturbed` in `DagsVisualizer` remembers the repeated and reordered
  announcements that the mirrors do not survive.
- *ConflictDAG.*  `DetermineVotes` documents a result `isInvalid`
  (`conflictdag.go:196`) that the code never sets.

## 7 What is not modelled

- *In modelled components:* invalid transactions and `pruneTransaction`, the
  rollback of a snapshot, `SetOrphaned`, accepted blocks and attestations of an
  epoch, the persisted root blocks, start-up from disk.  The ledger modules
  keep booking, acceptance and commitment apart: `Acceptance` starts when all is
  booked and commits nothing, `Notarization` abstracts inheritance to one
  conflict per transaction.
- *In the browser applications:* layout, colours of confirmed vertices, charts
  and the series they are made of; the rest of ManaStore (sorted lists and
  histograms of pledges) in both dashboards, FaucetStore and EpochStore (one
  request and one field each), the sending of a chat message, the text search
  in lists, weights of conflicts and the pickers of a search interval.
- *Components left to the plan:* Booker, voting and gadgets, ChainManager,
  Scheduler, TipManager, EventTicker.
- *Components left out:* those whose correctness is arithmetic on weights or
  wall clocks (sybil protection, quota, clock, TSC, issuer), I/O and third-party
  data structures (storage, network, sparse Merkle trees), and what only
  observes or drives the protocol (retainer, other plugins, clients, tools).

## 8 Plan

Done: `ConflictDAG`, `Ledger`, `CausalOrder`, `Notarization`, `Acceptance` and `BlockDAG`
with their proofs, and the browser applications: `Explorer`, `NodeFeeds` and
`Autopeering` with their proofs, `Visualizer`, `DagsVisualizer` with its three views.

Next modules, in this order:

1. `Voting`: the conflict tracker and the block gadget.  Votes ordered by power,
   arriving out of order and forked; acceptance by a two-thirds weight.  Its
   abstract specification is what `ConflictDAG!Accept` assumes of its caller.
2. `ChainManager`: commitments that arrive in every order, solidity and chains
   propagated under two sets of locks, forks and eviction.
3. `EventTicker`: retries against answers and evictions, the limit of attempts.
4. `Scheduler`: the bounded buffer against ready, accepted and orphaned blocks.
5. `TipManager`: future tips against the commitments that promote them.
6. `Booker`: block booking over `CausalOrder`, queued twice, with forks.

Next theorems:

- `Ledger`: `FutureConeInherits` after decisions, where no output of an accepted
  conflict is spent.
- `Visualizer` and `TangleView`: `checkLimit` and the walks as closures, for their mirrors.
- `Voting`, `EventTicker`: the types and the safety of acceptance, once modelled.
