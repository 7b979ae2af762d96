# TLA+ models of the Diagrid Dev Dashboard

The dashboard is a local Go server with a React front end. It discovers Dapr
applications on a developer's machine, finds the state stores they use, elects
one as the active workflow store, keeps connections to the stores the user
looks at, and starts, stops and hides applications. The modules here model the
parts in which goroutines, requests, the process table and the disk meet, the
pages of the front end on which user actions meet late answers, and the game
hidden in it, which records and replays its own history. TLC checks them; TLAPS
proves the safety of the server's core, and of most of the pages, for every
instance.

## 1. Inventory

### Parts, state and operations

| part | code | state | operations |
|---|---|---|---|
| connection pool | `cmd/connpool.go` | map identity → slot, `closed`; per slot a `done` channel, entry, error | `openOrGet`, `evict`, `Close` |
| connection registry | `cmd/registry.go` | entries in memory, `connections.yaml`, tombstones | `LoadRegistry`, `UpsertAuto`, `Add`, `Update`, `Delete`, `Undismiss`, `save` |
| election, fingerprint | `cmd/workflow.go`, `cmd/derive.go`, `pkg/statestore/detect.go` | none (pure) | `derivePaths`, `Detect`, `newStoreRegistry`, `appsFingerprint` |
| reconciler | `cmd/reconciler.go`, `cmd/serve.go` | `fp`, `electedReg`, paths, `closed`, `reconciling` flag | polls through `reconcilingApps.List`, `reconcile`, `DeleteStore`, `UpdateStore`, `AddStore`, `StateFor`, `Close` |
| lifecycle | `pkg/lifecycle` | registry of stopped instances, suppressed keys | `Do`, `Dismiss`, `ClearInactive`, overlay `List`/`Get` |
| discovery | `pkg/discovery` | compose scan cache (2 s) | scanners, `enrich`, `List`, `Get` |
| workflows | `pkg/workflow` | summary cache | list, statistics, history, purge, forced deletion; composite of several stores; sidecar client |
| state records | `pkg/state`, `pkg/statestore` | none of its own | list, get, set, delete, classification of keys |
| control plane | `pkg/controlplane` | none (containers) | status, container actions |
| logs | `pkg/logs`, `pkg/server/logs.go` | file offset, carried partial line | tail, SSE stream |
| news, update check | `pkg/news`, `pkg/updatecheck` | last good answer, one refresh in flight | refresh, wait, serve stale |
| self update | `pkg/selfupdate`, `cmd/update.go` | the binary on disk | resolve, download, verify, replace |
| secrets, resources, metadata, binary store | `pkg/secrets`, `pkg/resources`, `pkg/metadata`, `pkg/binarystore` | none (files read) | look-ups |
| web: workflow list, state page | `pages/Workflows.tsx`, `pages/State.tsx` and their hooks and dialogs | store, filters, page token, selection, dialogs; the query cache | filter, page, select, remove, write; polls, debounced search, URL and storage |
| web: workflow detail | `pages/WorkflowDetail.tsx`, `lib/pairing.ts`, `lib/eventOrder.ts` | selection, order, hash already jumped to; the polled history | select, jump, open a child, remove; pure ordering and pairing |
| web: log viewer | `pages/Logs.tsx`, `useLogStream.ts`, `useFollowScroll.ts` | target, source, filters; per stream its lines, sequence number, status | switch, filter, follow; open, line, break, reconnect, end |
| web: applications | `pages/Applications.tsx`, `pages/AppDetail.tsx`, `useApps.ts`, `useAppAction.ts` | dialog, requests listened to, two queries | open, act, forget, clear |
| web: store connections | `StateStoreConnectionsPanel.tsx`, `StateStoreConnectionDialog.tsx` | list, form, pending deletion, catalogue | add, disconnect |
| web: builders | `pages/component-builder`, `pages/resiliency-builder` | the reducers' state, the open dialog | every reducer action, as the steps dispatch it |
| web: replay game | `pages/replay/engine`, `pages/replay/runtime` | world, history, tape, saved run, phase, rewind buffer | tick, crash, replay, retry, suspend, resume, watch |

### How they interact

- Every `GET /apps` (the front end polls) goes through
  `reconcilingApps.List` → the overlay → discovery. After the list the poll
  compares the fingerprint of the apps and may start a background reconcile.
- A reconcile calls the registry (`UpsertAuto`, `Undismiss`), elects a store
  and calls the pool (`openOrGet`) to warm its connection up. Requests call the
  pool for whichever store they name. `DeleteStore` and `UpdateStore` call the
  registry, then `pool.evict`. `Close` stops publications, then closes the pool.
- The overlay corrects discovery's list with the lifecycle registry; the
  lifecycle manager reads the same overlay before it acts.
- The front end talks to the server through TanStack Query: a page's queries are
  cached by key and polled; a mutation that succeeds invalidates queries and is
  settled when they have been fetched again. Requests, answers, polls, timers
  and user events interleave freely; one page is mounted at a time.
- The game calls the engine once a tick with ports for randomness and time. In
  live play the ports record what they return; in a replay they answer from the
  record, and the replayer compares the events.
- Shared state is guarded by one mutex per part, which is released between
  calls: the hard behaviours are the windows between a check under one lock and
  the use of its result.

### What is hard

Concurrent requests around one connection (single flight, eviction and shutdown
during an open); a save that fails or a crash between write and rename; stale
snapshots published by a slow reconcile; a check-then-act deletion; processes
that exit, restart or ignore signals while a request holds pids from an older
scan; suppression lifted by a list that started too early; caches older than
what they stand for. In the browser: a selection or a dialog that outlives what
it was made for, an answer that arrives after the form changed, a stream that
reconnects and is sent its backlog again, a reducer whose earlier choices are
revised, a replay that draws one value too many. `PROJECT.json` lists the hazards with their lines and
the properties that would catch each.

### What makes each part correct

- pool: a connection is closed once, a cached one is usable, one open per
  identity, everybody waiting returns, `Close` leaves nothing open;
- registry: ids are unique, what was acknowledged survives crashes, a dismissed
  store does not come back by itself;
- election: the documented preference, for every combination of apps; the
  fingerprint changes whenever the election would;
- reconciler: one reconcile at a time, elections over registered stores only,
  the active store is visible, the election converges, nothing after `Close`;
- lifecycle: a running app is shown running, a stopped one is remembered, a stop
  that reports success stopped, dismissal holds until the instance runs again;
- list pages: a removal names only what the user chose, in the store it is sent
  to; after a change the page comes to show what the server has;
- workflow detail: starts and ends are paired as brackets; a dismissed selection
  stays dismissed;
- log viewer: only lines of the chosen target, each stream in order; following
  stays at the end, also at the line cap;
- builders: the emitted document holds what was entered for its type, and no
  reference without a policy;
- replay game: the saved history rebuilds the state shown, a completed activity
  is not lost, a recorded run plays back as it happened.

## 2. Modules

```
ConnPool ─────────── ConnPoolProofs
ConnRegistry ─────── ConnRegistryProofs     MCConnRegistry
ElectionOps ── StoreElection ── ElectionProofs   MCStoreElection
     └───────(tables)────────────────────── MCReconciler
Reconciler ───────── ReconcilerProofs            │ extends Reconciler
Lifecycle ────────── LifecycleProofs

ReplayEngine ── ReplayGame ── ReplayProofs   MCReplay

ListPage ─┬─ WorkflowsPage ──────┐
          └─ StatePage ──────────┤────────── MCStatePage
WorkflowDetailPage, LogsPage ────┤
AppsPage, ConnectionsPanel ──────┼─ Dashboard ── MCDashboard
ComponentBuilder ────────────────┤
ResiliencyBuilder ───────────────┘
                                      └─ DashboardProofs, PageProofs
```

**ConnPool.** Each caller runs one of `openOrGet`, `evict`, `Close`; a program
point stands before every lock, channel receive, connect and store close. A
slot is a name handed out at a miss; `slots` is the map, `done` the closed
channels, `store` the slots with a store, `closes` how often a store was closed.
Opens succeed or fail. `EvictIds` are the identities some caller evicts.
`stray` is a history variable: slots whose map entry another opener deleted.

**ConnRegistry.** `entries` is memory, `disk` the file (possibly malformed or
without ids, as earlier versions wrote it), `pc` where a mutator is between its
change and the rename. Mutators hold the mutex until `save` returns, so one at a
time runs; `save` writes a temporary file and renames it, and may fail or the
process may stop before each. `kept` and `buried` are history: manual entries
and dismissals that were acknowledged.

**ElectionOps / StoreElection.** Pure operators over a snapshot (instance →
absent, stopped, running or unreachable): the paths, the stores found below
them, the six passes of `newStoreRegistry`, and `appsFingerprint` as the groups
of app ids and paths it hashes (a hash is taken to be injective). The code's
lists matter by their order only, so a list is a set of places and an order on
them: a path is scanned at <<instance, path>>, a component is found at the first
such place that reaches its file. `StoreElection` walks through all snapshots,
so that two of them can be compared.

**Reconciler.** Polls, the reconciles they spawn, deletions, requests that open
a store, shutdown. Registry and pool calls are atomic here: their own modules
show what they do inside. What a reconcile computes from a snapshot is given by
constant functions, so that the proofs hold for any election; `MCReconciler`
gives them the values ElectionOps computes and an ASSUME compares the two.

**Lifecycle.** One instance key, of any of four kinds (`dapr run`, Aspire in the
process table, compose with and without an app container), since nothing in the
code relates two keys. A request is a record with a program point; it moves
through scan, `enrich`, `applyEntry` (copy of the entry, then one `DropTarget`
per stale target), ghost synthesis, suppression, and for actions the snapshots,
`RecordStop`, SIGTERM, waiting and SIGKILL. Processes are launched and exit at
any time. A pid is the number of the launch that made it.

**ReplayEngine.** One tick of the game (`step.ts`) as a function of the state,
the inputs and what its ports return, and the replayer (`replay.ts`). The player
is a cell, an entity a position and a kind; counters of ticks (coyote time, jump
buffer, grace, boost, boss, fan-out) are kept as they are. The generator is a
small ring with a mixing step.

**ReplayGame.** The `Game` object of `runtime/game.ts` with the tape, chaos
scheduler, rewind buffer, saved run, daily best and the phases between them.
Commands and frames are actions; a frame of live play is one tick, with the
values of the ports chosen by the environment. Page events (hide, reload, a
second visit on the next day) come between any two frames. `ended` is history:
how the last live run ended, against which a watched tape is compared.

**ListPage, WorkflowsPage, StatePage.** `ListPage` holds what the two share:
store lists and `dedupeStores`, `resolveStore`, list answers under their keys,
the server's cursor. The pages add their own state, effects and requests. An
effect that a state change triggers is part of the action that makes the change;
what waits for a timer or an answer is an action of its own. `wg` and `sg` are
history: what the user checked and in which store, and whether the list may be
behind because of somebody else.

**WorkflowDetailPage.** The history grows on the server; the page polls it,
orders and pairs it, jumps to the URL's anchor once, and keeps its state when a
child is opened, as the router does.

**LogsPage.** Three streams with their own life cycle, delivered in any order;
the merged list, the caps, the filters and following.

**AppsPage.** The list and the page of one instance with the two queries both
use. A request is in flight, has been carried out, or awaits the fetches its
success started; `hears` says whose callbacks still run, since callbacks of a
page that was unmounted do not.

**ConnectionsPanel.** The list that nothing polls, the form before and after the
catalogue arrives, several requests at once.

**ComponentBuilder, ResiliencyBuilder.** The reducers, one operator per action,
dispatched only as the step or dialog on screen allows; the documents they
assemble.

**Dashboard.** The pages under the router, by INSTANCE: a behaviour is a visit
to one of them. Its properties are the pages' own.

### Abstractions to know about

- Files on disk do not change under a running election, and are readable; the
  poll's own `List` succeeds (when it fails the code returns before it compares).
- Component identity is one value per file; metadata values are model values.
- In `Lifecycle`, pids are not reused; SIGKILL takes effect at once; the three
  snapshots of a stop are read together with the `RecordStop` that stores them;
  apps have a port. Container-mode Aspire and testcontainers instances are left
  out: no lifecycle action applies to them. `standaloneStart` is unreachable
  behind the gate in `doStandalone`.
- Log lines, messages and HTTP statuses are left out.
- Web: TanStack Query, the browser and the API are external, modelled from how
  the pages use them; eviction from the cache and the number of retries are left
  out. A server answer is computed when it lands. A reload ends the page's
  requests, which may have taken effect. Nothing is carried from one page to
  another except what is in the URL and in storage; timestamps parse; the status
  of an app is known and lifecycle actions are available. A callback given to
  `mutate` runs before the render of the fetch that settled it. After a change
  of layout the log view counts as scrolled away unless the code moves it.
- A value in a builder or a connection form is the type it was entered for;
  policy contents are given or blank; suggested names and the
  `actorStateStore` checkbox are left out.
- Replay: racks of two heights, and falling ones, are one kind; the three draws
  of a spawn are one; the speed ramp of the last level is left out; one replayed
  tick per frame; the frames of the crash, rewind and montage screens are one
  step; storage does not fail; the encoding of a shared run is not modelled.

## 3. Runs

| run | checks | size |
|---|---|---|
| `conn_pool` | seven invariants, `CallsReturn`, `CloseDrains` | 3 callers, 2 identities, 2 slots; 53k states |
| `conn_pool_leak` | `NoLeak` is violated | 1 identity |
| `conn_registry` | `TypeOK`, `UniqueIds`, `Durable`, `DismissalDurable` | 2 names, 1 path, 2 metadata values, first files of every kind |
| `election` | `BestElected`, `FingerprintCovers` | all snapshots of 3 apps, 4 stores, nested directories |
| `election_copies` | `FingerprintCovers` is violated | 2 instances of one app id |
| `reconciler` | four invariants, `ClosedIsFinal` | 3 snapshots, 2 polls (symmetric), the boot seed, 1 deletion, 2 stores; 712k states |
| `reconciler_live` | `Converges` | as above without the deletion; 105k states |
| `reconciler_race` | `ActiveNeverHidden` is violated | 1 poll, 1 deletion |
| `replay` | `PlaybackFaithful`, `RecordsRebuild`, `ActivitiesSaved`, `SlideNeverSticks`, `ReplayRebuilds` | 3 levels, 12 live ticks, 2 runs, 1 watched tape, 1 page or key event; 790k states |
| `dashboard` | `RemovalWasChosen`, `ListCatchesUp`, `PairsMatch`, `DismissedStaysDismissed`, `StreamOrderKept`, `FollowPinned`, `ConfigBelongs`, `ReferencesResolve` | eight pages, 3 rows, 3 stores, 2 to 8 user actions by page; 2.0M states |
| `state_overwrite` | `OverwriteIsForThatKey` is violated | 1 store, 2 records, 1 write |
| `lifecycle` | three invariants, two action properties, `SuppressionLifts` | 1 polling and 1 user request, 2 launches, 2 user requests in sequence; 1.3M states |

Why the bounds are enough for the cases in question. The pool's races involve at
most an opener, a second caller of the same identity and an evictor or closer;
two slots let an identity be opened again while the first open is in flight; the
second identity is one nobody evicts. The registry's need two entries that can
collide by name and one store that is both detected and dismissed. The
reconciler's need one reconcile in flight, one poll that loses, a changing world
and a deletion; its three snapshots have no store, a store elected without being
provided, and two stores. Lifecycle's need two launches, so that an entry can be
older than what runs, and two user requests, so that a stop follows a stop or a
dismissal; the user's requests interleave with a list at every point.

The replay's twelve ticks reach the first crash, a durable level with its
pickups, crates and retries, the end of that level, a fan-out and a pit in the
next one, and a second run or a watched tape after the first. A list page needs
two copies of a store, a page boundary inside three rows, and three user actions
(check, change something, confirm) around one outside change. Four events with
a repeated id are the smallest history in which a wrong pairing differs from the
right one. Two lines of cap against three lines, one without a time, reach the
cap and the merge. Eight entries choose a component and a profile, fill them in,
go back and choose another; five edits make a policy, a target, a rename and a
removal. Two requests at a time are what two dialogs can have in flight.

### Fairness

`ConnPool`: each call that has begun goes on (the Go scheduler runs a goroutine
that is not blocked; connects end because `connectTimeout` bounds them); no call
has to begin. `Reconciler`: reconciles and polls in progress go on, and polls
are repeated, as the front end refetches the list; the apps need not change.
`Lifecycle`: the polling list is repeated and runs to its end (probes have
timeouts), and the compose cache expires. The web and replay modules state no
fairness: polling may be paused for good and a user may leave, and their
properties are about every reachable state. Deadlock is not checked there, since
the bounds on user actions end a visit. Users, processes and signals get no
fairness.

### Findings

- `conn_pool_leak`: the `delete(p.slots, id)` of an opener that was evicted
  meanwhile (`connpool.go:97`, likewise `:82` for a failing one) removes a newer
  slot of the same identity. Its connection stays open and is closed by neither
  `evict` nor `Close`. `Accounted` and `OneOwnedConnection` say exactly how far
  this goes: only identities that are evicted, only through that delete.
- `election_copies`: the fingerprint hashes multisets of app ids. When two
  copies of one app id swap running and stopped it does not change, so the store
  of the stopped copy stays elected. With distinct app ids `FingerprintCovers`
  holds for every snapshot.
- `reconciler_race`: `DeleteStore` checks for the active store and tombstones
  later; an election in between ends with the active store dismissed.
  `HiddenOnlyByRace` proves this is the only way.
- `state_overwrite`: the fields of the form for a new record stay enabled while
  the write is pending, and `editKeyPart` resets only a mutation that has failed
  already. A key edited meanwhile meets the old key's conflict: the form offers
  Overwrite for a record whose conflict was never shown.
- Noted, not checked: when an orphaned sidecar is stopped from its page and the
  page's refetch (not found) ends before the list's, the callback that returns
  to the list went with the page (`AppDetail.tsx:70`). A late answer in the
  connections panel closes whichever dialog is open then.
- Kept as exceptions of properties, not as findings: a list that scanned or read
  the registry before a stop can drop the stop's snapshot (`StopRemembered`), and
  a list that scanned before an instance stopped can lift a later dismissal
  (`DismissSticks`).

## 4. Proofs

Each proof module has one inductive invariant (`IInv`, or one per page), one
lemma per action that it is preserved, and short theorems that derive the checked
properties from it, for every value of the constants that satisfies the modules'
ASSUMEs. The numbers that bound a run (requests, actions, events, launches) are
constants like any other: the theorems hold whatever they are. `PROJECT.json`
lists the theorems with the properties they state.

- **ConnPoolProofs.** `CloseOnce` is not inductive: whether a second close can
  come depends on who still holds the slot. `IInv` therefore says, for every
  slot, who has the right to close its store: the map, the set `Close` works
  through, one opener or one evictor, never two (`RightInv`), that unused slots
  are untouched (`FreshInv`), that an opener's program point agrees with the
  slot's channel (`OpenerInv`, `DoneInv`), that a slot in the map is there under
  its own identity (`MapInv`), and what holds of identities nobody evicts
  (`OwnedInv`, `QuietInv`). The seven safety properties follow.
- **ConnRegistryProofs.** What matters on disk is what `LoadRegistry` would make
  of it, so `IInv` relates `entries`, the file and the change being saved:
  acknowledged entries are in the loaded file always, in memory while the
  process runs, and what a change in progress will promise is already true of
  memory (`DiskInv`, `GrantInv`). Ids are unique because they are a function of
  source and key and no two entries of a source share a key (`WellKeyed`), which
  renames, upserts and the ids filled in on load preserve.
- **ReconcilerProofs.** `FlightInv` ties the `reconciling` flag to the one
  process between the compare-and-swap and the deferred reset; `RecordInv` says
  which detected stores a reconcile has recorded at each of its points;
  `HiddenInv` says which tombstones can still concern the store about to be
  elected. `ClosedIsFinal` is an action property proved from the same invariant.

- **ElectionProofs.** Between polls `fp` and `active` belong to the snapshot the
  last reconcile ran on; the rest is about one snapshot. `Detect` finds exactly
  the candidates, because a set of places has a least one (`LeastNat`, from the
  well-foundedness of `<`); the passes are tried in turn (`PassesInTurn`), and
  read as a rank they elect a maximum (`PassesFollowRank`): `BestElected`, for
  any apps, paths and files. `FingerprintCovers` is proved where no two instances
  share an app id: counts of ids then tell which instances are listed and which
  run, and a count that is zero tells that nobody loads a store. The hypothesis
  is the one `election_copies` shows to be needed.
- **LifecycleProofs.** `StopRemembered` depends on what every request in flight
  saw and is about to do, so `IInv` is a part about the world (`WorldInv`: the
  pids a kind of instance can have, that a recorded process that lives is owed,
  that after a dismissal nothing runs) and a part about each request (`ReqInv`:
  what is left to do in its phase, what its view can hold, that no pid it saw is
  newer than a process that is owed or lives, that what a stop is done with is
  gone). Requests that a step does not touch keep their part because pids only
  age (`Ages`, `GoodStays`). All three invariants and both action properties of
  the run follow.
- **DashboardProofs.** *Lists*: for each list page, what is checked was checked in
  the store on screen unless the page fell back to another one under the
  selection, and the list is right, or being fetched, or known to be behind, or a
  change that the server made has yet to be told. The last disjunct is what makes
  it inductive: between the change and the answer that invalidates the list it is
  wrong without anybody knowing. Nothing is assumed of what the server's scan
  computes. *Resiliency builder*: every reference of every target names a
  policy, and a scope comes with its breaker, in the state and not only in the
  document; renaming and removing a policy remap every reference (`RemapTarget`).
  *Component builder*: what was entered belongs to the chosen component and
  profile, and the last step is reached only with all required fields.
  *Connections dialog*: what was typed is for the type on screen, and a request
  in flight has the fields its type requires.
- **PageProofs.** *Workflow detail*: the URL's anchor is none or the one last
  followed, which is why a poll selects nothing. `PairsMatch` is a statement about
  the stack pass of `buildPairIndex`: `PassOK` says what the pass holds after n
  events (each stack holds the starts of its id that nothing closes yet, in order;
  every other event has the partner it has as a bracket), and the pass keeps it
  event by event for every history. *Log viewer*: every line received raises the
  count the follow effect watches, whatever happens to the number of rows, so a
  following view is taken to the bottom; rows that only go cannot move it away.
  `StreamOrderKept` needs what a stream holds (`ReadInv`: consecutive lines of one
  file, the newest that were sent while no connection broke) and that the merge,
  which sorts by inherited times, keeps lines of one stream in their order. That
  needs the hypothesis in `LogsAssumption` that the clock of one log does not go
  back: a log whose clock does is reordered by the code's sort.
- **ReplayProofs.** `ActivitiesSaved` depends on every method of the game, since
  each of them may write the save or the history, and on the engine, since a tick
  decides what happens next. The engine's part (`StepShape`): whatever the inputs
  and ports, a tick returns a state of the right shape, tells only engine events,
  leaves the boss phase as it was, moves the clock by one, and leaves the hat
  sliding only if the inputs do. The game's invariant `GameOK` says what history,
  inputs, rewind buffer and replayer are made of, and that the save of a durable
  live run covers the history except while a boss phase is played (`RunOK`): the
  exception has to end with the playing phase, which holds because every way out
  of it saves or begins a segment. Watched tapes need no more than the shape of the store,
  which is why playback cannot harm a saved run. The same invariant gives
  `RetryFindsAState`: the "rewind buffer is empty" error of `rewind.ts` is never
  thrown in a live run. Its part is that a full buffer never becomes empty when a
  retry drops what it undid, because the state gone back to is in the buffer.

Folds (the keys of a tick, the lanes, the entities at a hat, the events of a
history) are recursive functions over 0..n. Each is unfolded by a lemma of its
own, and what holds of every step is carried to the end by taking the least n at
which it fails (`LeastNat`, from the well-foundedness of `<`) in place of an
induction rule. Filters are taken apart by the rank of a place (`RankTaken`,
`PlacesSeq`, `PlacesFrom`).

The assumptions are on the catalogues and tables the models are given: component
files, instances and paths are sequences; the catalogue has the fields of every
component; the lines of a log that carry a time are in its order; the rewind
buffer holds at least one state; no two of the values that stand for "nothing" and for something
coincide; the execution the detail page opens on exists.

Proving corrected the models in places TLC's instances did not reach: the state
page's open record is fetched again when the store changes under it, since the
store is part of its query's key (`useStateRecords.ts:54`); the
applications page's part of `ListCatchesUp` grouped its conditions so that it said
less than meant.

Model-checked only: liveness (`CallsReturn`, `CloseDrains`, `Converges`,
`SuppressionLifts`), because it needs fairness; and what compares two executions
of the replay game's engine: `RecordsRebuild`, `PlaybackFaithful` and
`ReplayRebuilds` say that a history or a tape, run again, leads to the same state,
which is an induction over all ticks of both runs. `SlideNeverSticks` looks
simpler and is not: that a replay which ends undiverged ends in a running state
is part of the same determinism. Its engine half, a hat slides after a tick only
if its inputs leave it sliding, is in `StepShape`.

## 5. Plan

1. *done* ConnPool, ConnRegistry, ElectionOps, Reconciler, their proofs;
   Lifecycle with its run.
2. *done* The replay game; the web pages with their queries, streams, dialogs
   and reducers, composed in Dashboard.
3. *done* Proofs: the election, the lifecycle manager, the builders, the list
   pages, the detail page's selection and pairs, the log viewer's following and
   order, the replay game's saves. Next: determinism of a replay (two replayers
   over one history agree tick by tick), from which `RecordsRebuild` and
   `SlideNeverSticks` would follow; an abstract pool of one connection per
   identity that ConnPool implements, step by step.
4. Reconciler: `AddStore`, `UpdateStore` (eviction against a request that
   resolved old metadata).
5. Workflow service: paged listing over a composite of stores, the summary cache
   against changing histories, forced deletion with failures between keys;
   `state.Set`, which reads a record before it writes it.

### Not modelled, and why

- Workflow service, removal, state records, secrets, resources: on the server
  they translate one request into calls of a store or a sidecar; the front end's
  use of their answers is in the page modules. The summary cache can be older
  than a history (`summary_cache.go:60`), a forced deletion can stop half way
  (`remove.go:130`), and `Set` can overwrite another writer
  (`state/service.go:115`): these are the next to model.
- Discovery's scanners, the container runtime, the control plane: output of
  other programs, parsed. What discovery returns is an input of Lifecycle,
  Reconciler and AppsPage.
- Log tailing, news, update check, self update: files and downloads; the
  browser's end of a log stream is in LogsPage.
- Pages that only show an answer (resources, actors, subscriptions, control
  plane), the sidebar, telemetry, themes, rendering and the replay's drawing.
- Parsing of YAML, command lines and protobuf; database drivers; HTTP routing
  and static files; the metadata catalogue; demo applications, scripts, tests.
