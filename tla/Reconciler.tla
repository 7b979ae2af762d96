----------------------------- MODULE Reconciler -----------------------------
(***************************************************************************)
(* The reconciler of cmd/reconciler.go: polls of the app list trigger, by  *)
(* fingerprint and one at a time, a background reconcile that detects the  *)
(* stores, records them in the registry, elects the active one and warms   *)
(* its connection up, while users delete stores and the process shuts      *)
(* down.  Registry and pool calls are atomic here (their own modules are   *)
(* ConnRegistry and ConnPool); everything between two of them interleaves. *)
(*                                                                         *)
(* A world is an apps snapshot.  What reconcile computes from one (module  *)
(* ElectionOps) enters as the constant functions Fp, Detected, Elect and   *)
(* Provided.                                                               *)
(***************************************************************************)
EXTENDS Naturals, FiniteSets

CONSTANTS
  Worlds,     \* apps snapshots
  Stores,     \* component files; a store's registry entry, path and identity
  NoStore,    \* no active store elected
  NoWorld,    \* nothing derived yet
  Fp,         \* appsFingerprint of a snapshot
  Detected,   \* the stores Detect finds for a snapshot
  Elect,      \* the active store newStoreRegistry elects
  Provided,   \* the stores a running app provides
  Pollers,    \* requests that list apps
  Seed,       \* the synchronous reconcile at boot
  Deleters    \* DELETE requests for a store

ASSUME ReconcilerAssumption ==
  /\ Detected \in [Worlds -> SUBSET Stores]
  /\ Provided \in [Worlds -> SUBSET Stores]
  /\ Elect \in [Worlds -> Stores \cup {NoStore}]
  /\ \A w \in Worlds : Provided[w] \subseteq Detected[w]
  /\ NoStore \notin Stores
  /\ NoWorld \notin Worlds
  /\ Seed \notin Pollers

Procs == Pollers \cup {Seed}

VARIABLES
  world,        \* what discovery would list now
  closed,       \* rc.closed
  poolClosed,   \* the pool's Close ran
  resPaths,     \* the snapshot rc.resPaths was derived from
  seen,         \* the snapshot behind rc.fp and rc.electedReg
  reconciling,  \* rc.reconciling
  known,        \* stores with a registry entry
  dismissed,    \* ... whose entry is a tombstone
  conns,        \* stores with a pooled connection
  pc,           \* program points of polls and of the reconciles they spawn
  snap,         \* their apps argument, NoWorld outside a call
  todo,         \* the detected stores their current loop has left
  dpc, dstore,  \* program points of DeleteStore calls, and their store
  raced         \* history: tombstones set in the race of HiddenOnlyByRace

vars == <<world, closed, poolClosed, resPaths, seen, reconciling, known,
          dismissed, conns, pc, snap, todo, dpc, dstore, raced>>
registry == <<known, dismissed>>
users == <<dpc, dstore, raced>>
shutdown == <<closed, poolClosed>>

\* rc.fp and rc.electedReg.active() are set together.
fp == IF seen = NoWorld THEN NoWorld ELSE Fp[seen]
elected == IF seen = NoWorld THEN NoStore ELSE Elect[seen]

\* Points of a running reconcile; in Late ones the tombstone of the store about
\* to be published as active has been looked at for the last time.
Late == {"provided", "publish"}
Reconciling == {"paths", "upsert", "undismiss", "warm", "finish"} \cup Late

Init ==
  /\ world \in Worlds
  /\ closed = FALSE /\ poolClosed = FALSE
  /\ resPaths = NoWorld /\ seen = NoWorld
  /\ reconciling = FALSE
  /\ known \in SUBSET Stores
  /\ dismissed \in SUBSET known
  /\ conns = {}
  /\ pc = [p \in Procs |-> IF p = Seed THEN "paths" ELSE "idle"]
  /\ snap = [p \in Procs |-> IF p = Seed THEN world ELSE NoWorld]
  /\ todo = [p \in Procs |-> {}]
  /\ dpc = [d \in Deleters |-> "idle"]
  /\ dstore = [d \in Deleters |-> NoStore]
  /\ raced = {}

\* The HTTP server starts after the seed.
Booted == pc[Seed] = "idle"

Goto(p, where) == pc' = [pc EXCEPT ![p] = where]
Return(p) == Goto(p, "idle") /\ snap' = [snap EXCEPT ![p] = NoWorld]

-----------------------------------------------------------------------------
\* Apps start and stop.
AppsChange(w) ==
  /\ w # world
  /\ world' = w
  /\ UNCHANGED <<shutdown, resPaths, seen, reconciling, registry, conns, pc,
                 snap, todo, users>>

\* reconcilingApps.List: the inner list is taken ...
List(p) ==
  /\ Booted
  /\ pc[p] = "idle"
  /\ snap' = [snap EXCEPT ![p] = world]
  /\ Goto(p, "compare")
  /\ UNCHANGED <<world, shutdown, resPaths, seen, reconciling, registry, conns,
                 todo, users>>

\* ... its fingerprint is compared with the last reconciled one ...
Compare(p) ==
  /\ pc[p] = "compare"
  /\ \/ Fp[snap[p]] = fp /\ Return(p)
     \/ Fp[snap[p]] # fp /\ Goto(p, "cas") /\ UNCHANGED snap
  /\ UNCHANGED <<world, shutdown, resPaths, seen, reconciling, registry, conns,
                 todo, users>>

\* Mutant of CompareAndSwap: the flag is set without being tested.
SwapOnly(p) ==
  /\ pc[p] = "cas"
  /\ Goto(p, "paths")
  /\ reconciling' = TRUE
  /\ UNCHANGED <<world, shutdown, resPaths, seen, registry, conns, snap, todo,
                 users>>

\* ... and the compare-and-swap decides who reconciles; the loser returns.
CompareAndSwap(p) ==
  /\ pc[p] = "cas"
  /\ \/ reconciling /\ Return(p)
     \/ ~reconciling /\ Goto(p, "paths") /\ UNCHANGED snap
  /\ reconciling' = TRUE
  /\ UNCHANGED <<world, shutdown, resPaths, seen, registry, conns, todo, users>>

\* reconcile publishes the resource paths first, unless it was closed.
PublishPaths(p) ==
  /\ pc[p] = "paths"
  /\ \/ closed /\ Goto(p, "finish") /\ UNCHANGED <<resPaths, todo>>
     \/ /\ ~closed
        /\ resPaths' = snap[p]
        /\ todo' = [todo EXCEPT ![p] = Detected[snap[p]]]
        /\ Goto(p, "upsert")
  /\ UNCHANGED <<world, shutdown, seen, reconciling, registry, conns, snap,
                 users>>

\* Mutant of UpsertAuto: a store with unresolved secrets is skipped.
UpsertSome(p, s) ==
  /\ pc[p] = "upsert"
  /\ s \in todo[p]
  /\ known' \in {known, known \cup {s}}
  /\ todo' = [todo EXCEPT ![p] = @ \ {s}]
  /\ UNCHANGED <<world, shutdown, resPaths, seen, reconciling, dismissed, conns,
                 pc, snap, users>>

\* One detected store goes into the registry; a tombstone is kept.
UpsertAuto(p, s) ==
  /\ pc[p] = "upsert"
  /\ s \in todo[p]
  /\ known' = known \cup {s}
  /\ todo' = [todo EXCEPT ![p] = @ \ {s}]
  /\ UNCHANGED <<world, shutdown, resPaths, seen, reconciling, dismissed, conns,
                 pc, snap, users>>

\* All detected stores are in the registry: the election.
Elects(p) ==
  /\ pc[p] = "upsert"
  /\ todo[p] = {}
  /\ Goto(p, "undismiss")
  /\ UNCHANGED <<world, shutdown, resPaths, seen, reconciling, registry, conns,
                 snap, todo, users>>

\* registry.Undismiss of a store's path.
Undismiss(s) ==
  /\ dismissed' = dismissed \ {s}
  /\ raced' = raced \ {s}
  /\ UNCHANGED known

\* Mutant of UndismissActive: only app-provided stores are brought back.
UndismissNothing(p) ==
  /\ pc[p] = "undismiss"
  /\ todo' = [todo EXCEPT ![p] = Provided[snap[p]]]
  /\ Goto(p, "provided")
  /\ UNCHANGED <<world, shutdown, resPaths, seen, reconciling, registry, conns,
                 snap, users>>

\* undismissActive.
UndismissActive(p) ==
  /\ pc[p] = "undismiss"
  /\ Undismiss(Elect[snap[p]])
  /\ todo' = [todo EXCEPT ![p] = Provided[snap[p]]]
  /\ Goto(p, "provided")
  /\ UNCHANGED <<world, shutdown, resPaths, seen, reconciling, conns, snap, dpc,
                 dstore>>

\* undismissAppProvided, one store of a running app at a time.
UndismissAppProvided(p, s) ==
  /\ pc[p] = "provided"
  /\ s \in todo[p]
  /\ Undismiss(s)
  /\ todo' = [todo EXCEPT ![p] = @ \ {s}]
  /\ UNCHANGED <<world, shutdown, resPaths, seen, reconciling, conns, pc, snap,
                 dpc, dstore>>

\* Registry work is over; next the lock is taken to publish.
UndismissDone(p) ==
  /\ pc[p] = "provided"
  /\ todo[p] = {}
  /\ Goto(p, "publish")
  /\ UNCHANGED <<world, shutdown, resPaths, seen, reconciling, registry, conns,
                 snap, todo, users>>

\* Mutant of PublishElection: closed is not looked at again.
PublishLate(p) ==
  /\ pc[p] = "publish"
  /\ Goto(p, "warm") /\ seen' = snap[p]
  /\ UNCHANGED <<world, shutdown, resPaths, reconciling, registry, conns, snap,
                 todo, users>>

\* electedReg and fp are published in one critical section, unless closed.
PublishElection(p) ==
  /\ pc[p] = "publish"
  /\ \/ closed /\ Goto(p, "finish") /\ UNCHANGED seen
     \/ ~closed /\ Goto(p, "warm") /\ seen' = snap[p]
  /\ UNCHANGED <<world, shutdown, resPaths, reconciling, registry, conns, snap,
                 todo, users>>

\* Mutant of PreWarm: the nil check of the active store is missing.
PreWarmNil(p) ==
  /\ pc[p] = "warm"
  /\ \/ UNCHANGED conns
     \/ ~poolClosed /\ conns' = conns \cup {Elect[snap[p]]}
  /\ Goto(p, "finish")
  /\ UNCHANGED <<world, shutdown, resPaths, seen, reconciling, registry, snap,
                 todo, users>>

\* The elected store is opened through the pool; the open may fail, and does
\* once the pool is closed.
PreWarm(p) ==
  /\ pc[p] = "warm"
  /\ \/ UNCHANGED conns
     \/ /\ ~poolClosed
        /\ Elect[snap[p]] # NoStore
        /\ conns' = conns \cup {Elect[snap[p]]}
  /\ Goto(p, "finish")
  /\ UNCHANGED <<world, shutdown, resPaths, seen, reconciling, registry, snap,
                 todo, users>>

\* Mutant of Finish: the flag is not cleared.
FinishHoldingFlag(p) ==
  /\ pc[p] = "finish"
  /\ Return(p)
  /\ UNCHANGED <<world, shutdown, resPaths, seen, reconciling, registry, conns,
                 todo, users>>

\* The goroutine ends and clears the flag; the seed never set it.
Finish(p) ==
  /\ pc[p] = "finish"
  /\ reconciling' = (p = Seed /\ reconciling)
  /\ Return(p)
  /\ UNCHANGED <<world, shutdown, resPaths, seen, registry, conns, todo, users>>

-----------------------------------------------------------------------------
\* DeleteStore: resolve the entry and compare it with the active store ...
CheckActive(d, s) ==
  /\ Booted
  /\ dpc[d] = "idle"
  /\ s \in known
  /\ \/ elected = s /\ UNCHANGED <<dpc, dstore>>   \* ErrActiveStore
     \/ /\ elected # s
        /\ dpc' = [dpc EXCEPT ![d] = "delete"]
        /\ dstore' = [dstore EXCEPT ![d] = s]
  /\ UNCHANGED <<world, shutdown, resPaths, seen, reconciling, registry, conns,
                 pc, snap, todo, raced>>

\* ... tombstone it in the registry; when the save fails DeleteStore returns the
\* error, but the tombstone is set in memory ...
RegistryDelete(d) ==
  /\ dpc[d] = "delete"
  /\ dismissed' = dismissed \cup {dstore[d]}
  /\ raced' = IF \/ elected = dstore[d]
                 \/ \E p \in Procs : pc[p] \in Late
                                     /\ Elect[snap[p]] = dstore[d]
              THEN raced \cup {dstore[d]} ELSE raced
  /\ \/ /\ dpc' = [dpc EXCEPT ![d] = "evict"]
        /\ UNCHANGED dstore
     \/ /\ dpc' = [dpc EXCEPT ![d] = "idle"]
        /\ dstore' = [dstore EXCEPT ![d] = NoStore]
  /\ UNCHANGED <<world, shutdown, resPaths, seen, reconciling, known, conns, pc,
                 snap, todo>>

\* ... and close its pooled connection.
Evict(d) ==
  /\ dpc[d] = "evict"
  /\ conns' = conns \ {dstore[d]}
  /\ dpc' = [dpc EXCEPT ![d] = "idle"]
  /\ dstore' = [dstore EXCEPT ![d] = NoStore]
  /\ UNCHANGED <<world, shutdown, resPaths, seen, reconciling, registry, pc,
                 snap, todo, raced>>

\* StateFor and baseServiceFor open the store a request names, or the active.
OpenFor(s) ==
  /\ Booted
  /\ s \in known \cup ({elected} \ {NoStore})
  /\ ~poolClosed
  /\ conns' = conns \cup {s}
  /\ UNCHANGED <<world, shutdown, resPaths, seen, reconciling, registry, pc,
                 snap, todo, users>>

\* Close: the flag first, then the pool.
Close ==
  /\ Booted
  /\ ~closed
  /\ closed' = TRUE
  /\ UNCHANGED <<world, poolClosed, resPaths, seen, reconciling, registry,
                 conns, pc, snap, todo, users>>

ClosePool ==
  /\ closed /\ ~poolClosed
  /\ poolClosed' = TRUE
  /\ conns' = {}
  /\ UNCHANGED <<world, closed, resPaths, seen, reconciling, registry, pc, snap,
                 todo, users>>

-----------------------------------------------------------------------------
Reconcile(p) ==
  \/ PublishPaths(p)
  \/ \E s \in Stores : UpsertAuto(p, s)
  \/ Elects(p)
  \/ UndismissActive(p)
  \/ \E s \in Stores : UndismissAppProvided(p, s)
  \/ UndismissDone(p)
  \/ PublishElection(p)
  \/ PreWarm(p)
  \/ Finish(p)

PollStep(p) == List(p) \/ Compare(p) \/ CompareAndSwap(p)

DeleteStep(d) ==
  \/ \E s \in Stores : CheckActive(d, s)
  \/ RegistryDelete(d)
  \/ Evict(d)

Next ==
  \/ \E w \in Worlds : AppsChange(w)
  \/ \E p \in Pollers : PollStep(p)
  \/ \E p \in Procs : Reconcile(p)
  \/ \E d \in Deleters : DeleteStep(d)
  \/ \E s \in Stores : OpenFor(s)
  \/ Close \/ ClosePool

Spec == Init /\ [][Next]_vars

\* Goroutines run, dials time out, and the frontend keeps polling the app list.
FairSpec ==
  /\ Spec
  /\ \A p \in Procs : WF_vars(Reconcile(p))
  /\ \A p \in Pollers : WF_vars(PollStep(p))

-----------------------------------------------------------------------------
(* Properties *)

\* Every field and local holds a value of its type; only stores with an entry
\* are tombstoned.
TypeOK ==
  /\ world \in Worlds
  /\ closed \in BOOLEAN /\ poolClosed \in BOOLEAN
  /\ resPaths \in Worlds \cup {NoWorld} /\ seen \in Worlds \cup {NoWorld}
  /\ reconciling \in BOOLEAN
  /\ known \subseteq Stores /\ dismissed \subseteq known
  /\ conns \subseteq Stores
  /\ pc \in [Procs -> {"idle", "compare", "cas"} \cup Reconciling]
  /\ snap \in [Procs -> Worlds \cup {NoWorld}]
  /\ todo \in [Procs -> SUBSET Stores]
  /\ dpc \in [Deleters -> {"idle", "delete", "evict"}]
  /\ dstore \in [Deleters -> Stores \cup {NoStore}]
  /\ raced \subseteq Stores

\* "callers MUST ensure only one reconcile runs at a time": the fingerprint
\* check and the compare-and-swap ensure it for every overlap of polls, and the
\* seed is over before the first poll.
OneReconcile ==
  \A p, q \in Procs : pc[p] \in Reconciling /\ pc[q] \in Reconciling => p = q

\* Every store a published election is about has a registry entry, so that the
\* panel can show it and a request can address it.
ElectedRegistered ==
  seen # NoWorld => Detected[seen] \subseteq known

\* The elected active store is hidden from the panel in one case only: a
\* DeleteStore whose check came before the election tombstoned it after the
\* reconcile had cleared its tombstone.  A store dismissed in an earlier session
\* always reappears when it is elected.
HiddenOnlyByRace == elected \in dismissed => elected \in raced

\* Nothing derived changes after Close, whatever was in flight: a reconcile that
\* outlives Close publishes nothing and caches no connection.
ClosedIsFinal ==
  [][/\ closed => UNCHANGED <<resPaths, seen>>
     /\ poolClosed => conns' \subseteq conns]_vars

\* When the apps stop changing, the fingerprint and the active store become and
\* stay those of the apps, whichever old snapshots were still being reconciled
\* and whichever polls gave up at the compare-and-swap.
Converges ==
  \A w \in Worlds :
    <>[](world = w /\ ~closed) => <>[](fp = Fp[w] /\ elected = Elect[w])

\* "Deleting the elected active store is refused outright with
\* server.ErrActiveStore" (ARCHITECTURE.md): the elected store is never hidden.
ActiveNeverHidden == elected \notin dismissed
=============================================================================
