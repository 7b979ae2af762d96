-------------------------- MODULE ReconcilerProofs --------------------------
(***************************************************************************)
(* Proofs for the reconciler: one reconcile at a time, elections only over *)
(* registered stores, the single way an elected store can be hidden, and   *)
(* silence after Close - for any number of polls, deletes, stores and      *)
(* snapshots, and whatever detection and election compute.                 *)
(***************************************************************************)
EXTENDS Reconciler, TLAPS

\* The flag is up while a poll's reconcile runs, only one runs, and polls wait
\* for the seed; every running call has a snapshot.
FlightInv ==
  /\ OneReconcile
  /\ \A p \in Pollers : pc[p] \in Reconciling => reconciling
  /\ pc[Seed] # "idle" => \A p \in Pollers : pc[p] = "idle"
  /\ pc[Seed] \notin {"compare", "cas"}
  /\ \A p \in Procs : pc[p] # "idle" => snap[p] \in Worlds

\* What a reconcile has recorded of its snapshot.
RecordInv ==
  /\ ElectedRegistered
  /\ \A p \in Procs :
       /\ pc[p] = "upsert" => Detected[snap[p]] \ todo[p] \subseteq known
       /\ pc[p] \in {"undismiss", "warm"} \cup Late =>
            Detected[snap[p]] \subseteq known
  /\ \A d \in Deleters : dpc[d] # "idle" => dstore[d] \in known

\* A store that is elected, or about to be published as elected, is hidden only
\* if the race hid it.
HiddenInv ==
  /\ HiddenOnlyByRace
  /\ \A p \in Procs : pc[p] \in Late /\ Elect[snap[p]] \in dismissed
       => Elect[snap[p]] \in raced

IInv == TypeOK /\ FlightInv /\ RecordInv /\ HiddenInv

\* The state before the seed satisfies the invariant.
LEMMA InitIInv == Init => IInv
<1> SUFFICES ASSUME Init PROVE IInv
  OBVIOUS
<1> USE ReconcilerAssumption DEF Init, Procs
<1>1. TypeOK
  BY DEF TypeOK, Reconciling, Late
<1>2. FlightInv
  BY DEF FlightInv, OneReconcile, Reconciling, Late
<1>3. RecordInv
  BY DEF RecordInv, ElectedRegistered, Late
<1>4. HiddenInv
  BY <1>1 DEF HiddenInv, HiddenOnlyByRace, elected, Late, TypeOK
<1> QED
  BY <1>1, <1>2, <1>3, <1>4 DEF IInv

\* IInv is preserved by a change of the apps.
LEMMA AppsChangeKeeps ==
  ASSUME IInv, NEW w \in Worlds, AppsChange(w)
  PROVE  IInv'
<1> USE ReconcilerAssumption DEF IInv, TypeOK, AppsChange, Goto, Procs,
        elected, registry, users, shutdown
<1>1. TypeOK'
  BY DEF FlightInv, RecordInv, Reconciling, Late
<1>2. FlightInv'
  BY DEF FlightInv, OneReconcile, Reconciling, Late
<1>3. RecordInv'
  BY DEF RecordInv, FlightInv, ElectedRegistered, Reconciling, Late
<1>4. HiddenInv'
  BY DEF HiddenInv, FlightInv, RecordInv, HiddenOnlyByRace, Reconciling, Late
<1> QED
  BY <1>1, <1>2, <1>3, <1>4

\* IInv is preserved by a poll taking its snapshot.
LEMMA ListKeeps ==
  ASSUME IInv, NEW p \in Pollers, List(p)
  PROVE  IInv'
<1> USE ReconcilerAssumption DEF IInv, TypeOK, List, Goto, Procs, elected,
        registry, users, shutdown, Booted
<1>1. TypeOK'
  BY DEF FlightInv, RecordInv, Reconciling, Late
<1>2. FlightInv'
  BY DEF FlightInv, OneReconcile, Reconciling, Late
<1>3. RecordInv'
  BY DEF RecordInv, FlightInv, ElectedRegistered, Reconciling, Late
<1>4. HiddenInv'
  BY DEF HiddenInv, FlightInv, RecordInv, HiddenOnlyByRace, Reconciling, Late
<1> QED
  BY <1>1, <1>2, <1>3, <1>4

\* IInv is preserved by the fingerprint comparison.
LEMMA CompareKeeps ==
  ASSUME IInv, NEW p \in Pollers, Compare(p)
  PROVE  IInv'
<1> USE ReconcilerAssumption DEF IInv, TypeOK, Compare, Goto, Procs, elected,
        registry, users, shutdown, Return
<1>1. TypeOK'
  BY DEF FlightInv, RecordInv, Reconciling, Late
<1>2. FlightInv'
  BY DEF FlightInv, OneReconcile, Reconciling, Late
<1>3. RecordInv'
  BY DEF RecordInv, FlightInv, ElectedRegistered, Reconciling, Late
<1>4. HiddenInv'
  BY DEF HiddenInv, FlightInv, RecordInv, HiddenOnlyByRace, Reconciling, Late
<1> QED
  BY <1>1, <1>2, <1>3, <1>4

\* IInv is preserved by the compare-and-swap.
LEMMA CompareAndSwapKeeps ==
  ASSUME IInv, NEW p \in Pollers, CompareAndSwap(p)
  PROVE  IInv'
<1> USE ReconcilerAssumption DEF IInv, TypeOK, CompareAndSwap, Goto, Procs,
        elected, registry, users, shutdown, Return
<1>1. TypeOK'
  BY DEF FlightInv, RecordInv, Reconciling, Late
<1>2. FlightInv'
  BY DEF FlightInv, OneReconcile, Reconciling, Late
<1>3. RecordInv'
  BY DEF RecordInv, FlightInv, ElectedRegistered, Reconciling, Late
<1>4. HiddenInv'
  BY DEF HiddenInv, FlightInv, RecordInv, HiddenOnlyByRace, Reconciling, Late
<1> QED
  BY <1>1, <1>2, <1>3, <1>4

\* IInv is preserved by publishing the resource paths.
LEMMA PublishPathsKeeps ==
  ASSUME IInv, NEW p \in Procs, PublishPaths(p)
  PROVE  IInv'
<1> USE ReconcilerAssumption DEF IInv, TypeOK, PublishPaths, Goto, Procs,
        elected, registry, users, shutdown
<1>1. TypeOK'
  BY DEF FlightInv, RecordInv, Reconciling, Late
<1>2. FlightInv'
  BY DEF FlightInv, OneReconcile, Reconciling, Late
<1>3. RecordInv'
  BY DEF RecordInv, FlightInv, ElectedRegistered, Reconciling, Late
<1>4. HiddenInv'
  BY DEF HiddenInv, FlightInv, RecordInv, HiddenOnlyByRace, Reconciling, Late
<1> QED
  BY <1>1, <1>2, <1>3, <1>4

\* IInv is preserved by recording a detected store.
LEMMA UpsertAutoKeeps ==
  ASSUME IInv, NEW p \in Procs, NEW s \in Stores, UpsertAuto(p, s)
  PROVE  IInv'
<1> USE ReconcilerAssumption DEF IInv, TypeOK, UpsertAuto, Goto, Procs,
        elected, registry, users, shutdown
<1>1. TypeOK'
  BY DEF FlightInv, RecordInv, Reconciling, Late
<1>2. FlightInv'
  BY DEF FlightInv, OneReconcile, Reconciling, Late
<1>3. RecordInv'
  BY DEF RecordInv, FlightInv, ElectedRegistered, Reconciling, Late
<1>4. HiddenInv'
  BY DEF HiddenInv, FlightInv, RecordInv, HiddenOnlyByRace, Reconciling, Late
<1> QED
  BY <1>1, <1>2, <1>3, <1>4

\* IInv is preserved by the election.
LEMMA ElectsKeeps ==
  ASSUME IInv, NEW p \in Procs, Elects(p)
  PROVE  IInv'
<1> USE ReconcilerAssumption DEF IInv, TypeOK, Elects, Goto, Procs, elected,
        registry, users, shutdown
<1>1. TypeOK'
  BY DEF FlightInv, RecordInv, Reconciling, Late
<1>2. FlightInv'
  BY DEF FlightInv, OneReconcile, Reconciling, Late
<1>3. RecordInv'
  BY DEF RecordInv, FlightInv, ElectedRegistered, Reconciling, Late
<1>4. HiddenInv'
  BY DEF HiddenInv, FlightInv, RecordInv, HiddenOnlyByRace, Reconciling, Late
<1> QED
  BY <1>1, <1>2, <1>3, <1>4

\* IInv is preserved by clearing the elected store's tombstone.
LEMMA UndismissActiveKeeps ==
  ASSUME IInv, NEW p \in Procs, UndismissActive(p)
  PROVE  IInv'
<1> USE ReconcilerAssumption DEF IInv, TypeOK, UndismissActive, Goto, Procs,
        elected, registry, users, shutdown, Undismiss
<1>1. TypeOK'
  BY DEF FlightInv, RecordInv, Reconciling, Late
<1>2. FlightInv'
  BY DEF FlightInv, OneReconcile, Reconciling, Late
<1>3. RecordInv'
  BY DEF RecordInv, FlightInv, ElectedRegistered, Reconciling, Late
<1>4. HiddenInv'
  BY DEF HiddenInv, FlightInv, RecordInv, HiddenOnlyByRace, Reconciling, Late
<1> QED
  BY <1>1, <1>2, <1>3, <1>4

\* IInv is preserved by clearing a provided store's tombstone.
LEMMA UndismissAppProvidedKeeps ==
  ASSUME IInv, NEW p \in Procs, NEW s \in Stores, UndismissAppProvided(p, s)
  PROVE  IInv'
<1> USE ReconcilerAssumption DEF IInv, TypeOK, UndismissAppProvided, Goto,
        Procs, elected, registry, users, shutdown, Undismiss
<1>1. TypeOK'
  BY DEF FlightInv, RecordInv, Reconciling, Late
<1>2. FlightInv'
  BY DEF FlightInv, OneReconcile, Reconciling, Late
<1>3. RecordInv'
  BY DEF RecordInv, FlightInv, ElectedRegistered, Reconciling, Late
<1>4. HiddenInv'
  BY DEF HiddenInv, FlightInv, RecordInv, HiddenOnlyByRace, Reconciling, Late
<1> QED
  BY <1>1, <1>2, <1>3, <1>4

\* IInv is preserved by the end of the registry work.
LEMMA UndismissDoneKeeps ==
  ASSUME IInv, NEW p \in Procs, UndismissDone(p)
  PROVE  IInv'
<1> USE ReconcilerAssumption DEF IInv, TypeOK, UndismissDone, Goto, Procs,
        elected, registry, users, shutdown
<1>1. TypeOK'
  BY DEF FlightInv, RecordInv, Reconciling, Late
<1>2. FlightInv'
  BY DEF FlightInv, OneReconcile, Reconciling, Late
<1>3. RecordInv'
  BY DEF RecordInv, FlightInv, ElectedRegistered, Reconciling, Late
<1>4. HiddenInv'
  BY DEF HiddenInv, FlightInv, RecordInv, HiddenOnlyByRace, Reconciling, Late
<1> QED
  BY <1>1, <1>2, <1>3, <1>4

\* IInv is preserved by publishing the election.
LEMMA PublishElectionKeeps ==
  ASSUME IInv, NEW p \in Procs, PublishElection(p)
  PROVE  IInv'
<1> USE ReconcilerAssumption DEF IInv, TypeOK, PublishElection, Goto, Procs,
        elected, registry, users, shutdown
<1>1. TypeOK'
  BY DEF FlightInv, RecordInv, Reconciling, Late
<1>2. FlightInv'
  BY DEF FlightInv, OneReconcile, Reconciling, Late
<1>3. RecordInv'
  BY DEF RecordInv, FlightInv, ElectedRegistered, Reconciling, Late
<1>4. HiddenInv'
  BY DEF HiddenInv, FlightInv, RecordInv, HiddenOnlyByRace, Reconciling, Late
<1> QED
  BY <1>1, <1>2, <1>3, <1>4

\* IInv is preserved by the pre-warm.
LEMMA PreWarmKeeps ==
  ASSUME IInv, NEW p \in Procs, PreWarm(p)
  PROVE  IInv'
<1> USE ReconcilerAssumption DEF IInv, TypeOK, PreWarm, Goto, Procs, elected,
        registry, users, shutdown
<1>1. TypeOK'
  BY DEF FlightInv, RecordInv, Reconciling, Late
<1>2. FlightInv'
  BY DEF FlightInv, OneReconcile, Reconciling, Late
<1>3. RecordInv'
  BY DEF RecordInv, FlightInv, ElectedRegistered, Reconciling, Late
<1>4. HiddenInv'
  BY DEF HiddenInv, FlightInv, RecordInv, HiddenOnlyByRace, Reconciling, Late
<1> QED
  BY <1>1, <1>2, <1>3, <1>4

\* IInv is preserved by the end of a reconcile.
LEMMA FinishKeeps ==
  ASSUME IInv, NEW p \in Procs, Finish(p)
  PROVE  IInv'
<1> USE ReconcilerAssumption DEF IInv, TypeOK, Finish, Goto, Procs, elected,
        registry, users, shutdown, Return
<1>1. TypeOK'
  BY DEF FlightInv, RecordInv, Reconciling, Late
<1>2. FlightInv'
  BY DEF FlightInv, OneReconcile, Reconciling, Late
<1>3. RecordInv'
  BY DEF RecordInv, FlightInv, ElectedRegistered, Reconciling, Late
<1>4. HiddenInv'
  BY DEF HiddenInv, FlightInv, RecordInv, HiddenOnlyByRace, Reconciling, Late
<1> QED
  BY <1>1, <1>2, <1>3, <1>4

\* IInv is preserved by DeleteStore's check.
LEMMA CheckActiveKeeps ==
  ASSUME IInv, NEW d \in Deleters, NEW s \in Stores, CheckActive(d, s)
  PROVE  IInv'
<1> USE ReconcilerAssumption DEF IInv, TypeOK, CheckActive, Goto, Procs,
        elected, registry, users, shutdown, Booted
<1>1. TypeOK'
  BY DEF FlightInv, RecordInv, Reconciling, Late
<1>2. FlightInv'
  BY DEF FlightInv, OneReconcile, Reconciling, Late
<1>3. RecordInv'
  BY DEF RecordInv, FlightInv, ElectedRegistered, Reconciling, Late
<1>4. HiddenInv'
  BY DEF HiddenInv, FlightInv, RecordInv, HiddenOnlyByRace, Reconciling, Late
<1> QED
  BY <1>1, <1>2, <1>3, <1>4

\* IInv is preserved by DeleteStore's tombstone.
LEMMA RegistryDeleteKeeps ==
  ASSUME IInv, NEW d \in Deleters, RegistryDelete(d)
  PROVE  IInv'
<1> USE ReconcilerAssumption DEF IInv, TypeOK, RegistryDelete, Goto, Procs,
        elected, registry, users, shutdown
<1>1. TypeOK'
  BY DEF FlightInv, RecordInv, Reconciling, Late
<1>2. FlightInv'
  BY DEF FlightInv, OneReconcile, Reconciling, Late
<1>3. RecordInv'
  BY DEF RecordInv, FlightInv, ElectedRegistered, Reconciling, Late
<1>4. HiddenInv'
  BY DEF HiddenInv, FlightInv, RecordInv, HiddenOnlyByRace, Reconciling, Late
<1> QED
  BY <1>1, <1>2, <1>3, <1>4

\* IInv is preserved by DeleteStore's evict.
LEMMA EvictKeeps ==
  ASSUME IInv, NEW d \in Deleters, Evict(d)
  PROVE  IInv'
<1> USE ReconcilerAssumption DEF IInv, TypeOK, Evict, Goto, Procs, elected,
        registry, users, shutdown
<1>1. TypeOK'
  BY DEF FlightInv, RecordInv, Reconciling, Late
<1>2. FlightInv'
  BY DEF FlightInv, OneReconcile, Reconciling, Late
<1>3. RecordInv'
  BY DEF RecordInv, FlightInv, ElectedRegistered, Reconciling, Late
<1>4. HiddenInv'
  BY DEF HiddenInv, FlightInv, RecordInv, HiddenOnlyByRace, Reconciling, Late
<1> QED
  BY <1>1, <1>2, <1>3, <1>4

\* IInv is preserved by a request opening a store.
LEMMA OpenForKeeps ==
  ASSUME IInv, NEW s \in Stores, OpenFor(s)
  PROVE  IInv'
<1> USE ReconcilerAssumption DEF IInv, TypeOK, OpenFor, Goto, Procs, elected,
        registry, users, shutdown, Booted
<1>1. TypeOK'
  BY DEF FlightInv, RecordInv, Reconciling, Late
<1>2. FlightInv'
  BY DEF FlightInv, OneReconcile, Reconciling, Late
<1>3. RecordInv'
  BY DEF RecordInv, FlightInv, ElectedRegistered, Reconciling, Late
<1>4. HiddenInv'
  BY DEF HiddenInv, FlightInv, RecordInv, HiddenOnlyByRace, Reconciling, Late
<1> QED
  BY <1>1, <1>2, <1>3, <1>4

\* IInv is preserved by Close.
LEMMA CloseKeeps ==
  ASSUME IInv, Close
  PROVE  IInv'
<1> USE ReconcilerAssumption DEF IInv, TypeOK, Close, Goto, Procs, elected,
        registry, users, shutdown, Booted
<1>1. TypeOK'
  BY DEF FlightInv, RecordInv, Reconciling, Late
<1>2. FlightInv'
  BY DEF FlightInv, OneReconcile, Reconciling, Late
<1>3. RecordInv'
  BY DEF RecordInv, FlightInv, ElectedRegistered, Reconciling, Late
<1>4. HiddenInv'
  BY DEF HiddenInv, FlightInv, RecordInv, HiddenOnlyByRace, Reconciling, Late
<1> QED
  BY <1>1, <1>2, <1>3, <1>4

\* IInv is preserved by closing the pool.
LEMMA ClosePoolKeeps ==
  ASSUME IInv, ClosePool
  PROVE  IInv'
<1> USE ReconcilerAssumption DEF IInv, TypeOK, ClosePool, Goto, Procs,
        elected, registry, users, shutdown
<1>1. TypeOK'
  BY DEF FlightInv, RecordInv, Reconciling, Late
<1>2. FlightInv'
  BY DEF FlightInv, OneReconcile, Reconciling, Late
<1>3. RecordInv'
  BY DEF RecordInv, FlightInv, ElectedRegistered, Reconciling, Late
<1>4. HiddenInv'
  BY DEF HiddenInv, FlightInv, RecordInv, HiddenOnlyByRace, Reconciling, Late
<1> QED
  BY <1>1, <1>2, <1>3, <1>4

-----------------------------------------------------------------------------
\* Every step preserves the invariant.
LEMMA NextIInv == IInv /\ [Next]_vars => IInv'
<1> SUFFICES ASSUME IInv, [Next]_vars PROVE IInv'
  OBVIOUS
<1>1. CASE UNCHANGED vars
  BY <1>1 DEF vars, IInv, TypeOK, FlightInv, RecordInv, HiddenInv, OneReconcile,
              ElectedRegistered, HiddenOnlyByRace, elected
<1>2. ASSUME NEW p \in Pollers, PollStep(p) PROVE IInv'
  BY <1>2, ListKeeps, CompareKeeps, CompareAndSwapKeeps DEF PollStep
<1>3. ASSUME NEW p \in Procs, Reconcile(p) PROVE IInv'
  BY <1>3, PublishPathsKeeps, UpsertAutoKeeps, ElectsKeeps,
     UndismissActiveKeeps, UndismissAppProvidedKeeps, UndismissDoneKeeps,
     PublishElectionKeeps, PreWarmKeeps, FinishKeeps DEF Reconcile
<1>4. ASSUME NEW d \in Deleters, DeleteStep(d) PROVE IInv'
  BY <1>4, CheckActiveKeeps, RegistryDeleteKeeps, EvictKeeps DEF DeleteStep
<1> QED
  BY <1>1, <1>2, <1>3, <1>4, AppsChangeKeeps, OpenForKeeps, CloseKeeps,
     ClosePoolKeeps DEF Next

\* The invariant holds in every reachable state.
THEOREM ReconcilerInvariant == Spec => []IInv
BY InitIInv, NextIInv, PTL DEF Spec

\* Type correctness; in particular every tombstone belongs to an entry.
THEOREM ReconcilerTypeOK == Spec => []TypeOK
<1>1. IInv => TypeOK
  BY DEF IInv
<1> QED
  BY <1>1, ReconcilerInvariant, PTL

\* At most one reconcile runs at a time, seed included.
THEOREM ReconcilerSingleFlight == Spec => []OneReconcile
<1>1. IInv => OneReconcile
  BY DEF IInv, FlightInv
<1> QED
  BY <1>1, ReconcilerInvariant, PTL

\* A published election is over stores that all have a registry entry.
THEOREM ReconcilerRegistered == Spec => []ElectedRegistered
<1>1. IInv => ElectedRegistered
  BY DEF IInv, RecordInv
<1> QED
  BY <1>1, ReconcilerInvariant, PTL

\* An elected store is hidden only by a DeleteStore that raced its election.
THEOREM ReconcilerHidden == Spec => []HiddenOnlyByRace
<1>1. IInv => HiddenOnlyByRace
  BY DEF IInv, HiddenInv
<1> QED
  BY <1>1, ReconcilerInvariant, PTL

\* After Close nothing derived changes and no connection is cached.
THEOREM ReconcilerClosedIsFinal == Spec => ClosedIsFinal
<1> DEFINE Final == /\ closed => UNCHANGED <<resPaths, seen>>
                    /\ poolClosed => conns' \subseteq conns
<1>1. [Next]_vars => [Final]_vars
  <2> SUFFICES ASSUME Next PROVE Final
    BY DEF vars
  <2> USE DEF registry, users, shutdown
  <2>1. ASSUME NEW p \in Pollers, PollStep(p) PROVE Final
    BY <2>1 DEF PollStep, List, Compare, CompareAndSwap
  <2>2. ASSUME NEW p \in Procs, Reconcile(p) PROVE Final
    BY <2>2 DEF Reconcile, PublishPaths, UpsertAuto, Elects, UndismissActive,
                UndismissAppProvided, UndismissDone, PublishElection, PreWarm,
                Finish
  <2>3. ASSUME NEW d \in Deleters, DeleteStep(d) PROVE Final
    BY <2>3 DEF DeleteStep, CheckActive, RegistryDelete, Evict
  <2> QED
    BY <2>1, <2>2, <2>3 DEF Next, AppsChange, OpenFor, Close, ClosePool
<1> QED
  BY <1>1, PTL DEF Spec, ClosedIsFinal
=============================================================================
