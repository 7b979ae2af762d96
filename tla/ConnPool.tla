------------------------------ MODULE ConnPool ------------------------------
(***************************************************************************)
(* The identity-keyed connection pool of cmd/connpool.go.                  *)
(*                                                                         *)
(* Any number of goroutines call openOrGet, evict and Close.  The mutex    *)
(* p.mu protects the map and the closed flag only: an open, the wait on    *)
(* slot.done and the close of a connection all happen outside it.  Every   *)
(* action below is one stretch of code between two such points.            *)
(*                                                                         *)
(* A slot stands for one *poolSlot together with the connection its opener *)
(* may obtain; a slot is allocated by one openOrGet and never reused.      *)
(***************************************************************************)
EXTENDS Naturals, FiniteSets

CONSTANTS
  Ids,        \* component identities, the keys of p.slots
  EvictIds,   \* the identities some user edits or deletes (evict is called)
  Callers,    \* goroutines
  Slots,      \* *poolSlot values; bounds the number of opens of a behaviour
  NoSlot,     \* nil / absent
  NoId        \* identity of a slot not yet allocated

ASSUME ConnPoolAssumption ==
  /\ EvictIds \subseteq Ids
  /\ NoSlot \notin Slots
  /\ NoId \notin Ids

VARIABLES
  slots,    \* p.slots: identity -> slot
  closed,   \* p.closed
  sid,      \* the identity a slot was allocated for, NoId while unallocated
  done,     \* slots whose done channel is closed
  store,    \* slots with slot.store # nil
  err,      \* slots with slot.err # nil
  live,     \* slots whose open returned a connection
  closes,   \* how many times that connection was closed
  closing,  \* the slots Close took out of the map and has not processed
  pc,       \* where a goroutine is
  mine,     \* the slot a goroutine works on, or received
  stray     \* history: slots deleted from the map by another slot's opener

vars == <<slots, closed, sid, done, store, err, live, closes, closing, pc,
          mine, stray>>

\* A call has returned: no call yet, an entry, or an error (or evict/Close).
Returned == {"idle", "ok", "err"}
\* An openOrGet that allocated its slot and has not closed done yet.
Opening == {"open", "opened", "failed", "dropped", "evicted", "publish"}
PCs == Returned \cup Opening \cup {"wait", "evict", "closing"}

\* Mutant of Cached: absent identities count as slots.
CachedWithNil == {slots[i] : i \in Ids}

Cached == {slots[i] : i \in Ids} \ {NoSlot}
Open(s) == s \in live /\ closes[s] = 0
\* The goroutines for which slot s is a local variable, by program point.
At(s, where) == {p \in Callers : mine[p] = s /\ pc[p] \in where}

Init ==
  /\ slots = [i \in Ids |-> NoSlot]
  /\ closed = FALSE
  /\ sid = [s \in Slots |-> NoId]
  /\ done = {} /\ store = {} /\ err = {} /\ live = {}
  /\ closes = [s \in Slots |-> 0]
  /\ closing = {}
  /\ pc = [p \in Callers |-> "idle"]
  /\ mine = [p \in Callers |-> NoSlot]
  /\ stray = {}

-----------------------------------------------------------------------------
Goto(p, where) == pc' = [pc EXCEPT ![p] = where]
Slot(p) == mine[p]
\* delete(p.slots, id) for the identity of slot s, whatever slot is there.
Delete(s) ==
  /\ slots' = [slots EXCEPT ![sid[s]] = NoSlot]
  /\ stray' = stray \cup ({slots[sid[s]]} \ {s, NoSlot})

\* openOrGet: the pool is closed.
OpenRejected(p) ==
  /\ pc[p] \in Returned
  /\ closed
  /\ Goto(p, "err")
  /\ mine' = [mine EXCEPT ![p] = NoSlot]
  /\ UNCHANGED <<slots, closed, sid, done, store, err, live, closes, closing,
                 stray>>

\* openOrGet: a slot for the identity is there; go and wait for its done.
OpenJoin(p, i) ==
  /\ pc[p] \in Returned
  /\ ~closed
  /\ slots[i] # NoSlot
  /\ Goto(p, "wait")
  /\ mine' = [mine EXCEPT ![p] = slots[i]]
  /\ UNCHANGED <<slots, closed, sid, done, store, err, live, closes, closing,
                 stray>>

\* Mutant of OpenMiss: no look-up of the slot before the insert.
OpenAlways(p, i, s) ==
  /\ pc[p] \in Returned
  /\ ~closed
  /\ sid[s] = NoId
  /\ sid' = [sid EXCEPT ![s] = i]
  /\ slots' = [slots EXCEPT ![i] = s]
  /\ mine' = [mine EXCEPT ![p] = s]
  /\ Goto(p, "open")
  /\ UNCHANGED <<closed, done, store, err, live, closes, closing, stray>>

\* openOrGet: no slot; insert a new one, then open outside the lock.
OpenMiss(p, i, s) ==
  /\ pc[p] \in Returned
  /\ ~closed
  /\ slots[i] = NoSlot
  /\ sid[s] = NoId
  /\ sid' = [sid EXCEPT ![s] = i]
  /\ slots' = [slots EXCEPT ![i] = s]
  /\ mine' = [mine EXCEPT ![p] = s]
  /\ Goto(p, "open")
  /\ UNCHANGED <<closed, done, store, err, live, closes, closing, stray>>

\* p.open returns a connection ...
OpenSucceeds(p) ==
  /\ pc[p] = "open"
  /\ live' = live \cup {Slot(p)}
  /\ Goto(p, "opened")
  /\ UNCHANGED <<slots, closed, sid, done, store, err, closes, closing, mine,
                 stray>>

\* ... or an error (refused, or the caller's context ended).
OpenFails(p) ==
  /\ pc[p] = "open"
  /\ Goto(p, "failed")
  /\ UNCHANGED <<slots, closed, sid, done, store, err, live, closes, closing,
                 mine, stray>>

\* Mutant of DropFailed: the failed slot stays cached.
KeepFailed(p) ==
  /\ pc[p] = "failed"
  /\ Goto(p, "dropped")
  /\ UNCHANGED <<slots, closed, sid, done, store, err, live, closes, closing,
                 mine, stray>>

\* The failed opener drops the entry of its identity from the map ...
DropFailed(p) ==
  /\ pc[p] = "failed"
  /\ Delete(Slot(p))
  /\ Goto(p, "dropped")
  /\ UNCHANGED <<closed, sid, done, store, err, live, closes, closing, mine>>

\* Mutant of ReportFailed: the error path forgets close(slot.done).
ReportWithoutDone(p) ==
  /\ pc[p] = "dropped"
  /\ err' = err \cup {Slot(p)}
  /\ Goto(p, "err")
  /\ UNCHANGED <<slots, closed, sid, done, store, live, closes, closing, mine,
                 stray>>

\* ... and, outside the lock, records the error and releases the waiters.
ReportFailed(p) ==
  /\ pc[p] = "dropped"
  /\ err' = err \cup {Slot(p)}
  /\ done' = done \cup {Slot(p)}
  /\ Goto(p, "err")
  /\ UNCHANGED <<slots, closed, sid, store, live, closes, closing, mine,
                 stray>>

\* The re-check under the lock: was the slot evicted while it was opening?
Evicted(s) == closed \/ slots[sid[s]] # s

Recheck(p) ==
  /\ pc[p] = "opened"
  /\ \/ /\ Evicted(Slot(p))
        /\ Delete(Slot(p))
        /\ Goto(p, "evicted")
     \/ /\ ~Evicted(Slot(p))
        /\ Goto(p, "publish")
        /\ UNCHANGED <<slots, stray>>
  /\ UNCHANGED <<closed, sid, done, store, err, live, closes, closing, mine>>

\* Mutant of CloseEvicted: the evicted opener does not set slot.err.
CloseEvictedSilently(p) ==
  /\ pc[p] = "evicted"
  /\ closes' = [closes EXCEPT ![Slot(p)] = @ + 1]
  /\ done' = done \cup {Slot(p)}
  /\ Goto(p, "err")
  /\ UNCHANGED <<slots, closed, sid, store, err, live, closing, mine, stray>>

\* st.Close() of the evicted opener's own connection, the error, close(done).
CloseEvicted(p) ==
  /\ pc[p] = "evicted"
  /\ closes' = [closes EXCEPT ![Slot(p)] = @ + 1]
  /\ err' = err \cup {Slot(p)}
  /\ done' = done \cup {Slot(p)}
  /\ Goto(p, "err")
  /\ UNCHANGED <<slots, closed, sid, store, live, closing, mine, stray>>

\* Mutant of Publish: a new connection closes those of the other identities.
PublishAlone(p) ==
  /\ pc[p] = "publish"
  /\ store' = store \cup {Slot(p)}
  /\ done' = done \cup {Slot(p)}
  /\ closes' = [s \in Slots |-> IF s \in Cached \cap store /\ s # Slot(p)
                                THEN closes[s] + 1 ELSE closes[s]]
  /\ Goto(p, "ok")
  /\ UNCHANGED <<slots, closed, sid, err, live, closing, mine, stray>>

\* slot.store, slot.entry and close(done), all outside the lock.
Publish(p) ==
  /\ pc[p] = "publish"
  /\ store' = store \cup {Slot(p)}
  /\ done' = done \cup {Slot(p)}
  /\ Goto(p, "ok")
  /\ UNCHANGED <<slots, closed, sid, err, live, closes, closing, mine, stray>>

\* A joined openOrGet returns slot.entry, slot.err once done is closed.
Wait(p) ==
  /\ pc[p] = "wait"
  /\ Slot(p) \in done
  /\ Goto(p, IF Slot(p) \in err THEN "err" ELSE "ok")
  /\ UNCHANGED <<slots, closed, sid, done, store, err, live, closes, closing,
                 mine, stray>>

-----------------------------------------------------------------------------
\* evict with nothing cached returns at once.
EvictMiss(p, i) ==
  /\ pc[p] \in Returned
  /\ slots[i] = NoSlot
  /\ Goto(p, "idle")
  /\ mine' = [mine EXCEPT ![p] = NoSlot]
  /\ UNCHANGED <<slots, closed, sid, done, store, err, live, closes, closing,
                 stray>>

\* Mutant of EvictTake: the slot is looked up and left in the map.
EvictLooksUp(p, i) ==
  /\ pc[p] \in Returned
  /\ slots[i] # NoSlot
  /\ mine' = [mine EXCEPT ![p] = slots[i]]
  /\ Goto(p, "evict")
  /\ UNCHANGED <<slots, closed, sid, done, store, err, live, closes, closing,
                 stray>>

\* evict takes the slot out of the map under the lock ...
EvictTake(p, i) ==
  /\ pc[p] \in Returned
  /\ slots[i] # NoSlot
  /\ slots' = [slots EXCEPT ![i] = NoSlot]
  /\ mine' = [mine EXCEPT ![p] = slots[i]]
  /\ Goto(p, "evict")
  /\ UNCHANGED <<closed, sid, done, store, err, live, closes, closing, stray>>

\* Mutant of EvictClose: slot.store is read without waiting for done ("Fix 3").
EvictCloseEarly(p) ==
  /\ pc[p] = "evict"
  /\ closes' = [closes EXCEPT ![Slot(p)] = IF Slot(p) \in store THEN @ + 1
                                                               ELSE @]
  /\ mine' = [mine EXCEPT ![p] = NoSlot]
  /\ Goto(p, "idle")
  /\ UNCHANGED <<slots, closed, sid, done, store, err, live, closing, stray>>

\* ... waits for its done and closes the store, if the slot got one.
EvictClose(p) ==
  /\ pc[p] = "evict"
  /\ Slot(p) \in done
  /\ closes' = [closes EXCEPT ![Slot(p)] = IF Slot(p) \in store THEN @ + 1
                                                               ELSE @]
  /\ mine' = [mine EXCEPT ![p] = NoSlot]
  /\ Goto(p, "idle")
  /\ UNCHANGED <<slots, closed, sid, done, store, err, live, closing, stray>>

\* Mutant of CloseTake: only the slots whose open has finished are collected.
CloseTakeFinished(p) ==
  /\ pc[p] \in Returned
  /\ ~closed
  /\ closed' = TRUE
  /\ closing' = Cached \cap done
  /\ slots' = [i \in Ids |-> NoSlot]
  /\ mine' = [mine EXCEPT ![p] = NoSlot]
  /\ Goto(p, "closing")
  /\ UNCHANGED <<sid, done, store, err, live, closes, stray>>

\* Close swaps the map for an empty one under the lock.
CloseTake(p) ==
  /\ pc[p] \in Returned
  /\ ~closed
  /\ closed' = TRUE
  /\ closing' = Cached
  /\ slots' = [i \in Ids |-> NoSlot]
  /\ mine' = [mine EXCEPT ![p] = NoSlot]
  /\ Goto(p, "closing")
  /\ UNCHANGED <<sid, done, store, err, live, closes, stray>>

\* One iteration of Close's loop: wait for done, close the store if any.
CloseOne(p, s) ==
  /\ pc[p] = "closing"
  /\ s \in closing
  /\ s \in done
  /\ closing' = closing \ {s}
  /\ closes' = [closes EXCEPT ![s] = IF s \in store THEN @ + 1 ELSE @]
  /\ UNCHANGED <<slots, closed, sid, done, store, err, live, pc, mine, stray>>

\* Close returns: the loop is over, or the pool had been closed before.
CloseReturns(p) ==
  /\ \/ pc[p] = "closing" /\ closing = {}
     \/ pc[p] \in Returned /\ closed
  /\ Goto(p, "idle")
  /\ mine' = [mine EXCEPT ![p] = NoSlot]
  /\ UNCHANGED <<slots, closed, sid, done, store, err, live, closes, closing,
                 stray>>

-----------------------------------------------------------------------------
\* The steps of a call in progress; each is a goroutine that only runs on.
Continue(p) ==
  \/ OpenSucceeds(p) \/ OpenFails(p)
  \/ DropFailed(p) \/ ReportFailed(p)
  \/ Recheck(p) \/ CloseEvicted(p) \/ Publish(p)
  \/ Wait(p)
  \/ EvictClose(p)
  \/ \E s \in Slots : CloseOne(p, s)
  \/ pc[p] = "closing" /\ CloseReturns(p)

\* A new call.
Begin(p) ==
  \/ OpenRejected(p)
  \/ \E i \in Ids : OpenJoin(p, i)
  \/ \E i \in Ids, s \in Slots : OpenMiss(p, i, s)
  \/ \E i \in EvictIds : EvictMiss(p, i) \/ EvictTake(p, i)
  \/ CloseTake(p)
  \/ pc[p] \in Returned /\ CloseReturns(p)

Next == \E p \in Callers : Continue(p) \/ Begin(p)

Spec == Init /\ [][Next]_vars

\* Go's scheduler runs every runnable goroutine, and p.open returns: every
\* caller in reconciler.go derives its context with connectTimeout.
FairSpec == Spec /\ \A p \in Callers : WF_vars(Continue(p))

-----------------------------------------------------------------------------
(* Properties *)

\* The pool's fields and every goroutine's locals hold values of their types;
\* in particular Close never picks up a nil slot.
TypeOK ==
  /\ slots \in [Ids -> Slots \cup {NoSlot}]
  /\ closed \in BOOLEAN
  /\ sid \in [Slots -> Ids \cup {NoId}]
  /\ done \subseteq Slots /\ store \subseteq Slots
  /\ err \subseteq Slots /\ live \subseteq Slots
  /\ closes \in [Slots -> Nat]
  /\ closing \subseteq Slots
  /\ pc \in [Callers -> PCs]
  /\ mine \in [Callers -> Slots \cup {NoSlot}]
  /\ stray \subseteq Slots

\* However openOrGet, evict and Close overlap, no connection is closed twice:
\* the opener that finds itself evicted, the evictor and Close never both own
\* the store of one slot.
CloseOnce == \A s \in Slots : closes[s] <= 1

\* A slot found in the map whose open has finished carries a connection that is
\* open: neither a failed open (connpool.go "A failed open is not cached") nor
\* a store somebody already closed can be handed out from the map.
CachedUsable == \A s \in Cached : s \in done => s \in store /\ Open(s)

\* An openOrGet that returned without an error returned an entry with a store:
\* the callers that were funnelled through one open get that open's outcome,
\* never the zero entry of a slot whose opener failed or was evicted.
OutcomeShared == \A p \in Callers : pc[p] = "ok" => Slot(p) \in store

\* Every open connection has somebody who can still close it: it is in the map,
\* in the set Close is working through, in the hands of its opener or of an
\* evictor - or another slot's opener deleted its map entry.  That delete is
\* the only way the pool loses a connection.
Accounted ==
  \A s \in Slots :
    Open(s) => \/ s \in Cached \cup closing \cup stray
               \/ At(s, Opening \cup {"evict"}) # {}

\* A connection of an identity nobody evicts is never lost, and there is never
\* a second one beside it: concurrent first uses share a single open.
OneOwnedConnection ==
  \A s \in Slots : Open(s) /\ sid[s] \notin EvictIds =>
    /\ s \in Cached \cup closing \/ At(s, Opening) # {}
    /\ \A t \in Slots : Open(t) /\ sid[t] = sid[s] => t = s

\* Retention ("It never closes a connection just because the active store
\* changed"): an entry handed out for an identity nobody evicts stays usable
\* until Close.
Retained ==
  \A p \in Callers :
    pc[p] = "ok" /\ sid[Slot(p)] \notin EvictIds /\ ~closed => Open(Slot(p))

\* Every call of openOrGet, evict and Close returns: nobody waits for a done
\* channel that is never closed, whatever was evicted or closed meanwhile.
CallsReturn == \A p \in Callers : pc[p] \notin Returned ~> pc[p] \in Returned

\* After Close every connection of an identity nobody evicts ends up closed for
\* good, the ones whose open was in flight when Close ran included.
CloseDrains ==
  closed ~> [](\A s \in Slots : sid[s] \notin EvictIds => ~Open(s))

\* What the type's comment says ("closes everything on Close") and line 97
\* ("harmless otherwise") rests on: an open connection is always within reach
\* of evict or Close, or in the hands of the goroutine that will close it.
NoLeak ==
  \A s \in Slots :
    Open(s) => \/ s \in Cached \cup closing
               \/ At(s, Opening \cup {"evict"}) # {}
=============================================================================
