--------------------------- MODULE ConnPoolProofs ---------------------------
(***************************************************************************)
(* Proofs that the pool of cmd/connpool.go keeps its safety properties for *)
(* every set of identities, goroutines and slots.                          *)
(*                                                                         *)
(* None of the properties is inductive by itself.  IInv below says who may *)
(* close the connection of a slot in each phase of the slot's life, and    *)
(* that for an identity nobody evicts the map entry and the slot in use    *)
(* are the same as long as the pool is open.                               *)
(***************************************************************************)
EXTENDS ConnPool, TLAPS

\* Slot s is the map's entry for its identity.
Mapped(s) == sid[s] # NoId /\ slots[sid[s]] = s

\* The map files a slot under its own identity; a closed pool has no entries,
\* and only a closed pool has slots to work through.
MapInv ==
  /\ \A i \in Ids : slots[i] # NoSlot => sid[slots[i]] = i
  /\ closed => \A i \in Ids : slots[i] = NoSlot
  /\ closing # {} => closed
  /\ \A p \in Callers : pc[p] = "closing" => closed

\* A slot that was not allocated has left no trace.
FreshInv ==
  \A s \in Slots : sid[s] = NoId =>
    /\ s \notin done \cup store \cup err \cup live \cup closing \cup stray
    /\ closes[s] = 0
    /\ \A p \in Callers : mine[p] # s

\* What the opener of a slot knows: it is alone, and nothing is published yet.
OpenerInv ==
  \A p \in Callers :
    /\ pc[p] \in Opening \cup {"wait", "evict", "ok"} => mine[p] \in Slots
    /\ pc[p] \in Opening =>
         /\ mine[p] \notin done \cup store \cup err
         /\ closes[mine[p]] = 0
         /\ \A q \in Callers : pc[q] \in Opening /\ mine[q] = mine[p] => q = p
    /\ pc[p] \in {"opened", "evicted", "publish"} => mine[p] \in live
    /\ pc[p] \in {"open", "failed", "dropped"} => mine[p] \notin live
    /\ pc[p] \in {"dropped", "evicted"} => ~Mapped(mine[p])
    /\ pc[p] = "ok" => mine[p] \in store

\* A finished open left a store or an error, never both.
DoneInv ==
  \A s \in Slots :
    /\ s \in done => s \in store \/ s \in err
    /\ s \in store => s \in done /\ s \in live /\ s \notin err
    /\ s \in err => s \in done /\ ~Open(s) /\ ~Mapped(s)

\* The right to close a published store belongs to the map, to Close or to one
\* evictor, and whoever has it has not used it.
RightInv ==
  /\ \A s \in Slots :
       /\ closes[s] <= 1
       /\ Mapped(s) => closes[s] = 0 /\ s \notin closing
       /\ s \in closing /\ s \in store => closes[s] = 0
  /\ \A p \in Callers : pc[p] = "evict" =>
       /\ ~Mapped(mine[p])
       /\ mine[p] \notin closing
       /\ mine[p] \in store => closes[mine[p]] = 0
       /\ \A q \in Callers : pc[q] = "evict" /\ mine[q] = mine[p] => q = p

\* Who owns slot s apart from its opener.
Owned(s) ==
  \/ Mapped(s) \/ s \in closing \/ s \in stray
  \/ \E p \in Callers : pc[p] = "evict" /\ mine[p] = s

\* An open connection is owned, or its opener has not re-checked the map.
OwnedInv ==
  /\ \A s \in Slots : Open(s) =>
       Owned(s) \/ \E p \in Callers : pc[p] \in Opening /\ mine[p] = s
  /\ \A p \in Callers : pc[p] = "publish" => Owned(mine[p])

\* A connection that exists or may still come into existence.
Potential(s) ==
  Open(s) \/ \E p \in Callers : pc[p] \in {"open", "failed"} /\ mine[p] = s

\* Identities nobody evicts: eviction and stray deletes do not touch them, and
\* while the pool is open a potential connection is the map's entry.
QuietInv ==
  /\ \A p \in Callers : pc[p] = "evict" => sid[mine[p]] \in EvictIds
  /\ \A s \in stray : sid[s] \in EvictIds
  /\ \A s \in Slots : sid[s] \notin EvictIds =>
       /\ ~closed /\ Potential(s) => Mapped(s)
       /\ ~closed /\ s \in store => closes[s] = 0
       /\ \A t \in Slots : Potential(s) /\ Potential(t) /\ sid[t] = sid[s]
            => t = s

IInv ==
  /\ TypeOK /\ MapInv /\ FreshInv /\ OpenerInv /\ DoneInv /\ RightInv
  /\ OwnedInv /\ QuietInv

\* IInv is preserved by openOrGet on a closed pool.
LEMMA OpenRejectedKeeps ==
  ASSUME IInv, NEW p \in Callers, OpenRejected(p)
  PROVE  IInv'
<1> USE ConnPoolAssumption DEF IInv, TypeOK, OpenRejected, Goto, Slot,
       Returned
<1>1. TypeOK'
  BY DEF PCs, Opening
<1>2. MapInv'
  BY DEF MapInv
<1>3. FreshInv'
  BY DEF FreshInv
<1>4. OpenerInv'
  BY DEF OpenerInv, Mapped, Opening
<1>5. DoneInv'
  BY DEF DoneInv, Open, Mapped
<1>6. RightInv'
  BY DEF RightInv, Mapped
<1>7. OwnedInv'
  BY DEF OwnedInv, Owned, Mapped, Open, Opening
<1>8. QuietInv'
  BY DEF QuietInv, Potential, Mapped, Open
<1> QED
  BY <1>1, <1>2, <1>3, <1>4, <1>5, <1>6, <1>7, <1>8

\* IInv is preserved by openOrGet that finds a slot.
LEMMA OpenJoinKeeps ==
  ASSUME IInv, NEW p \in Callers, NEW i \in Ids, OpenJoin(p, i)
  PROVE  IInv'
<1> USE ConnPoolAssumption DEF IInv, TypeOK, OpenJoin, Goto, Slot, Returned
<1>1. TypeOK'
  BY DEF PCs, Opening
<1>2. MapInv'
  BY DEF MapInv
<1>3. FreshInv'
  BY DEF FreshInv, MapInv
<1>4. OpenerInv'
  BY DEF OpenerInv, Mapped, Opening
<1>5. DoneInv'
  BY DEF DoneInv, Open, Mapped
<1>6. RightInv'
  BY DEF RightInv, Mapped
<1>7. OwnedInv'
  BY DEF OwnedInv, Owned, Mapped, Open, Opening
<1>8. QuietInv'
  BY DEF QuietInv, Potential, Mapped, Open
<1> QED
  BY <1>1, <1>2, <1>3, <1>4, <1>5, <1>6, <1>7, <1>8

\* IInv is preserved by openOrGet that inserts a slot.
LEMMA OpenMissKeeps ==
  ASSUME IInv, NEW p \in Callers, NEW i \in Ids,
         NEW s \in Slots, OpenMiss(p, i, s)
  PROVE  IInv'
<1> USE ConnPoolAssumption DEF IInv, TypeOK, OpenMiss, Goto, Slot, Returned
<1>1. TypeOK'
  BY DEF PCs, Opening
<1>2. MapInv'
  BY DEF MapInv
<1>3. FreshInv'
  BY DEF FreshInv
<1>4. OpenerInv'
  BY DEF OpenerInv, FreshInv, Mapped, Opening
<1>5. DoneInv'
  BY DEF DoneInv, FreshInv, MapInv, Open, Mapped
<1>6. RightInv'
  BY DEF RightInv, MapInv, FreshInv, Mapped
<1>7. OwnedInv'
  BY DEF OwnedInv, OpenerInv, Owned, Mapped, Open, Opening
<1>8. QuietInv'
  BY DEF QuietInv, Potential, Mapped, Open
<1> QED
  BY <1>1, <1>2, <1>3, <1>4, <1>5, <1>6, <1>7, <1>8

\* IInv is preserved by p.open returning a connection.
LEMMA OpenSucceedsKeeps ==
  ASSUME IInv, NEW p \in Callers, OpenSucceeds(p)
  PROVE  IInv'
<1> USE ConnPoolAssumption DEF IInv, TypeOK, OpenSucceeds, Goto, Slot
<1>1. TypeOK'
  BY DEF OpenerInv, PCs, Opening, Returned
<1>2. MapInv'
  BY DEF MapInv
<1>3. FreshInv'
  BY DEF FreshInv
<1>4. OpenerInv'
  BY DEF OpenerInv, Mapped, Opening
<1>5. DoneInv'
  BY DEF DoneInv, OpenerInv, Open, Mapped, Opening
<1>6. RightInv'
  BY DEF RightInv, Mapped
<1>7. OwnedInv'
  BY DEF OwnedInv, Owned, Mapped, Open, Opening
<1>8. QuietInv'
  BY DEF QuietInv, Potential, Mapped, Open
<1> QED
  BY <1>1, <1>2, <1>3, <1>4, <1>5, <1>6, <1>7, <1>8

\* IInv is preserved by p.open returning an error.
LEMMA OpenFailsKeeps ==
  ASSUME IInv, NEW p \in Callers, OpenFails(p)
  PROVE  IInv'
<1> USE ConnPoolAssumption DEF IInv, TypeOK, OpenFails, Goto, Slot
<1>1. TypeOK'
  BY DEF PCs, Opening, Returned
<1>2. MapInv'
  BY DEF MapInv
<1>3. FreshInv'
  BY DEF FreshInv
<1>4. OpenerInv'
  BY DEF OpenerInv, Mapped, Opening
<1>5. DoneInv'
  BY DEF DoneInv, Open, Mapped
<1>6. RightInv'
  BY DEF RightInv, Mapped
<1>7. OwnedInv'
  BY DEF OwnedInv, Owned, Mapped, Open, Opening
<1>8. QuietInv'
  BY DEF QuietInv, Potential, Mapped, Open
<1> QED
  BY <1>1, <1>2, <1>3, <1>4, <1>5, <1>6, <1>7, <1>8

\* IInv is preserved by the delete of a failed opener.
LEMMA DropFailedKeeps ==
  ASSUME IInv, NEW p \in Callers, DropFailed(p)
  PROVE  IInv'
<1> USE ConnPoolAssumption DEF IInv, TypeOK, DropFailed, Goto, Slot, Delete
<1>1. TypeOK'
  BY DEF OpenerInv, FreshInv, PCs, Opening, Returned
<1>2. MapInv'
  BY DEF MapInv
<1>3. FreshInv'
  BY DEF FreshInv, MapInv, OpenerInv, Opening, Mapped
<1>4. OpenerInv'
  BY DEF OpenerInv, Mapped, Opening
<1>5. DoneInv'
  BY DEF DoneInv, Open, Mapped
<1>6. RightInv'
  BY DEF RightInv, OpenerInv, Mapped, Opening
<1>7. OwnedInv'
  BY DEF OwnedInv, OpenerInv, Owned, Mapped, Open, Opening
<1>8. QuietInv'
  BY DEF QuietInv, OpenerInv, MapInv, FreshInv, Potential, Mapped, Open,
         Opening
<1> QED
  BY <1>1, <1>2, <1>3, <1>4, <1>5, <1>6, <1>7, <1>8

\* IInv is preserved by a failed opener closing done.
LEMMA ReportFailedKeeps ==
  ASSUME IInv, NEW p \in Callers, ReportFailed(p)
  PROVE  IInv'
<1> USE ConnPoolAssumption DEF IInv, TypeOK, ReportFailed, Goto, Slot
<1>1. TypeOK'
  BY DEF OpenerInv, PCs, Opening, Returned
<1>2. MapInv'
  BY DEF MapInv
<1>3. FreshInv'
  BY DEF FreshInv
<1>4. OpenerInv'
  BY DEF OpenerInv, Mapped, Opening
<1>5. DoneInv'
  BY DEF DoneInv, OpenerInv, Open, Mapped, Opening
<1>6. RightInv'
  BY DEF RightInv, Mapped
<1>7. OwnedInv'
  BY DEF OwnedInv, OpenerInv, Owned, Mapped, Open, Opening
<1>8. QuietInv'
  BY DEF QuietInv, Potential, Mapped, Open
<1> QED
  BY <1>1, <1>2, <1>3, <1>4, <1>5, <1>6, <1>7, <1>8

\* IInv is preserved by the re-check after an open, both branches.
LEMMA RecheckKeeps ==
  ASSUME IInv, NEW p \in Callers, Recheck(p)
  PROVE  IInv'
<1> USE ConnPoolAssumption DEF IInv, TypeOK, Recheck, Goto, Slot, Delete,
       Evicted
<1>1. TypeOK'
  BY DEF OpenerInv, FreshInv, PCs, Opening, Returned
<1>2. MapInv'
  BY DEF MapInv
<1>3. FreshInv'
  BY DEF FreshInv, MapInv, OpenerInv, Opening, Mapped
<1>4. OpenerInv'
  BY DEF OpenerInv, Mapped, Opening
<1>5. DoneInv'
  BY DEF DoneInv, Open, Mapped
<1>6. RightInv'
  BY DEF RightInv, OpenerInv, Mapped, Opening
<1>7. OwnedInv'
  BY DEF OwnedInv, RightInv, OpenerInv, DoneInv, FreshInv, MapInv, Owned,
         Mapped, Open, Opening
<1>8. QuietInv'
  BY DEF QuietInv, OpenerInv, MapInv, FreshInv, Potential, Mapped, Open,
         Opening
<1> QED
  BY <1>1, <1>2, <1>3, <1>4, <1>5, <1>6, <1>7, <1>8

\* IInv is preserved by an evicted opener closing its connection.
LEMMA CloseEvictedKeeps ==
  ASSUME IInv, NEW p \in Callers, CloseEvicted(p)
  PROVE  IInv'
<1> USE ConnPoolAssumption DEF IInv, TypeOK, CloseEvicted, Goto, Slot
<1>1. TypeOK'
  BY DEF OpenerInv, PCs, Opening, Returned
<1>2. MapInv'
  BY DEF MapInv
<1>3. FreshInv'
  BY DEF FreshInv
<1>4. OpenerInv'
  BY DEF OpenerInv, Mapped, Opening
<1>5. DoneInv'
  BY DEF DoneInv, OpenerInv, Open, Mapped, Opening
<1>6. RightInv'
  BY DEF RightInv, OpenerInv, Mapped, Opening
<1>7. OwnedInv'
  BY DEF OwnedInv, Owned, Mapped, Open
<1>8. QuietInv'
  BY DEF QuietInv, OpenerInv, Potential, Mapped, Open, Opening
<1> QED
  BY <1>1, <1>2, <1>3, <1>4, <1>5, <1>6, <1>7, <1>8

\* IInv is preserved by an opener publishing its store.
LEMMA PublishKeeps ==
  ASSUME IInv, NEW p \in Callers, Publish(p)
  PROVE  IInv'
<1> USE ConnPoolAssumption DEF IInv, TypeOK, Publish, Goto, Slot
<1>1. TypeOK'
  BY DEF OpenerInv, PCs, Opening, Returned
<1>2. MapInv'
  BY DEF MapInv
<1>3. FreshInv'
  BY DEF FreshInv
<1>4. OpenerInv'
  BY DEF OpenerInv, Mapped, Opening
<1>5. DoneInv'
  BY DEF DoneInv, OpenerInv, Open, Mapped, Opening
<1>6. RightInv'
  BY DEF RightInv, OpenerInv, Mapped, Opening
<1>7. OwnedInv'
  BY DEF OwnedInv, Owned, Mapped, Open
<1>8. QuietInv'
  BY DEF QuietInv, OpenerInv, Potential, Mapped, Open, Opening
<1> QED
  BY <1>1, <1>2, <1>3, <1>4, <1>5, <1>6, <1>7, <1>8

\* IInv is preserved by a joined caller returning.
LEMMA WaitKeeps ==
  ASSUME IInv, NEW p \in Callers, Wait(p)
  PROVE  IInv'
<1> USE ConnPoolAssumption DEF IInv, TypeOK, Wait, Goto, Slot, Returned
<1>1. TypeOK'
  BY DEF PCs, Opening
<1>2. MapInv'
  BY DEF MapInv
<1>3. FreshInv'
  BY DEF FreshInv
<1>4. OpenerInv'
  BY DEF OpenerInv, DoneInv, Mapped, Opening
<1>5. DoneInv'
  BY DEF DoneInv, Open, Mapped
<1>6. RightInv'
  BY DEF RightInv, Mapped
<1>7. OwnedInv'
  BY DEF OwnedInv, Owned, Mapped, Open, Opening
<1>8. QuietInv'
  BY DEF QuietInv, Potential, Mapped, Open
<1> QED
  BY <1>1, <1>2, <1>3, <1>4, <1>5, <1>6, <1>7, <1>8

\* IInv is preserved by evict of an identity without a slot.
LEMMA EvictMissKeeps ==
  ASSUME IInv, NEW p \in Callers, NEW i \in EvictIds, EvictMiss(p, i)
  PROVE  IInv'
<1> USE ConnPoolAssumption DEF IInv, TypeOK, EvictMiss, Goto, Slot, Returned
<1>1. TypeOK'
  BY DEF PCs, Opening
<1>2. MapInv'
  BY DEF MapInv
<1>3. FreshInv'
  BY DEF FreshInv
<1>4. OpenerInv'
  BY DEF OpenerInv, Mapped, Opening
<1>5. DoneInv'
  BY DEF DoneInv, Open, Mapped
<1>6. RightInv'
  BY DEF RightInv, Mapped
<1>7. OwnedInv'
  BY DEF OwnedInv, Owned, Mapped, Open, Opening
<1>8. QuietInv'
  BY DEF QuietInv, Potential, Mapped, Open
<1> QED
  BY <1>1, <1>2, <1>3, <1>4, <1>5, <1>6, <1>7, <1>8

\* IInv is preserved by evict taking the slot out of the map.
LEMMA EvictTakeKeeps ==
  ASSUME IInv, NEW p \in Callers, NEW i \in EvictIds, EvictTake(p, i)
  PROVE  IInv'
<1> USE ConnPoolAssumption DEF IInv, TypeOK, EvictTake, Goto, Slot, Returned
<1>1. TypeOK'
  BY DEF PCs, Opening
<1>2. MapInv'
  BY DEF MapInv
<1>3. FreshInv'
  BY DEF FreshInv, MapInv
<1>4. OpenerInv'
  BY DEF OpenerInv, Mapped, Opening
<1>5. DoneInv'
  BY DEF DoneInv, Open, Mapped
<1>6. RightInv'
  BY DEF RightInv, OpenerInv, DoneInv, FreshInv, MapInv, Mapped, Open, Opening
<1>7. OwnedInv'
  BY DEF OwnedInv, Owned, Mapped, Open, Opening
<1>8. QuietInv'
  BY DEF QuietInv, MapInv, Potential, Mapped, Open
<1> QED
  BY <1>1, <1>2, <1>3, <1>4, <1>5, <1>6, <1>7, <1>8

\* IInv is preserved by evict closing the store it took.
LEMMA EvictCloseKeeps ==
  ASSUME IInv, NEW p \in Callers, EvictClose(p)
  PROVE  IInv'
<1> USE ConnPoolAssumption DEF IInv, TypeOK, EvictClose, Goto, Slot
<1>1. TypeOK'
  BY DEF PCs, Opening, Returned
<1>2. MapInv'
  BY DEF MapInv
<1>3. FreshInv'
  BY DEF FreshInv
<1>4. OpenerInv'
  BY DEF OpenerInv, Mapped, Opening
<1>5. DoneInv'
  BY DEF DoneInv, Open, Mapped
<1>6. RightInv'
  BY DEF RightInv, Mapped
<1>7. OwnedInv'
  BY DEF OwnedInv, RightInv, OpenerInv, DoneInv, FreshInv, MapInv, Owned,
         Mapped, Open, Opening
<1>8. QuietInv'
  BY DEF QuietInv, Potential, Mapped, Open
<1> QED
  BY <1>1, <1>2, <1>3, <1>4, <1>5, <1>6, <1>7, <1>8

\* IInv is preserved by Close taking all slots out of the map.
LEMMA CloseTakeKeeps ==
  ASSUME IInv, NEW p \in Callers, CloseTake(p)
  PROVE  IInv'
<1> USE ConnPoolAssumption DEF IInv, TypeOK, CloseTake, Goto, Slot, Returned,
       Cached
<1>1. TypeOK'
  BY DEF PCs, Opening
<1>2. MapInv'
  BY DEF MapInv
<1>3. FreshInv'
  BY DEF FreshInv, MapInv
<1>4. OpenerInv'
  BY DEF OpenerInv, Mapped, Opening
<1>5. DoneInv'
  BY DEF DoneInv, Open, Mapped
<1>6. RightInv'
  BY DEF RightInv, OpenerInv, DoneInv, FreshInv, MapInv, Mapped, Open, Opening
<1>7. OwnedInv'
  BY DEF OwnedInv, RightInv, OpenerInv, DoneInv, FreshInv, MapInv, Owned,
         Mapped, Open, Opening
<1>8. QuietInv'
  BY DEF QuietInv, Potential, Mapped, Open
<1> QED
  BY <1>1, <1>2, <1>3, <1>4, <1>5, <1>6, <1>7, <1>8

\* IInv is preserved by one iteration of Close.
LEMMA CloseOneKeeps ==
  ASSUME IInv, NEW p \in Callers, NEW s \in Slots, CloseOne(p, s)
  PROVE  IInv'
<1> USE ConnPoolAssumption DEF IInv, TypeOK, CloseOne, Goto, Slot
<1>1. TypeOK'
  BY DEF PCs, Opening, Returned
<1>2. MapInv'
  BY DEF MapInv
<1>3. FreshInv'
  BY DEF FreshInv
<1>4. OpenerInv'
  BY DEF OpenerInv, Mapped, Opening
<1>5. DoneInv'
  BY DEF DoneInv, Open, Mapped
<1>6. RightInv'
  BY DEF RightInv, Mapped
<1>7. OwnedInv'
  BY DEF OwnedInv, RightInv, OpenerInv, DoneInv, FreshInv, MapInv, Owned,
         Mapped, Open, Opening
<1>8. QuietInv'
  BY DEF QuietInv, MapInv, Potential, Mapped, Open
<1> QED
  BY <1>1, <1>2, <1>3, <1>4, <1>5, <1>6, <1>7, <1>8

\* IInv is preserved by Close returning.
LEMMA CloseReturnsKeeps ==
  ASSUME IInv, NEW p \in Callers, CloseReturns(p)
  PROVE  IInv'
<1> USE ConnPoolAssumption DEF IInv, TypeOK, CloseReturns, Goto, Slot,
       Returned
<1>1. TypeOK'
  BY DEF PCs, Opening
<1>2. MapInv'
  BY DEF MapInv
<1>3. FreshInv'
  BY DEF FreshInv
<1>4. OpenerInv'
  BY DEF OpenerInv, Mapped, Opening
<1>5. DoneInv'
  BY DEF DoneInv, Open, Mapped
<1>6. RightInv'
  BY DEF RightInv, Mapped
<1>7. OwnedInv'
  BY DEF OwnedInv, Owned, Mapped, Open, Opening
<1>8. QuietInv'
  BY DEF QuietInv, Potential, Mapped, Open
<1> QED
  BY <1>1, <1>2, <1>3, <1>4, <1>5, <1>6, <1>7, <1>8

-----------------------------------------------------------------------------
\* The initial pool, empty and open, satisfies the inductive invariant.
LEMMA InitIInv == Init => IInv
<1> SUFFICES ASSUME Init PROVE IInv
  OBVIOUS
<1> USE ConnPoolAssumption DEF Init
<1>1. TypeOK
  BY DEF TypeOK, PCs, Opening, Returned
<1>2. MapInv /\ FreshInv /\ OpenerInv
  BY DEF MapInv, FreshInv, OpenerInv, Opening
<1>3. DoneInv /\ RightInv
  BY DEF DoneInv, RightInv, Mapped
<1>4. OwnedInv /\ QuietInv
  BY DEF OwnedInv, QuietInv, Open, Potential
<1> QED
  BY <1>1, <1>2, <1>3, <1>4 DEF IInv

\* Every step of every goroutine preserves the inductive invariant.
LEMMA NextIInv == IInv /\ [Next]_vars => IInv'
<1> SUFFICES ASSUME IInv, [Next]_vars PROVE IInv'
  OBVIOUS
<1>1. CASE UNCHANGED vars
  BY <1>1 DEF vars, IInv, TypeOK, MapInv, FreshInv, OpenerInv, DoneInv,
              RightInv, OwnedInv, QuietInv, Mapped, Open, Owned, Potential
<1>2. ASSUME NEW p \in Callers, Continue(p) PROVE IInv'
  BY <1>2, OpenSucceedsKeeps, OpenFailsKeeps, DropFailedKeeps,
     ReportFailedKeeps, RecheckKeeps, CloseEvictedKeeps, PublishKeeps,
     WaitKeeps, EvictCloseKeeps, CloseOneKeeps, CloseReturnsKeeps
     DEF Continue
<1>3. ASSUME NEW p \in Callers, Begin(p) PROVE IInv'
  BY <1>3, OpenRejectedKeeps, OpenJoinKeeps, OpenMissKeeps, EvictMissKeeps,
     EvictTakeKeeps, CloseTakeKeeps, CloseReturnsKeeps
     DEF Begin
<1> QED
  BY <1>1, <1>2, <1>3 DEF Next

\* The invariant holds in every reachable state of the pool.
THEOREM PoolInvariant == Spec => []IInv
BY InitIInv, NextIInv, PTL DEF Spec

\* Type correctness: no field of the pool and no local of a goroutine ever
\* leaves its type, and Close never holds a nil slot.
THEOREM PoolTypeOK == Spec => []TypeOK
<1>1. IInv => TypeOK
  BY DEF IInv
<1> QED
  BY <1>1, PoolInvariant, PTL

\* No connection is closed twice, for any number of callers, evictors and
\* concurrent Close calls.
THEOREM PoolCloseOnce == Spec => []CloseOnce
<1>1. IInv => CloseOnce
  BY DEF IInv, RightInv, CloseOnce
<1> QED
  BY <1>1, PoolInvariant, PTL

\* Whatever the map holds and has finished opening is an open connection.
THEOREM PoolCachedUsable == Spec => []CachedUsable
<1>1. IInv => CachedUsable
  <2> SUFFICES ASSUME IInv, NEW i \in Ids, slots[i] # NoSlot,
                      slots[i] \in done
               PROVE  slots[i] \in store /\ Open(slots[i])
    BY DEF CachedUsable, Cached
  <2>1. slots[i] \in Slots /\ Mapped(slots[i])
    BY ConnPoolAssumption DEF IInv, TypeOK, MapInv, Mapped
  <2> QED
    BY <2>1 DEF IInv, DoneInv, RightInv, Open
<1> QED
  BY <1>1, PoolInvariant, PTL

\* An openOrGet that returns without an error returns a slot with a store.
THEOREM PoolOutcomeShared == Spec => []OutcomeShared
<1>1. IInv => OutcomeShared
  BY DEF IInv, OpenerInv, OutcomeShared, Slot
<1> QED
  BY <1>1, PoolInvariant, PTL

\* A stray delete by another slot's opener is the only way to lose an open
\* connection.
THEOREM PoolAccounted == Spec => []Accounted
<1>1. IInv => Accounted
  <2> SUFFICES ASSUME IInv, NEW s \in Slots, Open(s),
                      s \notin Cached \cup closing \cup stray
               PROVE  At(s, Opening \cup {"evict"}) # {}
    BY DEF Accounted
  <2>1. ~Mapped(s)
    BY ConnPoolAssumption DEF Cached, Mapped, IInv, TypeOK
  <2>2. PICK p \in Callers : mine[p] = s /\ pc[p] \in Opening \cup {"evict"}
    BY <2>1 DEF IInv, OwnedInv, Owned
  <2> QED
    BY <2>2 DEF At
<1> QED
  BY <1>1, PoolInvariant, PTL

\* For an identity nobody evicts a connection is never lost nor doubled.
THEOREM PoolOneOwnedConnection == Spec => []OneOwnedConnection
<1>1. IInv => OneOwnedConnection
  <2> SUFFICES ASSUME IInv, NEW s \in Slots, Open(s), sid[s] \notin EvictIds
               PROVE  /\ s \in Cached \cup closing \/ At(s, Opening) # {}
                      /\ \A t \in Slots : Open(t) /\ sid[t] = sid[s] => t = s
    BY DEF OneOwnedConnection
  <2>1. \A t \in Slots : Open(t) /\ sid[t] = sid[s] => t = s
    BY DEF IInv, QuietInv, Potential
  <2>2. s \notin stray /\ ~\E p \in Callers : pc[p] = "evict" /\ mine[p] = s
    BY DEF IInv, QuietInv
  <2>3. CASE Mapped(s)
    BY <2>1, <2>3, ConnPoolAssumption DEF Mapped, Cached, IInv, TypeOK
  <2>4. CASE ~Mapped(s) /\ s \notin closing
    <3>1. PICK p \in Callers : pc[p] \in Opening /\ mine[p] = s
      BY <2>2, <2>4 DEF IInv, OwnedInv, Owned
    <3> QED
      BY <2>1, <3>1 DEF At
  <2> QED
    BY <2>1, <2>3, <2>4
<1> QED
  BY <1>1, PoolInvariant, PTL

\* Retention: until Close, an entry handed out for an identity nobody evicts
\* is usable.
THEOREM PoolRetained == Spec => []Retained
<1>1. IInv => Retained
  BY DEF IInv, OpenerInv, DoneInv, QuietInv, Retained, Open, Slot
<1> QED
  BY <1>1, PoolInvariant, PTL

=============================================================================
