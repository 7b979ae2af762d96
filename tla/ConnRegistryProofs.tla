------------------------- MODULE ConnRegistryProofs -------------------------
(***************************************************************************)
(* Proofs for the connection registry: entries are addressed by unique ids *)
(* and acknowledged connections and dismissals survive failing saves,      *)
(* crashes and restarts - for any names, files and contents.               *)
(***************************************************************************)
EXTENDS ConnRegistry, TLAPS

\* What holds of any list the registry works with: every entry has the id its
\* key gives, and no two entries of one source have the same key.
KeyedBySource(list) ==
  \A e, f \in list : e.source = f.source /\ Key(e) = Key(f) => e = f
WellKeyed(list) ==
  /\ list \subseteq Entry
  /\ \A e \in list : e.id = entryID(e.source, Key(e))
  /\ KeyedBySource(list)

\* The file may hold entries without id, but no wrong ids.
DiskInv ==
  /\ disk.list \subseteq Entry
  /\ \A e \in disk.list : e.id \in {NoID, entryID(e.source, Key(e))}
  /\ KeyedBySource(disk.list)

\* What a running mutator will promise is true of the entries it set.
GrantInv ==
  /\ grant.kept \subseteq entries
  /\ \A p \in grant.buried : Tombstoned(p, entries)
  /\ pc \notin {"save", "rename"} => grant = NoGrant

IInv ==
  /\ TypeOK
  /\ WellKeyed(entries)
  /\ DiskInv
  /\ GrantInv
  /\ Durable
  /\ DismissalDurable

-----------------------------------------------------------------------------
\* Filling in a missing id changes neither the source nor the key, nor the
\* tombstone, and leaves an entry that has its id alone.
LEMMA BackfillEntry ==
  ASSUME NEW e \in Entry, e.id \in {NoID, entryID(e.source, Key(e))}
  PROVE  /\ Backfill(e) \in Entry
         /\ Backfill(e).id = entryID(e.source, Key(e))
         /\ Backfill(e).source = e.source
         /\ Key(Backfill(e)) = Key(e)
         /\ Backfill(e).path = e.path
         /\ Backfill(e).dismissed = e.dismissed
         /\ e.id # NoID => Backfill(e) = e
<1>1. CASE e \in ManualEntries
  BY <1>1 DEF Backfill, ManualEntries, Entry, Key, entryID, NoID
<1>2. CASE e \in AutoEntries
  BY <1>2 DEF Backfill, AutoEntries, Entry, Key, entryID, NoID
<1> QED
  BY <1>1, <1>2 DEF Entry

\* The id of an entry's own key is never the missing id.
LEMMA HasID ==
  ASSUME NEW e \in Entry, e.id = entryID(e.source, Key(e))
  PROVE  e.id # NoID
<1>1. e.source \in {"manual", "auto"}
  BY DEF Entry, ManualEntries, AutoEntries
<1>2. \A s, k : entryID(s, k) = NoID => s = "none"
  BY DEF entryID, NoID
<1> QED
  BY <1>1, <1>2

\* Equal ids mean equal keys: the two sources are hashed apart.
LEMMA WellKeyedUnique ==
  ASSUME NEW list, WellKeyed(list)
  PROVE  \A e, f \in list : e.id = f.id => e = f
BY DEF WellKeyed, KeyedBySource, entryID

\* A list that was saved is loaded as it was.
LEMMA LoadSaved ==
  ASSUME NEW list, WellKeyed(list)
  PROVE  LoadRegistry(File(list)) = list
<1>1. \A e \in list : Backfill(e) = e
  BY BackfillEntry, HasID DEF WellKeyed
<1> QED
  BY <1>1 DEF LoadRegistry, File

\* Loading a file gives a well keyed list.
LEMMA LoadWellKeyed ==
  ASSUME DiskInv
  PROVE  WellKeyed(LoadRegistry(disk))
<1>1. CASE ~disk.parses
  BY <1>1 DEF LoadRegistry, WellKeyed, KeyedBySource
<1>2. CASE disk.parses
  <2>1. LoadRegistry(disk) = {Backfill(e) : e \in disk.list}
    BY <1>2 DEF LoadRegistry
  <2>2. \A e \in disk.list :
          /\ Backfill(e) \in Entry
          /\ Backfill(e).id = entryID(e.source, Key(e))
          /\ Backfill(e).source = e.source
          /\ Key(Backfill(e)) = Key(e)
    BY BackfillEntry DEF DiskInv
  <2>3. KeyedBySource(LoadRegistry(disk))
    BY <2>1, <2>2 DEF KeyedBySource, DiskInv
  <2> QED
    BY <2>1, <2>2, <2>3 DEF WellKeyed
<1> QED
  BY <1>1, <1>2

\* Well keyed lists are lists of entries with an id.
LEMMA WellKeyedKnown ==
  ASSUME NEW list, WellKeyed(list)
  PROVE  list \subseteq Known
BY HasID DEF WellKeyed, Known

-----------------------------------------------------------------------------
\* The first start: whatever file is found.
LEMMA InitIInv == Init => IInv
<1> SUFFICES ASSUME Init PROVE IInv
  OBVIOUS
<1> USE DEF Init
<1>1. DiskInv /\ disk.parses \in BOOLEAN
  <2>1. PICK list \in FirstFiles \cup {{}} :
          disk = File(list) \/ disk = Malformed
    OBVIOUS
  <2>2. CASE disk = File(list)
    BY <2>1, <2>2, ConnRegistryAssumption DEF DiskInv, File, KeyedBySource
  <2>3. CASE disk = Malformed
    BY <2>3 DEF DiskInv, Malformed, KeyedBySource
  <2> QED
    BY <2>1, <2>2, <2>3
<1>2. WellKeyed(entries)
  BY <1>1, LoadWellKeyed
<1>3. TypeOK
  BY <1>1, <1>2, WellKeyedKnown DEF TypeOK, NoGrant, DiskInv
<1>4. GrantInv
  BY DEF GrantInv, NoGrant
<1>5. Durable /\ DismissalDurable
  BY DEF Durable, DismissalDurable
<1> QED
  BY <1>1, <1>2, <1>3, <1>4, <1>5 DEF IInv

\* A mutator keeps the invariant if the list it sets is well keyed, loses only
\* what it touched, bears out its promises and keeps the tombstones promised.
LEMMA MutateKeeps ==
  ASSUME IInv, NEW list, NEW touched, NEW g, Mutate(list, touched, g),
         WellKeyed(list),
         entries \ touched \subseteq list,
         g.kept \subseteq list, g.kept \subseteq ManualEntries,
         g.buried \subseteq Paths,
         \A p \in g.buried : Tombstoned(p, list),
         buried' \subseteq buried,
         \A p \in buried' : Tombstoned(p, list)
  PROVE  IInv'
<1> USE DEF Mutate, IInv
<1>1. TypeOK'
  BY WellKeyedKnown DEF TypeOK
<1>2. WellKeyed(entries)' /\ DiskInv'
  BY DEF DiskInv, WellKeyed
<1>3. GrantInv'
  BY DEF GrantInv, Tombstoned
<1>4. Durable'
  BY DEF Durable, LoadRegistry
<1>5. DismissalDurable'
  BY DEF DismissalDurable, Tombstoned, LoadRegistry
<1> QED
  BY <1>1, <1>2, <1>3, <1>4, <1>5

\* A mutator that returns early changes nothing.
LEMMA ReturnKeeps ==
  ASSUME IInv, Return, UNCHANGED buried
  PROVE  IInv'
BY DEF IInv, Return, TypeOK, WellKeyed, DiskInv, GrantInv, Durable,
       DismissalDurable, Tombstoned, LoadRegistry

\* What the invariant says of a tombstone in memory while the process runs.
LEMMA InMemory ==
  ASSUME IInv, pc = "ready"
  PROVE  /\ \A p \in buried : Tombstoned(p, entries)
         /\ WellKeyed(entries)
BY DEF IInv, DismissalDurable

\* UpsertAuto keeps the invariant; a refresh keeps the tombstone.
LEMMA UpsertAutoKeeps ==
  ASSUME IInv, NEW p \in Paths, NEW n \in Names, NEW m \in Metas,
         UpsertAuto(p, n, m)
  PROVE  IInv'
<1> DEFINE cur == {e \in entries : e.source = "auto" /\ e.path = p}
           new(d) == [source |-> "auto", name |-> n, path |-> p, meta |-> m,
                      dismissed |-> d, id |-> entryID("auto", p)]
<1>1. CASE Return /\ UNCHANGED buried
  BY <1>1, ReturnKeeps
<1>2. ASSUME NEW e \in cur, UNCHANGED buried,
             Mutate((entries \ {e}) \cup {new(e.dismissed)}, {e}, NoGrant)
      PROVE  IInv'
  <2> DEFINE list == (entries \ {e}) \cup {new(e.dismissed)}
  <2>1. WellKeyed(entries) /\ \A q \in buried : Tombstoned(q, entries)
    BY <1>2, InMemory DEF Mutate
  <2>2. new(e.dismissed) \in Entry /\ e.dismissed \in BOOLEAN
    BY <2>1 DEF WellKeyed, Entry, ManualEntries, AutoEntries, entryID
  <2>3. WellKeyed(list)
    <3>1. /\ Key(e) = p
          /\ Key(new(e.dismissed)) = p
          /\ new(e.dismissed).source = "auto"
          /\ new(e.dismissed).id = entryID("auto", p)
      BY DEF Key
    <3>2. \A f \in entries \ {e} : ~(f.source = "auto" /\ Key(f) = p)
      BY <2>1, <3>1 DEF WellKeyed, KeyedBySource
    <3> HIDE DEF new
    <3> QED
      BY <2>1, <2>2, <3>1, <3>2 DEF WellKeyed, KeyedBySource
  <2>4. \A q \in buried : Tombstoned(q, list)
    <3> SUFFICES ASSUME NEW q \in buried PROVE Tombstoned(q, list)
      OBVIOUS
    <3>1. PICK f \in entries : f.source = "auto" /\ f.path = q /\ f.dismissed
      BY <2>1 DEF Tombstoned
    <3>2. CASE f # e
      BY <3>1, <3>2 DEF Tombstoned
    <3>3. CASE f = e
      <4>1. /\ new(e.dismissed) \in list
            /\ new(e.dismissed).source = "auto"
            /\ new(e.dismissed).path = q
            /\ new(e.dismissed).dismissed
        BY <3>1, <3>3
      <4> QED
        BY <4>1 DEF Tombstoned
    <3> QED
      BY <3>2, <3>3
  <2> HIDE DEF list
  <2>5. Mutate(list, {e}, NoGrant) /\ entries \ {e} \subseteq list
    BY <1>2 DEF list
  <2> QED
    BY <1>2, <2>3, <2>4, <2>5, MutateKeeps DEF NoGrant
<1>3. ASSUME cur = {}, UNCHANGED buried,
             Mutate(entries \cup {new(FALSE)}, {}, NoGrant)
      PROVE  IInv'
  <2> DEFINE list == entries \cup {new(FALSE)}
  <2>1. WellKeyed(entries) /\ \A q \in buried : Tombstoned(q, entries)
    BY <1>3, InMemory DEF Mutate
  <2>2. new(FALSE) \in Entry
    BY DEF Entry, AutoEntries, entryID
  <2>3. WellKeyed(list)
    <3>1. /\ Key(new(FALSE)) = p
          /\ new(FALSE).source = "auto"
          /\ new(FALSE).id = entryID("auto", p)
      BY DEF Key
    <3>2. \A f \in entries : ~(f.source = "auto" /\ Key(f) = p)
      BY <1>3 DEF Key
    <3> HIDE DEF new
    <3> QED
      BY <2>1, <2>2, <3>1, <3>2 DEF WellKeyed, KeyedBySource
  <2>4. \A q \in buried : Tombstoned(q, list)
    BY <2>1 DEF Tombstoned
  <2> HIDE DEF list
  <2>5. Mutate(list, {}, NoGrant) /\ entries \ {} \subseteq list
    BY <1>3 DEF list
  <2> QED
    BY <1>3, <2>3, <2>4, <2>5, MutateKeeps DEF NoGrant
<1> QED
  BY <1>1, <1>2, <1>3 DEF UpsertAuto

\* Manual entries with the same name are the same entry, and have its id.
LEMMA ManualEntryShape ==
  ASSUME NEW n \in Names, NEW m \in Metas
  PROVE  /\ ManualEntry(n, m) \in ManualEntries
         /\ ManualEntry(n, m) \in Entry
         /\ ManualEntry(n, m).source = "manual"
         /\ ManualEntry(n, m).id = entryID("manual", n)
         /\ Key(ManualEntry(n, m)) = n
BY DEF ManualEntry, ManualEntries, Entry, Key, entryID

\* Add keeps the invariant.
LEMMA AddKeeps ==
  ASSUME IInv, NEW n \in Names, NEW m \in Metas, Add(n, m)
  PROVE  IInv'
<1> DEFINE new == ManualEntry(n, m)
           list == entries \cup {new}
           g == [kept |-> {new}, buried |-> {}]
<1>1. CASE Return
  BY <1>1, ReturnKeeps DEF Add
<1>2. CASE ~Return
  <2>1. Mutate(list, {}, g) /\ ManualNamed(n) = {} /\ UNCHANGED buried
    BY <1>2 DEF Add
  <2>2. WellKeyed(entries) /\ \A q \in buried : Tombstoned(q, entries)
    BY <2>1, InMemory DEF Mutate
  <2>3. \A f \in entries : ~(f.source = "manual" /\ Key(f) = n)
    BY <2>1 DEF ManualNamed, Key
  <2>4. WellKeyed(list)
    BY <2>2, <2>3, ManualEntryShape DEF WellKeyed, KeyedBySource
  <2>5. \A q \in buried : Tombstoned(q, list)
    BY <2>2 DEF Tombstoned
  <2>6. g.kept = {new} /\ g.buried = {} /\ new \in list
        /\ entries \ {} \subseteq list
    OBVIOUS
  <2> HIDE DEF list, g
  <2> QED
    BY <2>1, <2>4, <2>5, <2>6, ManualEntryShape, MutateKeeps
<1> QED
  BY <1>1, <1>2

\* Update keeps the invariant: a rename never meets another entry's name.
LEMMA UpdateKeeps ==
  ASSUME IInv, NEW id \in IDs, NEW n \in Names, NEW m \in Metas,
         Update(id, n, m)
  PROVE  IInv'
<1> DEFINE new == ManualEntry(n, m)
           g == [kept |-> {new}, buried |-> {}]
<1>1. CASE Return
  BY <1>1, ReturnKeeps DEF Update
<1>2. CASE ~Return
  <2>1. PICK e \in entries :
          /\ e.source = "manual"
          /\ ManualNamed(n) \ {e} = {}
          /\ Mutate((entries \ {e}) \cup {new}, {e}, g)
          /\ UNCHANGED buried
    BY <1>2 DEF Update, ById
  <2> DEFINE list == (entries \ {e}) \cup {new}
  <2>2. WellKeyed(entries) /\ \A q \in buried : Tombstoned(q, entries)
    BY <2>1, InMemory DEF Mutate
  <2>3. \A f \in entries \ {e} : ~(f.source = "manual" /\ Key(f) = n)
    BY <2>1 DEF ManualNamed, Key
  <2>4. WellKeyed(list)
    BY <2>2, <2>3, ManualEntryShape DEF WellKeyed, KeyedBySource
  <2>5. \A q \in buried : Tombstoned(q, list)
    BY <2>1, <2>2 DEF Tombstoned
  <2>6. g.kept = {new} /\ g.buried = {} /\ new \in list
        /\ entries \ {e} \subseteq list
    OBVIOUS
  <2>7. Mutate(list, {e}, g)
    BY <2>1
  <2> HIDE DEF list, g
  <2> QED
    BY <2>1, <2>4, <2>5, <2>6, <2>7, ManualEntryShape, MutateKeeps
<1> QED
  BY <1>1, <1>2

\* Setting or clearing a tombstone changes neither source nor key nor id.
LEMMA Flagged ==
  ASSUME NEW e \in Entry, e.source = "auto", NEW d \in BOOLEAN
  PROVE  /\ [e EXCEPT !.dismissed = d] \in Entry
         /\ [e EXCEPT !.dismissed = d].source = "auto"
         /\ [e EXCEPT !.dismissed = d].path = e.path
         /\ [e EXCEPT !.dismissed = d].id = e.id
         /\ [e EXCEPT !.dismissed = d].dismissed = d
         /\ Key([e EXCEPT !.dismissed = d]) = Key(e)
BY DEF Entry, ManualEntries, AutoEntries, Key

\* The only other source is manual.
LEMMA Sources == \A e \in Entry : e.source \in {"manual", "auto"}
BY DEF Entry, ManualEntries, AutoEntries

\* Delete keeps the invariant: tombstones stay, and the new one is promised.
LEMMA DeleteKeeps ==
  ASSUME IInv, NEW id \in IDs, Delete(id)
  PROVE  IInv'
<1> DEFINE autos == {e \in ById(id) : e.source = "auto"}
           Bury(e) == [e EXCEPT !.dismissed = TRUE]
           list == (entries \ ById(id)) \cup {Bury(e) : e \in autos}
           g == [kept |-> {}, buried |-> {e.path : e \in autos}]
<1>1. CASE Return
  BY <1>1, ReturnKeeps DEF Delete
<1>2. CASE ~Return
  <2>1. Mutate(list, ById(id), g) /\ UNCHANGED buried
    BY <1>2 DEF Delete
  <2>2. WellKeyed(entries) /\ \A q \in buried : Tombstoned(q, entries)
    BY <2>1, InMemory DEF Mutate
  <2>3. \A e \in autos : /\ e \in entries /\ e \in Entry /\ e.source = "auto"
                         /\ e.path \in Paths
    BY <2>2 DEF ById, WellKeyed, Entry, ManualEntries, AutoEntries
  <2>4. \A e \in autos :
          /\ Bury(e) \in Entry /\ Bury(e).source = e.source
          /\ Bury(e).path = e.path /\ Bury(e).id = e.id
          /\ Bury(e).dismissed = TRUE /\ Key(Bury(e)) = Key(e)
    BY <2>3, Flagged
  <2> HIDE DEF Bury
  <2>5. WellKeyed(list)
    BY <2>2, <2>3, <2>4 DEF WellKeyed, KeyedBySource
  <2>6. \A e \in autos : Tombstoned(e.path, list)
    BY <2>3, <2>4 DEF Tombstoned
  <2>7. \A q \in buried : Tombstoned(q, list)
    <3> SUFFICES ASSUME NEW q \in buried PROVE Tombstoned(q, list)
      OBVIOUS
    <3>1. PICK f \in entries : f.source = "auto" /\ f.path = q /\ f.dismissed
      BY <2>2 DEF Tombstoned
    <3>2. CASE f \in ById(id)
      BY <3>1, <3>2, <2>6
    <3>3. CASE f \notin ById(id)
      BY <3>1, <3>3 DEF Tombstoned
    <3> QED
      BY <3>2, <3>3
  <2>8. /\ g.kept = {} /\ g.buried = {e.path : e \in autos}
        /\ g.buried \subseteq Paths
        /\ \A q \in g.buried : Tombstoned(q, list)
        /\ entries \ ById(id) \subseteq list
    BY <2>3, <2>6
  <2> HIDE DEF list, g, autos
  <2> QED
    BY <2>1, <2>5, <2>7, <2>8, MutateKeeps
<1> QED
  BY <1>1, <1>2

\* Undismiss keeps the invariant: only the tombstone it clears is given up.
LEMMA UndismissKeeps ==
  ASSUME IInv, NEW p \in Paths, Undismiss(p)
  PROVE  IInv'
<1> DEFINE Raise(e) == [e EXCEPT !.dismissed = FALSE]
<1>1. CASE Return /\ UNCHANGED buried
  BY <1>1, ReturnKeeps
<1>2. ASSUME NEW e \in entries, e.source = "auto", e.path = p,
             Mutate((entries \ {e}) \cup {Raise(e)}, {e}, NoGrant),
             buried' = buried \ {p}
      PROVE  IInv'
  <2> DEFINE list == (entries \ {e}) \cup {Raise(e)}
  <2>1. WellKeyed(entries) /\ \A q \in buried : Tombstoned(q, entries)
    BY <1>2, InMemory DEF Mutate
  <2>2. /\ Raise(e) \in Entry /\ Raise(e).source = e.source
        /\ Raise(e).id = e.id /\ Key(Raise(e)) = Key(e)
    BY <1>2, <2>1, Flagged DEF WellKeyed
  <2> HIDE DEF Raise
  <2>3. WellKeyed(list)
    BY <2>1, <2>2 DEF WellKeyed, KeyedBySource
  <2>4. \A q \in buried' : Tombstoned(q, list)
    BY <1>2, <2>1 DEF Tombstoned
  <2>5. Mutate(list, {e}, NoGrant) /\ entries \ {e} \subseteq list
        /\ buried' \subseteq buried
    BY <1>2
  <2> HIDE DEF list
  <2> QED
    BY <2>3, <2>4, <2>5, MutateKeeps DEF NoGrant
<1> QED
  BY <1>1, <1>2 DEF Undismiss

-----------------------------------------------------------------------------
\* The steps of save keep the invariant: until the rename the file is the old
\* one, after it the file holds exactly what is in memory.
LEMMA SaveKeeps ==
  ASSUME IInv, SaveTemp \/ SaveFails \/ SaveRename
  PROVE  IInv'
<1>1. CASE SaveTemp
  BY <1>1 DEF SaveTemp, IInv, TypeOK, WellKeyed, DiskInv, GrantInv, Durable,
              DismissalDurable, Tombstoned, LoadRegistry
<1>2. CASE SaveFails
  BY <1>2 DEF SaveFails, NoGrant, IInv, TypeOK, WellKeyed, DiskInv, GrantInv,
              Durable, DismissalDurable, Tombstoned, LoadRegistry
<1>3. CASE SaveRename
  <2> USE <1>3 DEF SaveRename, IInv
  <2>1. LoadRegistry(disk') = entries
    BY LoadSaved
  <2>2. disk'.list = entries /\ disk'.parses = TRUE
    BY DEF File
  <2>3. TypeOK'
    BY <2>2 DEF TypeOK, NoGrant, WellKeyed
  <2>4. WellKeyed(entries)' /\ DiskInv'
    BY <2>2 DEF WellKeyed, DiskInv
  <2>5. GrantInv'
    BY DEF GrantInv, NoGrant
  <2>6. Durable'
    BY <2>1 DEF Durable, GrantInv, LoadRegistry
  <2>7. DismissalDurable'
    <3>1. \A q \in buried' : Tombstoned(q, entries)
      BY DEF DismissalDurable, GrantInv
    <3> QED
      BY <2>1, <3>1 DEF DismissalDurable, LoadRegistry, Tombstoned
  <2> QED
    BY <2>3, <2>4, <2>5, <2>6, <2>7
<1> QED
  BY <1>1, <1>2, <1>3

\* Dying and starting again keep the invariant.
LEMMA CrashRestartKeeps ==
  ASSUME IInv, Crash \/ Restart
  PROVE  IInv'
<1>1. CASE Crash
  BY <1>1 DEF Crash, NoGrant, IInv, TypeOK, WellKeyed, KeyedBySource, DiskInv,
              GrantInv, Durable, DismissalDurable, Tombstoned, LoadRegistry
<1>2. CASE Restart
  <2> USE <1>2 DEF Restart, IInv
  <2>1. WellKeyed(entries)'
    <3>1. WellKeyed(LoadRegistry(disk)) /\ WellKeyed({})
      BY LoadWellKeyed DEF WellKeyed, KeyedBySource
    <3>2. entries' \in {LoadRegistry(disk), {}}
      OBVIOUS
    <3> QED
      BY <3>1, <3>2 DEF WellKeyed, KeyedBySource
  <2>2. TypeOK'
    <3>1. entries' \subseteq Known
      BY <2>1, WellKeyedKnown
    <3> QED
      BY <3>1 DEF TypeOK
  <2>3. DiskInv'
    BY DEF DiskInv
  <2>4. GrantInv'
    BY DEF GrantInv, NoGrant
  <2>5. Durable'
    BY DEF Durable, LoadRegistry
  <2>6. DismissalDurable'
    BY DEF DismissalDurable, Tombstoned, LoadRegistry
  <2> QED
    BY <2>1, <2>2, <2>3, <2>4, <2>5, <2>6
<1> QED
  BY <1>1, <1>2

\* Every step keeps the invariant.
LEMMA NextIInv == IInv /\ [Next]_vars => IInv'
<1> SUFFICES ASSUME IInv, [Next]_vars PROVE IInv'
  OBVIOUS
<1>1. CASE UNCHANGED vars
  BY <1>1 DEF vars, IInv, TypeOK, WellKeyed, DiskInv, GrantInv, Durable,
              DismissalDurable, Tombstoned, LoadRegistry
<1>2. CASE Next
  BY <1>2, UpsertAutoKeeps, AddKeeps, UpdateKeeps, DeleteKeeps, UndismissKeeps,
     SaveKeeps, CrashRestartKeeps DEF Next
<1> QED
  BY <1>1, <1>2

-----------------------------------------------------------------------------
\* The invariant holds in every reachable state.
THEOREM RegistryInvariant == Spec => []IInv
BY InitIInv, NextIInv, PTL DEF Spec

\* Entries in memory are well formed and carry an id, whatever was loaded.
THEOREM RegistryTypeOK == Spec => []TypeOK
<1>1. IInv => TypeOK
  BY DEF IInv
<1> QED
  BY <1>1, RegistryInvariant, PTL

\* No two entries share an id, across renames, re-adds and restarts.
THEOREM RegistryUniqueIds == Spec => []UniqueIds
<1>1. IInv => UniqueIds
  BY WellKeyedUnique DEF IInv, UniqueIds
<1> QED
  BY <1>1, RegistryInvariant, PTL

\* An acknowledged manual connection is there until edited or deleted.
THEOREM RegistryDurable == Spec => []Durable
<1>1. IInv => Durable
  BY DEF IInv
<1> QED
  BY <1>1, RegistryInvariant, PTL

\* An acknowledged dismissal holds until Undismiss.
THEOREM RegistryDismissalDurable == Spec => []DismissalDurable
<1>1. IInv => DismissalDurable
  BY DEF IInv
<1> QED
  BY <1>1, RegistryInvariant, PTL
=============================================================================
