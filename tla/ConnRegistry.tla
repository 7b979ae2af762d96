---------------------------- MODULE ConnRegistry ----------------------------
(***************************************************************************)
(* The connection registry of cmd/registry.go: the list of known stores,   *)
(* held in memory and persisted in connections.yaml.                       *)
(*                                                                         *)
(* Every mutator runs under r.mu, changes the in-memory entries and then   *)
(* calls save, which writes a temporary file and renames it over the       *)
(* target.  save may fail before the rename, and the process may die at    *)
(* any point; a new process starts with LoadRegistry.                      *)
(*                                                                         *)
(* An entry is a record; Type and Metadata are one value (meta), UpdatedAt *)
(* (used only to order the panel) is left out.  The list is a set: no      *)
(* operation depends on its order, and UniqueIds shows that no operation   *)
(* could meet two entries it takes for the same one.                       *)
(***************************************************************************)
EXTENDS Naturals, FiniteSets

CONSTANTS
  Names,      \* connection names
  Paths,      \* normalized paths of component files
  Metas,      \* type and inline metadata of a connection
  NoPath,     \* the Path of a manual entry (one written by hand may have one)
  FirstFiles  \* entries of a file found at the first start: written by hand or
              \* by a version that wrote no ids

\* entryID: the two kinds of keys are hashed apart.
entryID(source, key) == <<source, key>>
NoID == <<"none", NoPath>>

ManualEntries ==
  [source : {"manual"}, name : Names, path : Paths \cup {NoPath}, meta : Metas,
   dismissed : {FALSE}, id : {entryID("manual", n) : n \in Names} \cup {NoID}]
AutoEntries ==
  [source : {"auto"}, name : Names, path : Paths, meta : Metas,
   dismissed : BOOLEAN, id : {entryID("auto", p) : p \in Paths} \cup {NoID}]
Entry == ManualEntries \cup AutoEntries

\* What identifies an entry whose id is missing.
Key(e) == IF e.source = "manual" THEN e.name ELSE e.path

ASSUME ConnRegistryAssumption ==
  /\ \A list \in FirstFiles :
       /\ list \subseteq Entry
       /\ \A e \in list : e.id = NoID
       /\ \A e, f \in list : e.source = f.source /\ Key(e) = Key(f) => e = f
  /\ NoPath \notin Paths

VARIABLES
  entries,   \* r.entries
  disk,      \* connections.yaml: its entries, and whether it parses at all
  pc,        \* "ready", "save" or "rename" (r.mu held), "down"
  grant,     \* history: what the running mutator promises if it succeeds
  kept,      \* history: manual entries whose last change was acknowledged
  buried     \* history: paths whose dismissal was acknowledged

vars == <<entries, disk, pc, grant, kept, buried>>

NoGrant == [kept |-> {}, buried |-> {}]

File(list) == [parses |-> TRUE, list |-> list]
Malformed == [parses |-> FALSE, list |-> {}]

\* Mutant of Backfill: entries of older files keep their missing id.
BackfillNothing(e) == e

\* LoadRegistry: malformed contents give an empty registry, missing ids are
\* filled in.
Backfill(e) ==
  IF e.id = NoID THEN [e EXCEPT !.id = entryID(e.source, Key(e))] ELSE e
LoadRegistry(file) ==
  IF file.parses THEN {Backfill(e) : e \in file.list} ELSE {}

Init ==
  /\ disk \in {File(list) : list \in FirstFiles \cup {{}}} \cup {Malformed}
  /\ entries = LoadRegistry(disk)
  /\ pc = "ready"
  /\ grant = NoGrant
  /\ kept = {}
  /\ buried = {}

-----------------------------------------------------------------------------
\* A mutator that changes the list: set it, then save.  The promises about
\* `touched` end here; g is promised when the save succeeds.
Mutate(list, touched, g) ==
  /\ pc = "ready"
  /\ entries' = list
  /\ kept' = kept \ touched
  /\ grant' = g
  /\ pc' = "save"
  /\ UNCHANGED disk

\* A mutator that returns without saving.
Return ==
  /\ pc = "ready"
  /\ UNCHANGED <<entries, disk, pc, grant, kept>>

ManualNamed(n) == {e \in entries : e.source = "manual" /\ e.name = n}
ById(id) == {e \in entries : e.id = id}

\* Mutant of UpsertAuto: a refresh rewrites the whole entry, tombstone included.
UpsertAutoResurrects(p, n, m) ==
  LET cur == {e \in entries : e.source = "auto" /\ e.path = p}
      new == [source |-> "auto", name |-> n, path |-> p, meta |-> m,
              dismissed |-> FALSE, id |-> entryID("auto", p)]
  IN /\ UNCHANGED buried
     /\ \A e \in entries : e.source = "manual" => e.path # p
     /\ Mutate((entries \ cur) \cup {new}, cur, NoGrant)

\* UpsertAuto: skip if a manual entry has the path, or if nothing changed;
\* refresh the entry of the path, keeping its dismissed flag; or append.
UpsertAuto(p, n, m) ==
  LET cur == {e \in entries : e.source = "auto" /\ e.path = p}
      new(d) == [source |-> "auto", name |-> n, path |-> p, meta |-> m,
                 dismissed |-> d, id |-> entryID("auto", p)]
  IN /\ UNCHANGED buried
     /\ \/ \E e \in entries : e.source = "manual" /\ e.path = p /\ Return
        \/ /\ \A e \in entries : e.source = "manual" => e.path # p
           /\ \/ \E e \in cur : e = new(e.dismissed) /\ Return
              \/ \E e \in cur :
                   /\ e # new(e.dismissed)
                   /\ Mutate((entries \ {e}) \cup {new(e.dismissed)}, {e},
                             NoGrant)
              \/ cur = {} /\ Mutate(entries \cup {new(FALSE)}, {}, NoGrant)

ManualEntry(n, m) ==
  [source |-> "manual", name |-> n, path |-> NoPath, meta |-> m,
   dismissed |-> FALSE, id |-> entryID("manual", n)]

\* Add: a manual entry under a new name; os.ErrExist if the name is taken.
Add(n, m) ==
  /\ UNCHANGED buried
  /\ \/ ManualNamed(n) # {} /\ Return
     \/ /\ ManualNamed(n) = {}
        /\ Mutate(entries \cup {ManualEntry(n, m)}, {},
                  [kept |-> {ManualEntry(n, m)}, buried |-> {}])

\* Mutant of Update: a rename does not look for the name among other entries.
UpdateUnchecked(id, n, m) ==
  LET old == {e \in ById(id) : e.source = "manual"}
  IN /\ UNCHANGED buried
     /\ \/ old = {} /\ Return
        \/ \E e \in old :
             Mutate((entries \ {e}) \cup {ManualEntry(n, m)}, {e},
                    [kept |-> {ManualEntry(n, m)}, buried |-> {}])

\* Update: replace the manual entry with the id, under a possibly new name no
\* other manual entry has; the id is recomputed.
Update(id, n, m) ==
  LET old == {e \in ById(id) : e.source = "manual"}
  IN /\ UNCHANGED buried
     /\ \/ old = {} /\ Return
        \/ \E e \in old : ManualNamed(n) \ {e} # {} /\ Return
        \/ \E e \in old :
             /\ ManualNamed(n) \ {e} = {}
             /\ Mutate((entries \ {e}) \cup {ManualEntry(n, m)}, {e},
                       [kept |-> {ManualEntry(n, m)}, buried |-> {}])

\* Delete: a manual entry goes, an auto entry is kept as a tombstone.
Delete(id) ==
  LET autos == {e \in ById(id) : e.source = "auto"}
  IN /\ UNCHANGED buried
     /\ \/ ById(id) = {} /\ Return
        \/ /\ ById(id) # {}
           /\ Mutate((entries \ ById(id))
                       \cup {[e EXCEPT !.dismissed = TRUE] : e \in autos},
                     ById(id),
                     [kept |-> {}, buried |-> {e.path : e \in autos}])

\* Undismiss: clear the tombstone of the path.
Undismiss(p) ==
  LET gone == {e \in entries : e.source = "auto" /\ e.dismissed /\ e.path = p}
  IN \/ gone = {} /\ Return /\ UNCHANGED buried
     \/ \E e \in gone :
          /\ Mutate((entries \ {e}) \cup {[e EXCEPT !.dismissed = FALSE]}, {e},
                    NoGrant)
          /\ buried' = buried \ {p}

-----------------------------------------------------------------------------
\* Mutant of SaveTemp: the target file is truncated and written in place.
SaveInPlace ==
  /\ pc = "save"
  /\ pc' = "rename"
  /\ disk' = Malformed
  /\ UNCHANGED <<entries, grant, kept, buried>>

\* save, up to the rename: create, chmod, write and close the temporary file.
SaveTemp ==
  /\ pc = "save"
  /\ pc' = "rename"
  /\ UNCHANGED <<entries, disk, grant, kept, buried>>

\* save fails somewhere before the rename; the mutator returns the error and
\* the in-memory change stays.
SaveFails ==
  /\ pc \in {"save", "rename"}
  /\ pc' = "ready"
  /\ grant' = NoGrant
  /\ UNCHANGED <<entries, disk, kept, buried>>

\* The rename: the target file changes in one step, the mutator returns nil.
SaveRename ==
  /\ pc = "rename"
  /\ disk' = File(entries)
  /\ kept' = kept \cup grant.kept
  /\ buried' = buried \cup grant.buried
  /\ grant' = NoGrant
  /\ pc' = "ready"
  /\ UNCHANGED entries

\* The process dies ...
Crash ==
  /\ pc # "down"
  /\ pc' = "down"
  /\ entries' = {}
  /\ grant' = NoGrant
  /\ UNCHANGED <<disk, kept, buried>>

\* ... and a new one loads the file.  When the file cannot be read (permission,
\* a disk error) the new process starts with an empty registry: from there on
\* nothing that was promised is kept, the next save overwrites the file.
Restart ==
  /\ pc = "down"
  /\ pc' = "ready"
  /\ \/ entries' = LoadRegistry(disk) /\ UNCHANGED <<kept, buried>>
     \/ disk # File({}) /\ entries' = {} /\ kept' = {} /\ buried' = {}
  /\ UNCHANGED <<disk, grant>>

IDs == {entryID("manual", n) : n \in Names} \cup
       {entryID("auto", p) : p \in Paths}

Next ==
  \/ \E p \in Paths, n \in Names, m \in Metas : UpsertAuto(p, n, m)
  \/ \E n \in Names, m \in Metas : Add(n, m)
  \/ \E id \in IDs, n \in Names, m \in Metas : Update(id, n, m)
  \/ \E id \in IDs : Delete(id)
  \/ \E p \in Paths : Undismiss(p)
  \/ SaveTemp \/ SaveFails \/ SaveRename
  \/ Crash \/ Restart

Spec == Init /\ [][Next]_vars

-----------------------------------------------------------------------------
(* Properties *)

Known == {e \in Entry : e.id # NoID}

\* Entries in memory are well formed and always carry an id, whatever version
\* wrote the file they were loaded from; what the file holds is
\* well formed too.
TypeOK ==
  /\ entries \subseteq Known
  /\ disk.parses \in BOOLEAN /\ disk.list \subseteq Entry
  /\ pc \in {"ready", "save", "rename", "down"}
  /\ grant.kept \subseteq ManualEntries /\ grant.buried \subseteq Paths
  /\ kept \subseteq ManualEntries
  /\ buried \subseteq Paths

\* The API addresses entries by id only, so no two entries may share one: not
\* after renames and re-adds, not across restarts.
UniqueIds == \A e, f \in entries : e.id = f.id => e = f

\* A manual connection whose Add or Update was acknowledged is there, exactly
\* as acknowledged, in memory and after any crash and restart, until it is
\* edited or deleted - even though saves of other mutators fail in between.
Durable ==
  /\ kept \subseteq LoadRegistry(disk)
  /\ pc # "down" => kept \subseteq entries

\* "A durable tombstone": a dismissal that was acknowledged holds in memory and
\* after any restart until Undismiss, however often discovery finds the store
\* again and under whatever name.
Tombstoned(p, list) ==
  \E e \in list : e.source = "auto" /\ e.path = p /\ e.dismissed
DismissalDurable ==
  \A p \in buried :
    /\ Tombstoned(p, LoadRegistry(disk))
    /\ pc # "down" => Tombstoned(p, entries)
=============================================================================
