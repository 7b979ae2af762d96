---------------------------- MODULE ElectionOps -----------------------------
(***************************************************************************)
(* The pure functions between an apps snapshot and the active state store: *)
(* derivePaths, appRunning and appsFingerprint (cmd/derive.go), Detect     *)
(* (pkg/statestore/detect.go), pathUnder and newStoreRegistry              *)
(* (cmd/workflow.go).                                                      *)
(*                                                                         *)
(* A path is the sequence of its segments, a component file a record of    *)
(* its path, the store's name and its actorStateStore flag.  A snapshot    *)
(* gives each instance a state; what an instance's sidecar would report is *)
(* constant, whether it could be asked is part of the snapshot.            *)
(*                                                                         *)
(* The lists the code builds matter only by their order, so a list is a    *)
(* set of places and an order on them: a path is scanned at <<n, m>>, the  *)
(* m-th path of the n-th instance (the home directory or the override at   *)
(* <<0, 1>>), and a component is found at <<at, i>>, where at is the first *)
(* scanned place that reaches the i-th file.                               *)
(***************************************************************************)
EXTENDS Naturals, Sequences, FiniteSets, SequencesExt, FiniteSetsExt

CONSTANTS
  Instances,      \* instance keys in the order List returns them
  AppID,          \* the app id of an instance; ids need not be unique
  ResourcePaths,  \* the resource directories of an instance
  Components,     \* names of the state stores an instance's sidecar loads
  HomePath,       \* ~/.dapr/components
  Files,          \* the state-store components on disk, in walk order
  StateStorePath  \* the --statestore override, <<>> when not given

\* The states of an instance in a snapshot: not listed; listed with daprd
\* stopped; running; running with a sidecar that did not answer, so that no
\* components are known.
States == {"absent", "stopped", "running", "unreachable"}
Keys == Range(Instances)
Snapshots == [Keys -> States]

ASSUME ElectionAssumption ==
  /\ Instances \in Seq(Keys)
  /\ Files \in Seq(Range(Files))
  /\ \A i \in DOMAIN Files : Files[i].actor \in BOOLEAN
  /\ \A k \in Keys : ResourcePaths[k] \in Seq(Range(ResourcePaths[k]))

Listed(apps) == {n \in DOMAIN Instances : apps[Instances[n]] # "absent"}
appRunning(apps, k) == apps[k] \in {"running", "unreachable"}
Loads(apps, k) == IF apps[k] = "running" THEN Components[k] ELSE {}

\* derivePaths: the election inputs count running apps only, the paths to scan
\* come from every listed app.
loaded(apps) ==
  UNION {Loads(apps, k) : k \in {x \in Keys : appRunning(apps, x)}}
appPaths(apps) ==
  UNION {Range(ResourcePaths[k]) : k \in {x \in Keys : appRunning(apps, x)}}
scanPaths(apps) ==
  IF StateStorePath # <<>> THEN [at \in {<<0, 1>>} |-> StateStorePath]
  ELSE [at \in {<<0, 1>>} \cup UNION {{n} \X DOMAIN ResourcePaths[Instances[n]] :
                                       n \in Listed(apps)} |->
          IF at[1] = 0 THEN HomePath ELSE ResourcePaths[Instances[at[1]]][at[2]]]

\* pathUnder: equal to, or nested under, one of the parents.
pathUnder(child, parents) == \E p \in parents : IsPrefix(p, child)

\* Detect: the components found below each path in turn, a file only once.
Earlier(at, to) == at[1] < to[1] \/ (at[1] = to[1] /\ at[2] < to[2])
Detect(paths) ==
  {c \in (DOMAIN paths) \X (DOMAIN Files) :
     LET reaches(at) == IsPrefix(paths[at], Files[c[2]].path)
     IN reaches(c[1]) /\ \A at \in DOMAIN paths : Earlier(at, c[1]) => ~reaches(at)}
Found(c) == Files[c[2]]

\* The first component of a list.
Before(c, d) == Earlier(c[1], d[1]) \/ (c[1] = d[1] /\ c[2] < d[2])
First(comps) == CHOOSE c \in comps : \A d \in comps \ {c} : Before(c, d)

isLoaded(c, names) == c.name \in names
isAppProvided(c, names, parents) ==
  isLoaded(c, names) /\ pathUnder(c.path, parents)

\* Mutant of newStoreRegistry: a global actor store beats the app's own store.
ActorFirst(comps, names, parents) ==
  LET provided == {c \in comps : isAppProvided(Found(c), names, parents)}
      known == {c \in comps : isLoaded(Found(c), names)}
      actor == {c \in comps : Found(c).actor}
      passes == <<provided \cap actor, known \cap actor, provided, known, actor, comps>>
      hit == {p \in DOMAIN passes : passes[p] # {}}
  IN IF hit = {} THEN {} ELSE {First(passes[Min(hit)])}

\* newStoreRegistry: the place of the active component, none when there is
\* none.  The passes are tried in turn and each takes its first match.
newStoreRegistry(comps, names, parents) ==
  LET provided == {c \in comps : isAppProvided(Found(c), names, parents)}
      known == {c \in comps : isLoaded(Found(c), names)}
      actor == {c \in comps : Found(c).actor}
      passes == <<provided \cap actor, provided, known \cap actor, known, actor, comps>>
      hit == {p \in DOMAIN passes : passes[p] # {}}
  IN IF hit = {} THEN {} ELSE {First(passes[Min(hit)])}

\* The active component reconcile elects from a snapshot, if any.
Elected(apps) ==
  {Found(c) : c \in newStoreRegistry(Detect(scanPaths(apps)), loaded(apps), appPaths(apps))}

\* The components a running app provides (undismissAppProvided).
AppProvided(apps) ==
  {c \in {Found(x) : x \in Detect(scanPaths(apps))} :
     isAppProvided(c, loaded(apps), appPaths(apps))}

-----------------------------------------------------------------------------
\* How often x occurs when F(k) is listed for every instance in S.
Count(S, F(_), x) == Cardinality({k \in S : x \in F(k)})
AllIDs == {AppID[k] : k \in Keys}
AllPaths == UNION {Range(ResourcePaths[k]) : k \in Keys}
AllNames == UNION {Components[k] : k \in Keys}

\* Mutant of appsFingerprint: the running group is left out.
FingerprintOfListed(apps) ==
  LET here == {k \in Keys : apps[k] # "absent"}
      id(k) == {AppID[k]}
      paths(k) == Range(ResourcePaths[k])
      stores(k) == Loads(apps, k)
  IN [ids |-> [x \in AllIDs |-> Count(here, id, x)],
      paths |-> [x \in AllPaths |-> Count(here, paths, x)],
      stores |-> [x \in AllNames |-> Count(here, stores, x)]]

\* appsFingerprint: sorted and hashed with separators, four multisets.
appsFingerprint(apps) ==
  LET here == {k \in Keys : apps[k] # "absent"}
      up == {k \in Keys : appRunning(apps, k)}
      id(k) == {AppID[k]}
      paths(k) == Range(ResourcePaths[k])
      stores(k) == Loads(apps, k)
  IN [ids |-> [x \in AllIDs |-> Count(here, id, x)],
      paths |-> [x \in AllPaths |-> Count(here, paths, x)],
      stores |-> [x \in AllNames |-> Count(here, stores, x)],
      running |-> [x \in AllIDs |-> Count(up, id, x)]]
=============================================================================
