--------------------------- MODULE ElectionProofs ---------------------------
(***************************************************************************)
(* Proofs for the store election: the six passes elect a best candidate of *)
(* every snapshot, and, where no two instances share an app id, an equal   *)
(* fingerprint means an equal election - for every number of instances,    *)
(* paths and component files.                                              *)
(***************************************************************************)
EXTENDS StoreElection, FiniteSetTheorems, WellFoundedInduction, TLAPS

-----------------------------------------------------------------------------
(* Least elements. *)

\* A set of numbers has a least one.
LEMMA LeastNat ==
  ASSUME NEW T, T \subseteq Nat, T # {}
  PROVE  \E m \in T : \A x \in T : m <= x
<1> DEFINE R == OpToRel(<, Nat)
<1>1. IsWellFoundedOn(R, Nat)
  BY NatLessThanWellFounded
<1>2. ASSUME NEW x \in Nat, NEW y \in Nat, x < y PROVE <<x, y>> \in R
  BY <1>2 DEF OpToRel
<1> HIDE DEF R
<1>3. \E m \in T : \A y \in T : ~ (<<y, m>> \in R)
  BY <1>1, WFMin
<1>4. PICK m \in T : \A y \in T : ~ (<<y, m>> \in R)
  BY <1>3
<1>5. ASSUME NEW x \in T PROVE m <= x
  <2>1. x \in Nat /\ m \in Nat /\ ~(<<x, m>> \in R)
    BY <1>4
  <2>2. ~(x < m)
    BY <1>2, <2>1
  <2> QED
    BY <2>1, <2>2
<1> QED
  BY <1>5

\* A set of places has one that is earlier than every other.
LEMMA EarliestPlace ==
  ASSUME NEW T, T \subseteq Nat \X Nat, T # {}
  PROVE  \E at \in T : \A to \in T : to = at \/ Earlier(at, to)
<1> DEFINE N == {at[1] : at \in T}
<1>1. N \subseteq Nat /\ N # {}
  OBVIOUS
<1>2. PICK n \in N : \A x \in N : n <= x
  BY <1>1, LeastNat
<1> DEFINE M == {at[2] : at \in {to \in T : to[1] = n}}
<1>3. M \subseteq Nat /\ M # {}
  BY <1>2
<1>4. PICK m \in M : \A x \in M : m <= x
  BY <1>3, LeastNat
<1>5. PICK at \in T : at[1] = n /\ at[2] = m
  BY <1>4
<1>6. ASSUME NEW to \in T PROVE to = at \/ Earlier(at, to)
  <2>1. /\ to[1] \in N /\ (to[1] = n => to[2] \in M)
        /\ to[1] \in Nat /\ to[2] \in Nat /\ to = <<to[1], to[2]>>
        /\ at[1] \in Nat /\ at[2] \in Nat /\ at = <<at[1], at[2]>>
    OBVIOUS
  <2>2. n <= to[1] /\ (to[1] = n => m <= to[2])
    BY <1>2, <1>4, <2>1
  <2> HIDE DEF N, M
  <2> QED
    BY <1>5, <2>1, <2>2 DEF Earlier
<1> QED
  BY <1>6

\* A list that is not empty has a first component.
LEMMA FirstExists ==
  ASSUME NEW comps, comps \subseteq (Nat \X Nat) \X Nat, comps # {}
  PROVE  First(comps) \in comps
<1> DEFINE T == {c[1] : c \in comps}
<1>1. T \subseteq Nat \X Nat /\ T # {}
  OBVIOUS
<1>2. PICK at \in T : \A to \in T : to = at \/ Earlier(at, to)
  BY <1>1, EarliestPlace
<1> DEFINE M == {c[2] : c \in {d \in comps : d[1] = at}}
<1>3. M \subseteq Nat /\ M # {}
  BY <1>2
<1>4. PICK m \in M : \A x \in M : m <= x
  BY <1>3, LeastNat
<1>5. PICK c \in comps : c[1] = at /\ c[2] = m
  BY <1>4
<1>6. ASSUME NEW d \in comps \ {c} PROVE Before(c, d)
  <2>1. /\ d[1] \in T /\ (d[1] = at => d[2] \in M)
        /\ d[2] \in Nat /\ d = <<d[1], d[2]>> /\ c[2] \in Nat /\ c = <<c[1], c[2]>>
        /\ d # c
    OBVIOUS
  <2>2. (d[1] = at \/ Earlier(at, d[1])) /\ (d[1] = at => m <= d[2])
    BY <1>2, <1>4, <2>1
  <2> HIDE DEF T, M
  <2> QED
    BY <1>5, <2>1, <2>2 DEF Before
<1>7. \E x \in comps : \A d \in comps \ {x} : Before(x, d)
  BY <1>6
<1> QED
  BY <1>7 DEF First

-----------------------------------------------------------------------------
(* The election of one snapshot. *)

\* Files, instances and paths are numbered from one.
LEMMA Numbered ==
  /\ DOMAIN Files \subseteq Nat
  /\ DOMAIN Instances \subseteq Nat \ {0}
  /\ \A n \in DOMAIN Instances :
        /\ Instances[n] \in Keys
        /\ DOMAIN ResourcePaths[Instances[n]] \subseteq Nat
  /\ \A k \in Keys : \E n \in DOMAIN Instances : Instances[n] = k
<1>1. DOMAIN Files = 1..Len(Files) /\ DOMAIN Instances = 1..Len(Instances)
  BY ElectionAssumption
<1>2. Len(Files) \in Nat /\ Len(Instances) \in Nat
  BY ElectionAssumption
<1>3. \A n \in DOMAIN Instances : Instances[n] \in Keys
  BY DEF Keys, Range
<1>4. \A k \in Keys : DOMAIN ResourcePaths[k] \subseteq Nat
  <2> TAKE k \in Keys
  <2>1. ResourcePaths[k] \in Seq(Range(ResourcePaths[k]))
    BY ElectionAssumption
  <2>2. DOMAIN ResourcePaths[k] = 1..Len(ResourcePaths[k]) /\ Len(ResourcePaths[k]) \in Nat
    BY <2>1
  <2> QED
    BY <2>2
<1>5. \A k \in Keys : \E n \in DOMAIN Instances : Instances[n] = k
  BY DEF Keys, Range
<1> QED
  BY <1>1, <1>2, <1>3, <1>4, <1>5

\* The places derivePaths scans, and the paths at them: the override alone, or the
\* home directory and the directories of the listed apps.
LEMMA ScannedPaths ==
  ASSUME NEW snap \in Snapshots
  PROVE  /\ DOMAIN scanPaths(snap) \subseteq Nat \X Nat
         /\ \A path : (\E at \in DOMAIN scanPaths(snap) : scanPaths(snap)[at] = path)
              <=> IF StateStorePath # <<>> THEN path = StateStorePath
                  ELSE \/ path = HomePath
                       \/ \E k \in Keys : snap[k] # "absent" /\ path \in Range(ResourcePaths[k])
<1> DEFINE paths == scanPaths(snap)
<1>1. CASE StateStorePath # <<>>
  <2>1. paths = [at \in {<<0, 1>>} |-> StateStorePath]
    BY <1>1 DEF scanPaths
  <2> HIDE DEF paths
  <2>2. DOMAIN paths = {<<0, 1>>} /\ paths[<<0, 1>>] = StateStorePath
    BY <2>1
  <2> QED
    BY <1>1, <2>2 DEF paths
<1>2. CASE ~(StateStorePath # <<>>)
  <2> DEFINE dirs == UNION {{n} \X DOMAIN ResourcePaths[Instances[n]] : n \in Listed(snap)}
  <2>1. paths = [at \in {<<0, 1>>} \cup dirs |->
                   IF at[1] = 0 THEN HomePath ELSE ResourcePaths[Instances[at[1]]][at[2]]]
    BY <1>2 DEF scanPaths
  <2>2. \A at \in dirs : /\ at[1] \in Listed(snap) /\ at[2] \in DOMAIN ResourcePaths[Instances[at[1]]]
                         /\ at = <<at[1], at[2]>>
    OBVIOUS
  <2>3. \A n \in Listed(snap) : \A m \in DOMAIN ResourcePaths[Instances[n]] : <<n, m>> \in dirs
    OBVIOUS
  <2>4. \A n \in Listed(snap) : /\ n \in DOMAIN Instances /\ n \in Nat \ {0}
                                /\ Instances[n] \in Keys /\ snap[Instances[n]] # "absent"
                                /\ DOMAIN ResourcePaths[Instances[n]] \subseteq Nat
    BY Numbered DEF Listed
  <2> HIDE DEF dirs, paths
  <2>5. DOMAIN paths = {<<0, 1>>} \cup dirs /\ paths[<<0, 1>>] = HomePath
    BY <2>1
  <2>6. \A at \in dirs : paths[at] = ResourcePaths[Instances[at[1]]][at[2]]
    BY <2>1, <2>2, <2>4
  <2>7. DOMAIN paths \subseteq Nat \X Nat
    BY <2>2, <2>4, <2>5
  <2>8. ASSUME NEW at \in DOMAIN paths
        PROVE  \/ paths[at] = HomePath
               \/ \E k \in Keys : snap[k] # "absent" /\ paths[at] \in Range(ResourcePaths[k])
    BY <2>2, <2>4, <2>5, <2>6 DEF Range
  <2>9. ASSUME NEW k \in Keys, snap[k] # "absent", NEW path \in Range(ResourcePaths[k])
        PROVE  \E at \in DOMAIN paths : paths[at] = path
    <3>1. PICK n \in DOMAIN Instances : Instances[n] = k
      BY Numbered
    <3>2. PICK m \in DOMAIN ResourcePaths[k] : ResourcePaths[k][m] = path
      BY DEF Range
    <3>3. n \in Listed(snap)
      BY <2>9, <3>1 DEF Listed
    <3>4. <<n, m>> \in dirs
      BY <2>3, <3>1, <3>2, <3>3
    <3>5. paths[<<n, m>>] = path
      BY <2>6, <3>1, <3>2, <3>4
    <3> QED
      BY <2>5, <3>4, <3>5
  <2> QED
    BY <1>2, <2>5, <2>7, <2>8, <2>9 DEF paths
<1> QED
  BY <1>1, <1>2

\* What Detect finds are the candidates: each file below a scanned path, once.
LEMMA DetectsCandidates ==
  ASSUME NEW snap \in Snapshots
  PROVE  /\ Detect(scanPaths(snap)) \subseteq (Nat \X Nat) \X Nat
         /\ {Found(c) : c \in Detect(scanPaths(snap))} = Candidates(snap)
<1> DEFINE paths == scanPaths(snap)
           reaches(at, i) == IsPrefix(paths[at], Files[i].path)
<1>1. DOMAIN paths \subseteq Nat \X Nat
  BY ScannedPaths
<1>2. \A path : (\E at \in DOMAIN paths : paths[at] = path)
         <=> IF StateStorePath # <<>> THEN path = StateStorePath
             ELSE \/ path = HomePath
                  \/ \E k \in Keys : snap[k] # "absent" /\ path \in Range(ResourcePaths[k])
  BY ScannedPaths
<1> HIDE DEF paths
<1>3. \A i \in DOMAIN Files :
        Files[i] \in Candidates(snap) <=> \E at \in DOMAIN paths : reaches(at, i)
  <2> TAKE i \in DOMAIN Files
  <2>1. Files[i] \in Range(Files)
    BY DEF Range
  <2>2. CASE StateStorePath # <<>>
    BY <1>2, <2>1, <2>2 DEF Candidates
  <2>3. CASE ~(StateStorePath # <<>>)
    BY <1>2, <2>1, <2>3 DEF Candidates
  <2> QED
    BY <2>2, <2>3
<1>4. \A c : c \in Detect(paths) <=>
               /\ c \in (DOMAIN paths) \X (DOMAIN Files)
               /\ reaches(c[1], c[2])
               /\ \A at \in DOMAIN paths : Earlier(at, c[1]) => ~reaches(at, c[2])
  BY DEF Detect
<1>5. Detect(paths) \subseteq (Nat \X Nat) \X Nat
  BY <1>1, <1>4, Numbered
<1>6. ASSUME NEW c \in Detect(paths) PROVE Found(c) \in Candidates(snap)
  BY <1>3, <1>4 DEF Found
<1>7. ASSUME NEW f \in Candidates(snap) PROVE \E c \in Detect(paths) : Found(c) = f
  <2>1. f \in Range(Files)
    BY DEF Candidates
  <2>2. PICK i \in DOMAIN Files : Files[i] = f
    BY <2>1 DEF Range
  <2> DEFINE T == {at \in DOMAIN paths : reaches(at, i)}
  <2>3. T \subseteq Nat \X Nat /\ T # {}
    BY <1>1, <1>3, <2>2
  <2>4. PICK at \in T : \A to \in T : to = at \/ Earlier(at, to)
    BY <2>3, EarliestPlace
  <2>5. \A to \in DOMAIN paths : Earlier(to, at) => ~reaches(to, i)
    <3> SUFFICES ASSUME NEW to \in DOMAIN paths, Earlier(to, at), reaches(to, i) PROVE FALSE
      OBVIOUS
    <3>1. to = at \/ Earlier(at, to)
      BY <2>4
    <3>2. at[1] \in Nat /\ at[2] \in Nat /\ to[1] \in Nat /\ to[2] \in Nat
      BY <2>3, <1>1
    <3> QED
      BY <3>1, <3>2 DEF Earlier
  <2>6. <<at, i>> \in Detect(paths)
    BY <1>4, <2>4, <2>5
  <2> QED
    BY <2>2, <2>6 DEF Found
<1> QED
  BY <1>5, <1>6, <1>7 DEF paths

\* The passes in order: each is tried when the ones before it match nothing, and
\* takes its first match.
LEMMA PassesInTurn ==
  ASSUME NEW comps, NEW names, NEW parents
  PROVE  LET provided == {c \in comps : isAppProvided(Found(c), names, parents)}
             known == {c \in comps : isLoaded(Found(c), names)}
             actor == {c \in comps : Found(c).actor}
             pass == IF provided \cap actor # {} THEN provided \cap actor
                     ELSE IF provided # {} THEN provided
                     ELSE IF known \cap actor # {} THEN known \cap actor
                     ELSE IF known # {} THEN known
                     ELSE IF actor # {} THEN actor ELSE comps
         IN newStoreRegistry(comps, names, parents) = IF comps = {} THEN {} ELSE {First(pass)}
<1> DEFINE provided == {c \in comps : isAppProvided(Found(c), names, parents)}
           known == {c \in comps : isLoaded(Found(c), names)}
           actor == {c \in comps : Found(c).actor}
           pass == IF provided \cap actor # {} THEN provided \cap actor
                   ELSE IF provided # {} THEN provided
                   ELSE IF known \cap actor # {} THEN known \cap actor
                   ELSE IF known # {} THEN known
                   ELSE IF actor # {} THEN actor ELSE comps
           passes == <<provided \cap actor, provided, known \cap actor, known, actor, comps>>
           hit == {p \in DOMAIN passes : passes[p] # {}}
<1>1. newStoreRegistry(comps, names, parents) = IF hit = {} THEN {} ELSE {First(passes[Min(hit)])}
  BY DEF newStoreRegistry
<1>2. provided \subseteq comps /\ known \subseteq comps /\ actor \subseteq comps
  OBVIOUS
<1> HIDE DEF provided, known, actor
<1>3. /\ DOMAIN passes = 1..6
      /\ passes[1] = provided \cap actor /\ passes[2] = provided /\ passes[3] = known \cap actor
      /\ passes[4] = known /\ passes[5] = actor /\ passes[6] = comps
  OBVIOUS
<1> HIDE DEF passes
<1>4. CASE comps = {}
  <2>1. \A p \in 1..6 : passes[p] = {}
    BY <1>2, <1>3, <1>4
  <2>2. hit = {}
    BY <1>3, <2>1
  <2> QED
    BY <1>1, <1>4, <2>2 DEF provided, known, actor
<1>5. CASE comps # {}
  <2>1. hit \subseteq Nat /\ 6 \in hit
    BY <1>3, <1>5
  <2>2. \E m \in hit : \A x \in hit : m <= x
    BY <2>1, LeastNat
  <2>3. Min(hit) \in hit /\ \A x \in hit : Min(hit) <= x
    BY <2>2 DEF Min
  <2> DEFINE m == Min(hit)
  <2> HIDE DEF m
  <2>4. m \in 1..6 /\ passes[m] # {} /\ \A x \in 1..6 : x < m => passes[x] = {}
    <3>1. m \in hit /\ \A x \in hit : m <= x
      BY <2>3 DEF m
    <3>2. \A x : x \in hit <=> x \in 1..6 /\ passes[x] # {}
      BY <1>3
    <3> HIDE DEF hit
    <3>3. \A x \in 1..6 : x < m => x \notin hit
      BY <3>1, <3>2
    <3> QED
      BY <3>1, <3>2, <3>3
  <2>5. passes[m] = pass
    <3>1. m = 1 \/ m = 2 \/ m = 3 \/ m = 4 \/ m = 5 \/ m = 6
      BY <2>4
    <3> QED
      BY <1>3, <2>4, <3>1
  <2>6. hit # {}
    BY <2>1
  <2> HIDE DEF hit, pass
  <2> QED
    BY <1>1, <1>5, <2>5, <2>6 DEF m, pass, provided, known, actor
<1> QED
  BY <1>4, <1>5

\* The rank in the terms of the passes.
LEMMA RankOfPasses ==
  ASSUME NEW snap \in Snapshots, NEW c, c.actor \in BOOLEAN
  PROVE  Rank(c, snap) =
           (IF isAppProvided(c, loaded(snap), appPaths(snap)) THEN 4
            ELSE IF isLoaded(c, loaded(snap)) THEN 2 ELSE 0) + (IF c.actor THEN 1 ELSE 0)
<1>1. isLoaded(c, loaded(snap)) <=> \E k \in Keys : snap[k] = "running" /\ c.name \in Components[k]
  BY DEF isLoaded, loaded, Loads, appRunning
<1>2. pathUnder(c.path, appPaths(snap)) <=>
        \E k \in Keys : /\ snap[k] \in {"running", "unreachable"}
                        /\ \E p \in Range(ResourcePaths[k]) : IsPrefix(p, c.path)
  BY DEF pathUnder, appPaths, appRunning
<1> QED
  BY <1>1, <1>2 DEF Rank, isAppProvided

\* The six passes elect one component, and none that was detected outranks it.
LEMMA PassesFollowRank ==
  ASSUME NEW snap \in Snapshots, NEW comps,
         comps \subseteq (Nat \X Nat) \X Nat, comps # {},
         \A c \in comps : Found(c).actor \in BOOLEAN
  PROVE  \E a \in comps :
           /\ newStoreRegistry(comps, loaded(snap), appPaths(snap)) = {a}
           /\ \A c \in comps : Rank(Found(c), snap) <= Rank(Found(a), snap)
<1> DEFINE names == loaded(snap)
           parents == appPaths(snap)
           provided == {c \in comps : isAppProvided(Found(c), names, parents)}
           known == {c \in comps : isLoaded(Found(c), names)}
           actor == {c \in comps : Found(c).actor}
           pass == IF provided \cap actor # {} THEN provided \cap actor
                   ELSE IF provided # {} THEN provided
                   ELSE IF known \cap actor # {} THEN known \cap actor
                   ELSE IF known # {} THEN known
                   ELSE IF actor # {} THEN actor ELSE comps
           a == First(pass)
<1>1. newStoreRegistry(comps, names, parents) = {a}
  BY PassesInTurn
<1>2. provided \subseteq known /\ known \subseteq comps /\ actor \subseteq comps
  BY DEF isAppProvided
<1>3. \A c \in comps : Rank(Found(c), snap) =
            (IF c \in provided THEN 4 ELSE IF c \in known THEN 2 ELSE 0)
            + (IF c \in actor THEN 1 ELSE 0)
  BY RankOfPasses
<1> HIDE DEF provided, known, actor
<1>4. pass \subseteq comps /\ pass # {}
  BY <1>2
<1>5. a \in pass
  BY <1>4, FirstExists
<1>6. ASSUME NEW x \in pass, NEW c \in comps
      PROVE  Rank(Found(c), snap) <= Rank(Found(x), snap)
  <2>1. x \in comps
    BY <1>4
  <2>2. CASE provided \cap actor # {}
    BY <1>2, <1>3, <2>1, <2>2
  <2>3. CASE provided \cap actor = {} /\ provided # {}
    BY <1>2, <1>3, <2>1, <2>3
  <2>4. CASE provided = {} /\ known \cap actor # {}
    BY <1>2, <1>3, <2>1, <2>4
  <2>5. CASE provided = {} /\ known \cap actor = {} /\ known # {}
    BY <1>2, <1>3, <2>1, <2>5
  <2>6. CASE known = {} /\ actor # {}
    BY <1>2, <1>3, <2>1, <2>6
  <2>7. CASE known = {} /\ actor = {}
    BY <1>2, <1>3, <2>1, <2>7
  <2> QED
    BY <1>2, <2>2, <2>3, <2>4, <2>5, <2>6, <2>7
<1> HIDE DEF pass
<1>7. \A c \in comps : Rank(Found(c), snap) <= Rank(Found(a), snap)
  BY <1>5, <1>6
<1> QED
  BY <1>1, <1>4, <1>5, <1>7

\* The election of a snapshot is right: what BestElected asks of it.
LEMMA ElectsBest ==
  ASSUME NEW snap \in Snapshots
  PROVE  /\ Elected(snap) = {} <=> Candidates(snap) = {}
         /\ \A a \in Elected(snap) :
              /\ a \in Candidates(snap)
              /\ \A c \in Candidates(snap) : Rank(c, snap) <= Rank(a, snap)
<1> DEFINE comps == Detect(scanPaths(snap))
           chosen == newStoreRegistry(comps, loaded(snap), appPaths(snap))
<1>1. comps \subseteq (Nat \X Nat) \X Nat /\ {Found(c) : c \in comps} = Candidates(snap)
  BY DetectsCandidates
<1>2. \A c \in comps : Found(c).actor \in BOOLEAN
  <2> TAKE c \in comps
  <2>1. Found(c) \in Range(Files)
    BY <1>1 DEF Candidates
  <2> QED
    BY <2>1, ElectionAssumption DEF Range
<1>3. Elected(snap) = {Found(c) : c \in chosen}
  BY DEF Elected
<1>4. comps = {} => chosen = {}
  BY PassesInTurn
<1>5. comps # {} => \E a \in comps :
                      /\ chosen = {a}
                      /\ \A c \in comps : Rank(Found(c), snap) <= Rank(Found(a), snap)
  BY <1>1, <1>2, PassesFollowRank
<1> HIDE DEF comps, chosen
<1>6. CASE comps = {}
  BY <1>1, <1>3, <1>4, <1>6
<1>7. CASE comps # {}
  <2>1. PICK a \in comps : /\ chosen = {a}
                           /\ \A c \in comps : Rank(Found(c), snap) <= Rank(Found(a), snap)
    BY <1>5, <1>7
  <2>2. Elected(snap) = {Found(a)} /\ Found(a) \in Candidates(snap)
    BY <1>1, <1>3, <2>1
  <2>3. \A c \in Candidates(snap) : Rank(c, snap) <= Rank(Found(a), snap)
    BY <1>1, <2>1
  <2> QED
    BY <2>2, <2>3
<1> QED
  BY <1>6, <1>7

-----------------------------------------------------------------------------
(* The fingerprint. *)

\* No two instances share an app id.
DistinctIDs == \A j, k \in Keys : AppID[j] = AppID[k] => j = k

\* Those of some instances that have an app id.
WithID(S, id) == {k \in S : id \in {AppID[k]}}

\* There are finitely many instances.
LEMMA FiniteKeys == IsFiniteSet(Keys)
<1>1. DOMAIN Instances = 1..Len(Instances) /\ Len(Instances) \in Nat
      /\ Instances \in [1..Len(Instances) -> Keys]
  BY ElectionAssumption
<1>2. IsFiniteSet(1..Len(Instances))
  BY <1>1, FS_Interval
<1>3. Instances \in Surjection(1..Len(Instances), Keys)
  BY <1>1, Numbered DEF Surjection
<1> QED
  BY <1>2, <1>3, FS_Surjection

\* Equal counts: one set is empty when the other is.
LEMMA EqualCounts ==
  ASSUME NEW S, S \subseteq Keys, NEW T, T \subseteq Keys, Cardinality(S) = Cardinality(T)
  PROVE  S = {} <=> T = {}
<1>1. IsFiniteSet(S) /\ IsFiniteSet(T)
  BY FiniteKeys, FS_Subset
<1> QED
  BY <1>1, FS_EmptySet

\* Without shared app ids the counts of ids tell the instances.
LEMMA IDsTell ==
  ASSUME DistinctIDs, NEW S, S \subseteq Keys, NEW T, T \subseteq Keys,
         \A id \in AllIDs : Cardinality(WithID(S, id)) = Cardinality(WithID(T, id))
  PROVE  S \subseteq T
<1> SUFFICES ASSUME NEW k \in S PROVE k \in T
  OBVIOUS
<1> DEFINE A == WithID(S, AppID[k])
           B == WithID(T, AppID[k])
<1>1. Cardinality(A) = Cardinality(B)
  BY DEF AllIDs
<1>2. A \subseteq Keys /\ B \subseteq Keys /\ A # {}
  BY DEF WithID
<1>3. B # {}
  <2> HIDE DEF A, B
  <2> QED
    BY <1>1, <1>2, EqualCounts
<1> QED
  BY <1>3 DEF DistinctIDs, WithID

\* What the fingerprint counts.
LEMMA FingerprintCounts ==
  ASSUME NEW x \in Snapshots, NEW y \in Snapshots, appsFingerprint(x) = appsFingerprint(y)
  PROVE  /\ \A id \in AllIDs :
              Cardinality(WithID({j \in Keys : x[j] # "absent"}, id))
                = Cardinality(WithID({j \in Keys : y[j] # "absent"}, id))
         /\ \A id \in AllIDs :
              Cardinality(WithID({j \in Keys : appRunning(x, j)}, id))
                = Cardinality(WithID({j \in Keys : appRunning(y, j)}, id))
         /\ \A name \in AllNames :
              Cardinality({k \in {j \in Keys : x[j] # "absent"} : name \in Loads(x, k)})
                = Cardinality({k \in {j \in Keys : y[j] # "absent"} : name \in Loads(y, k)})
<1> DEFINE ids(v) == [id \in AllIDs |->
                        Cardinality(WithID({j \in Keys : v[j] # "absent"}, id))]
           run(v) == [id \in AllIDs |->
                        Cardinality(WithID({j \in Keys : appRunning(v, j)}, id))]
           stores(v) == [name \in AllNames |->
                        Cardinality({k \in {j \in Keys : v[j] # "absent"} : name \in Loads(v, k)})]
<1>1. \A v : /\ appsFingerprint(v).ids = ids(v)
             /\ appsFingerprint(v).running = run(v)
             /\ appsFingerprint(v).stores = stores(v)
  BY DEF appsFingerprint, Count, WithID
<1>2. ids(x) = ids(y) /\ run(x) = run(y) /\ stores(x) = stores(y)
  <2> HIDE DEF ids, run, stores
  <2> QED
    BY <1>1
<1>3. /\ \A id \in AllIDs : ids(x)[id] = ids(y)[id]
      /\ \A id \in AllIDs : run(x)[id] = run(y)[id]
      /\ \A name \in AllNames : stores(x)[name] = stores(y)[name]
  BY <1>2
<1> QED
  BY <1>3

\* A store is loaded by some running app exactly when the fingerprint counts it.
LEMMA StoresTell ==
  ASSUME NEW x \in Snapshots, NEW y \in Snapshots, appsFingerprint(x) = appsFingerprint(y)
  PROVE  loaded(x) \subseteq loaded(y)
<1> SUFFICES ASSUME NEW name \in loaded(x) PROVE name \in loaded(y)
  OBVIOUS
<1> DEFINE A == {k \in {j \in Keys : x[j] # "absent"} : name \in Loads(x, k)}
           B == {k \in {j \in Keys : y[j] # "absent"} : name \in Loads(y, k)}
<1>1. PICK k \in Keys : x[k] = "running" /\ name \in Components[k]
  BY DEF loaded, Loads, appRunning
<1>2. name \in AllNames
  BY <1>1 DEF AllNames
<1>3. Cardinality(A) = Cardinality(B)
  BY <1>2, FingerprintCounts
<1>4. A \subseteq Keys /\ B \subseteq Keys /\ A # {}
  BY <1>1 DEF Loads
<1>5. B # {}
  <2> HIDE DEF A, B
  <2> QED
    BY <1>3, <1>4, EqualCounts
<1> QED
  BY <1>5 DEF loaded, Loads, appRunning

\* Where app ids are unique, an equal fingerprint means an equal election.
LEMMA FingerprintDecides ==
  ASSUME DistinctIDs, NEW x \in Snapshots, NEW y \in Snapshots,
         appsFingerprint(x) = appsFingerprint(y)
  PROVE  Elected(x) = Elected(y)
<1> DEFINE here(v) == {j \in Keys : v[j] # "absent"}
           up(v) == {j \in Keys : appRunning(v, j)}
<1>0. /\ \A id \in AllIDs : Cardinality(WithID(here(x), id)) = Cardinality(WithID(here(y), id))
      /\ \A id \in AllIDs : Cardinality(WithID(up(x), id)) = Cardinality(WithID(up(y), id))
      /\ here(x) \subseteq Keys /\ here(y) \subseteq Keys
      /\ up(x) \subseteq Keys /\ up(y) \subseteq Keys
  BY FingerprintCounts
<1>1. here(x) = here(y)
  <2> HIDE DEF here
  <2>1. here(x) \subseteq here(y)
    BY <1>0, IDsTell
  <2>2. here(y) \subseteq here(x)
    BY <1>0, IDsTell
  <2> QED
    BY <2>1, <2>2
<1>2. up(x) = up(y)
  <2> HIDE DEF up
  <2>1. up(x) \subseteq up(y)
    BY <1>0, IDsTell
  <2>2. up(y) \subseteq up(x)
    BY <1>0, IDsTell
  <2> QED
    BY <2>1, <2>2
<1>3. loaded(x) = loaded(y)
  BY StoresTell
<1>4. appPaths(x) = appPaths(y)
  BY <1>2 DEF appPaths
<1>5. Listed(x) = Listed(y)
  BY <1>1, Numbered DEF Listed
<1>6. scanPaths(x) = scanPaths(y)
  BY <1>5 DEF scanPaths
<1> QED
  BY <1>3, <1>4, <1>6 DEF Elected

-----------------------------------------------------------------------------
(* The specification. *)

\* What the last reconcile left behind belongs to the snapshot it ran on.
IInv ==
  /\ apps \in Snapshots
  /\ seen \in Snapshots
  /\ fp = appsFingerprint(seen)
  /\ active = Elected(seen)

\* The invariant holds at first.
LEMMA ElectionInit == Init => IInv
  BY DEF Init, IInv

\* Every change of the apps and every poll keeps it.
LEMMA ElectionStep == IInv /\ [Next]_vars => IInv'
<1> SUFFICES ASSUME IInv, [Next]_vars PROVE IInv'
  OBVIOUS
<1>1. ASSUME NEW k \in Keys, NEW st \in States, AppChanges(k, st)
      PROVE  IInv'
  BY <1>1 DEF IInv, AppChanges, Snapshots
<1>2. CASE Poll
  BY <1>2 DEF IInv, Poll
<1>3. CASE UNCHANGED vars
  BY <1>3 DEF IInv, vars
<1> QED
  BY <1>1, <1>2, <1>3 DEF Next

\* The active store is a candidate no candidate outranks, and there is one whenever
\* there is a candidate, for every set of apps and component files: the six passes of
\* newStoreRegistry over what Detect finds implement the documented preference.
THEOREM AlwaysBestElected == Spec => []BestElected
<1>1. IInv => BestElected
  BY ElectsBest DEF IInv, BestElected
<1> QED
  BY <1>1, ElectionInit, ElectionStep, PTL DEF Spec

\* Where no two instances share an app id, a poll that skips the election because the
\* fingerprint is the last one's (maybeReconcile) would have elected the same store.
\* With shared ids it may not: that is what the run on two copies of an app shows.
THEOREM FingerprintAlwaysCovers == DistinctIDs => (Spec => []FingerprintCovers)
<1> SUFFICES ASSUME DistinctIDs PROVE Spec => []FingerprintCovers
  OBVIOUS
<1>1. IInv => FingerprintCovers
  BY FingerprintDecides DEF IInv, FingerprintCovers
<1> QED
  BY <1>1, ElectionInit, ElectionStep, PTL DEF Spec
=============================================================================
