---------------------------- MODULE MCReconciler ----------------------------
(* Two apps, each with a store of its own, for TLC: the snapshots and what  *)
(* they elect come from ElectionOps.                                        *)
EXTENDS Reconciler, TLC

File(x, name) == [path |-> <<x, "f">>, name |-> name, actor |-> FALSE]

E == INSTANCE ElectionOps WITH
       Instances <- <<"k1", "k2">>,
       AppID <- [k1 |-> "app1", k2 |-> "app2"],
       ResourcePaths <- [k1 |-> << <<"a">> >>, k2 |-> << <<"b">> >>],
       Components <- [k1 |-> {"statestore"}, k2 |-> {"mine"}],
       HomePath <- <<"home">>,
       Files <- <<File("a", "statestore"), File("b", "mine")>>,
       StateStorePath <- <<>>

Name(c) == c.path[1]
MCStores == {"a", "b"}

\* No app; the first stopped, so that its store is elected without being
\* provided; the first stopped and the second running, with two stores known.
SnapshotOf == [none |-> [k1 |-> "absent", k2 |-> "absent"],
               down |-> [k1 |-> "stopped", k2 |-> "absent"],
               two |-> [k1 |-> "stopped", k2 |-> "running"]]
MCWorlds == DOMAIN SnapshotOf

\* What reconcile computes from them, tabulated.
MCFp == [none |-> 0, down |-> 1, two |-> 2]
MCDetected == [none |-> {}, down |-> {"a"}, two |-> {"a", "b"}]
MCElect == [none |-> NoStore, down |-> "a", two |-> "b"]
MCProvided == [none |-> {}, down |-> {}, two |-> {"b"}]

\* The tables are those of ElectionOps; fingerprints matter up to equality.
ASSUME MCTables ==
  \A w \in MCWorlds :
    /\ MCDetected[w] =
         {Name(E!Found(c)) : c \in E!Detect(E!scanPaths(SnapshotOf[w]))}
    /\ {MCElect[w]} \ {NoStore} = {Name(c) : c \in E!Elected(SnapshotOf[w])}
    /\ MCProvided[w] = {Name(c) : c \in E!AppProvided(SnapshotOf[w])}
    /\ \A v \in MCWorlds :
         MCFp[v] = MCFp[w] <=> E!appsFingerprint(SnapshotOf[v]) =
                               E!appsFingerprint(SnapshotOf[w])

\* Polls are interchangeable.
Symmetry == Permutations(Pollers)
=============================================================================
