-------------------------- MODULE MCStoreElection ---------------------------
(* Three instances, four component files, for TLC.                          *)
EXTENDS StoreElection

Home == <<"home">>
DirA == <<"a">>
DirB == <<"b">>
DirSub == <<"a", "sub">>   \* nested below DirA: scanned twice, found once

Store(dir, file, name, actor) ==
  [path |-> Append(dir, file), name |-> name, actor |-> actor]

MCInstances == <<"k1", "k2", "k3">>
MCFiles == <<Store(DirA, "f1", "mine", FALSE),
             Store(DirSub, "f2", "statestore", TRUE),
             Store(DirB, "f3", "statestore", FALSE),
             Store(Home, "f4", "statestore", TRUE)>>
MCPaths == [k1 |-> <<DirA>>, k2 |-> <<DirB>>, k3 |-> <<DirSub, DirB>>]
MCComponents == [k1 |-> {"mine"}, k2 |-> {"statestore"},
                 k3 |-> {"mine", "statestore"}]
UniqueAppIDs == [k1 |-> "app1", k2 |-> "app2", k3 |-> "app3"]
NoOverride == <<>>

\* Two copies of one app, told apart by their instance keys only.
CopyInstances == <<"k1", "k2">>
CopyFiles == <<Store(DirA, "f1", "statestore", FALSE),
               Store(DirB, "f3", "statestore", FALSE)>>
CopyPaths == [k1 |-> <<DirA>>, k2 |-> <<DirB>>]
CopyComponents == [k1 |-> {"statestore"}, k2 |-> {"statestore"}]
SameAppID == [k1 |-> "order", k2 |-> "order"]
=============================================================================
