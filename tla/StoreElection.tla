---------------------------- MODULE StoreElection ---------------------------
(***************************************************************************)
(* Store election over a changing set of apps, one poll at a time: the     *)
(* fingerprint decides whether a poll re-elects, so the fingerprint has to *)
(* cover everything the election depends on.  The interleavings of polls   *)
(* are the subject of Reconciler.                                          *)
(***************************************************************************)
EXTENDS ElectionOps

VARIABLES
  apps,    \* what discovery would list now
  seen,    \* the snapshot the last reconcile ran on
  fp,      \* rc.fp
  active   \* rc.electedReg.active()

vars == <<apps, seen, fp, active>>

\* The boot seed reconciles the first snapshot.
Init ==
  /\ apps \in Snapshots
  /\ seen = apps
  /\ fp = appsFingerprint(apps)
  /\ active = Elected(apps)

\* An app starts, stops, disappears, or its sidecar stops answering.
AppChanges(k, st) ==
  /\ apps[k] # st
  /\ apps' = [apps EXCEPT ![k] = st]
  /\ UNCHANGED <<seen, fp, active>>

\* maybeReconcile: nothing to do when the fingerprint is the last one's.
Poll ==
  /\ \/ appsFingerprint(apps) = fp /\ UNCHANGED <<seen, fp, active>>
     \/ /\ appsFingerprint(apps) # fp
        /\ seen' = apps
        /\ fp' = appsFingerprint(apps)
        /\ active' = Elected(apps)
  /\ UNCHANGED apps

Next ==
  \/ \E k \in Keys, st \in States : AppChanges(k, st)
  \/ Poll

Spec == Init /\ [][Next]_vars

-----------------------------------------------------------------------------
(* Properties *)

\* The documented order of preference as a rank: an app's own store before a
\* global one it only shares the name with, that before an unused one, and an
\* actor store first among equals.
Rank(c, snap) ==
  (IF \E k \in Keys : snap[k] = "running" /\ c.name \in Components[k]
   THEN IF \E k \in Keys : /\ snap[k] \in {"running", "unreachable"}
                           /\ \E p \in Range(ResourcePaths[k]) :
                                IsPrefix(p, c.path)
        THEN 4 ELSE 2
   ELSE 0) + (IF c.actor THEN 1 ELSE 0)

\* The stores that may be elected for a snapshot: in the home directory or in a
\* directory of a listed app, or the --statestore file alone.
Candidates(snap) ==
  {c \in Range(Files) :
     IF StateStorePath # <<>> THEN IsPrefix(StateStorePath, c.path)
     ELSE \/ IsPrefix(HomePath, c.path)
          \/ \E k \in Keys : /\ snap[k] # "absent"
                             /\ \E p \in Range(ResourcePaths[k]) :
                                  IsPrefix(p, c.path)}

\* The active store is a candidate no candidate outranks, and there is one
\* whenever there is a candidate: the six passes of newStoreRegistry over the
\* detected components implement the rank.
BestElected ==
  /\ active = {} <=> Candidates(seen) = {}
  /\ \A a \in active :
       /\ a \in Candidates(seen)
       /\ \A c \in Candidates(seen) : Rank(c, seen) <= Rank(a, seen)

\* "hashes the apps-derived inputs that the reconciler depends on" (derive.go):
\* while the fingerprint is unchanged, a new election would elect the same
\* store, so skipping it is harmless.
FingerprintCovers == appsFingerprint(apps) = fp => Elected(apps) = active
=============================================================================
