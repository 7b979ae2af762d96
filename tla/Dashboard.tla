------------------------------- MODULE Dashboard -------------------------------
(***************************************************************************)
(* The web application's pages under its router (src/web/src/router.tsx):  *)
(* one page is mounted at a time, with its own state, queries, streams and *)
(* requests; the others do not run.  A behaviour is one visit.             *)
(***************************************************************************)
EXTENDS ListPage, ResiliencyBuilder

CONSTANTS Stores, StoreLists, AppOf, Hits, FirstList, MaxActs, MaxChanges,
          Children, LoadedBy, WorkflowDb, WorkflowLists, WorkflowChurn,
          Internal, Base64, RecordDb, RecordChurn, MaxRequests,
          Instances, Root, EventPool, MaxEvents, MaxDetailActs,
          LogApps, Streamable, StaticCp, FetchedCp, Script, LINE_CAP, MaxBreaks, MaxLogActs,
          Schemas, CategoryOf, ProfilesOf, Required, Optional, MaxEntries,
          AppKeys, SourceOf, FirstApps, AppChurn,
          StoreTypes, FirstType, RequiredOf, OptionalOf, SyntheticOf, Numeric,
          Connections, NewId, FirstConnections, MaxPanelActs

VARIABLES page, w, wq, wreq, wsrv, wg, s, sq, sreqs, ssrv, sg,
          d, dcache, dreq, dsrv, dg, l, lstr, lsrv, lg, cb, centries,
          a, aq, areqs, asrv, ag, k, kreqs, ksrv, kg

(* The catalogues: every component and profile has its fields, and the      *)
(* fields the connection dialog adds are among their type's; the panel      *)
(* starts from connections it has ids for.                                  *)
ASSUME CatalogueAssumption ==
  /\ None \notin Schemas
  /\ Schemas \subseteq DOMAIN Required
  /\ \A schema \in Schemas : ProfilesOf[schema] \subseteq DOMAIN Required
  /\ FirstType \in StoreTypes
  /\ \A t \in StoreTypes : SyntheticOf[t] \subseteq RequiredOf[t]
  /\ NewId \in Connections
  /\ FirstConnections \in [ids: SUBSET Connections, active: Connections \cup {None}]

(* The server has a table of every record for each store's identity; no     *)
(* answer is not a success.                                                 *)
ASSUME RecordsAssumption ==
  /\ RecordDb = [x \in DOMAIN RecordDb |-> [key \in Keys |-> RecordDb[x][key]]]
  /\ None # "ok"

(* The execution the detail page opens on is one of those it can show. *)
ASSUME DetailAssumption == Root \in Instances

W == INSTANCE WorkflowsPage WITH StoreLists <- WorkflowLists, Churn <- WorkflowChurn
S == INSTANCE StatePage WITH Churn <- RecordChurn
D == INSTANCE WorkflowDetailPage WITH MaxActs <- MaxDetailActs
L == INSTANCE LogsPage WITH MaxActs <- MaxLogActs
C == INSTANCE ComponentBuilder
A == INSTANCE AppsPage
K == INSTANCE ConnectionsPanel WITH MaxEntries <- MaxPanelActs

(* The applications page tells the list from an application, and what the   *)
(* server lists from no answer.                                             *)
ASSUME AppsAssumption ==
  /\ "list" \notin AppKeys
  /\ None \notin A!Listings
  /\ FirstApps \in A!Listings
  /\ \A c \in AppChurn : c.to \in A!States \cup {None}

(* Every stream the log viewer may open is a log, whose lines carry the     *)
(* writer's clock or none, and that clock does not run back.                *)
ASSUME LogsAssumption ==
  /\ LINE_CAP \in Nat
  /\ LogApps \X {"daprd", "app"} \subseteq DOMAIN Script
  /\ {"cp"} \X (StaticCp \cup FetchedCp) \subseteq DOMAIN Script
  /\ \A path \in DOMAIN Script :
       /\ Script[path] \in Seq([time: {None} \cup Nat, level: L!ALL_LEVELS, hit: BOOLEAN])
       /\ \A i, j \in DOMAIN Script[path] :
            i < j /\ None \notin {Script[path][i].time, Script[path][j].time}
              => Script[path][i].time <= Script[path][j].time

wvars == <<w, wq, wreq, wsrv, wg>>
svars == <<s, sq, sreqs, ssrv, sg>>
dvars == <<d, dcache, dreq, dsrv, dg>>
lvars == <<l, lstr, lsrv, lg>>
cvars == <<cb, centries>>
avars == <<a, aq, areqs, asrv, ag>>
kvars == <<k, kreqs, ksrv, kg>>
vars == <<page, wvars, svars, dvars, lvars, cvars, avars, kvars, rvars>>

routes == {"workflows", "state", "workflow detail", "logs", "component builder",
           "resiliency builder", "applications", "connections"}

Init ==
  /\ page \in routes
  /\ W!WInit(WorkflowDb, FirstList)
  /\ S!SInit(RecordDb, FirstList)
  /\ D!DInit
  /\ L!LInit
  /\ C!CInit
  /\ A!AInit
  /\ K!KInit
  /\ RInit

Workflows ==
  /\ page = "workflows" /\ W!WNext
  /\ UNCHANGED <<page, svars, dvars, lvars, cvars, rvars, avars, kvars>>

State ==
  /\ page = "state" /\ S!SNext
  /\ UNCHANGED <<page, wvars, dvars, lvars, cvars, rvars, avars, kvars>>

WorkflowDetail ==
  /\ page = "workflow detail" /\ D!DNext
  /\ UNCHANGED <<page, wvars, svars, lvars, cvars, rvars, avars, kvars>>

Logs ==
  /\ page = "logs" /\ L!LNext
  /\ UNCHANGED <<page, wvars, svars, dvars, cvars, rvars, avars, kvars>>

BuildComponent ==
  /\ page = "component builder" /\ C!CNext
  /\ UNCHANGED <<page, wvars, svars, dvars, lvars, rvars, avars, kvars>>

BuildResiliency ==
  /\ page = "resiliency builder" /\ RNext
  /\ UNCHANGED <<page, wvars, svars, dvars, lvars, cvars, avars, kvars>>

Applications ==
  /\ page = "applications" /\ A!ANext
  /\ UNCHANGED <<page, wvars, svars, dvars, lvars, cvars, kvars, rvars>>

StoreConnections ==
  /\ page = "connections" /\ K!KNext
  /\ UNCHANGED <<page, wvars, svars, dvars, lvars, cvars, avars, rvars>>

Next == \/ Workflows
        \/ State
        \/ WorkflowDetail
        \/ Logs
        \/ BuildComponent
        \/ BuildResiliency
        \/ Applications
        \/ StoreConnections

Spec == Init /\ [][Next]_vars

-----------------------------------------------------------------------------
(* What the mounted page promises, stated in its module; ReferencesResolve  *)
(* of the resiliency builder is checked as it stands there.                 *)

(* A bulk removal or delete names only what the user checked in the store   *)
(* it is sent to (Workflows.tsx, State.tsx).                                *)
RemovalWasChosen ==
  /\ page = "workflows" => W!RemovalWasChosen
  /\ page = "state" => S!RemovalWasChosen

(* After a removal, a write, a lifecycle action or a change of connections  *)
(* the page shows the server's answer (useWorkflowRemoval.ts,               *)
(* useStateRecords.ts, useAppAction.ts, useStoreMutations.ts invalidate).   *)
ListCatchesUp ==
  /\ page = "workflows" => W!ListCatchesUp
  /\ page = "state" => S!ListCatchesUp
  /\ page = "applications" => A!ListCatchesUp
  /\ page = "connections" => K!ListCatchesUp

(* The history's starts and ends are paired as brackets (pairing.ts) and    *)
(* the timeline's anchors are right in both orders (eventOrder.ts).         *)
PairsMatch == page = "workflow detail" => D!PairsMatch

(* A dismissed selection stays so while the history is polled               *)
(* (WorkflowDetail.tsx jumpToHash).                                         *)
DismissedStaysDismissed == page = "workflow detail" => D!DismissedStaysDismissed

(* The log viewer shows the chosen streams only, each in its order          *)
(* (Logs.tsx tagStream and the merge, useLogStream.ts).                     *)
StreamOrderKept == page = "logs" => L!StreamOrderKept

(* Following keeps the view at the bottom, at the line cap too              *)
(* (useFollowScroll.ts).                                                    *)
FollowPinned == page = "logs" => L!FollowPinned

(* The emitted component, and a connection being added, hold what was       *)
(* entered for their type, and all it requires (component-builder/          *)
(* reducer.ts, StateStoreConnectionDialog.tsx).                             *)
ConfigBelongs ==
  /\ page = "component builder" => C!ConfigBelongs
  /\ page = "connections" => K!ConfigBelongs
=============================================================================
