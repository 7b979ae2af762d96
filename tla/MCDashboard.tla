------------------------------ MODULE MCDashboard ------------------------------
(* The pages on a small instance: three stores, two of them copies of one   *)
(* (the same identity), three rows over two apps with a page of two, and    *)
(* one row each that a filter keeps out; histories with repeated ids; logs  *)
(* longer than the line cap, with lines that carry no timestamp; component  *)
(* types that share a category and a field; an app in compose and an        *)
(* orphaned sidecar; store types that share a field, with a catalogue that  *)
(* comes late.                                                              *)
EXTENDS Dashboard, TLC

MCKeyOrder == <<"r1", "r2", "r3">>
MCIdentity == [s1 |-> "x", s2 |-> "y", s1b |-> "x"]
MCAppOf == [r1 |-> "A", r2 |-> "A", r3 |-> "B"]
MCLoadedBy == [s1 |-> "B", s2 |-> None, s1b |-> "B"]

List(ids, active) == [ids |-> ids, active |-> active]
MCFirstList == List(<<"s1", "s2", "s1b">>, "s1")
MCWorkflowLists == {MCFirstList, List(<<"s2", "s1b">>, "s2")}
MCStoreLists == MCWorkflowLists \cup {List(<<>>, None)}

Rows(first, second, third) == [r1 |-> first, r2 |-> second, r3 |-> third]
MCWorkflowDb == [x |-> Rows("Running", "Completed", "Running"), y |-> Rows("Running", None, None)]
MCWorkflowChurn == {[at |-> "x", id |-> "r1", to |-> "Completed"]}
MCRecordDb == [x |-> Rows("old", "old", "old"), y |-> Rows("other", None, None)]
MCRecordChurn == {[at |-> "x", id |-> "r1", to |-> v] : v \in {None, "new"}}

HistoryEvent(type, id, scheduled, time) ==
  [type |-> type, sequenceId |-> id, scheduledId |-> scheduled, timestamp |-> time]
MCEventPool ==
  [p |-> {HistoryEvent("TaskScheduled", 0, None, 1), HistoryEvent("TaskScheduled", 0, None, 2),
          HistoryEvent("TaskCompleted", -1, 0, 2), HistoryEvent("ExecutionCompleted", 0, None, 2)},
   c |-> {}]
MCMaxEvents == [p |-> 4, c |-> 0]

Line(time, level, hit) == [time |-> time, level |-> level, hit |-> hit]
MCScript ==
  <<"a", "daprd">> :> <<Line(1, "info", TRUE), Line(None, "info", FALSE), Line(3, "error", TRUE)>>
  @@ <<"a", "app">> :> <<Line(None, "info", TRUE), Line(2, "error", FALSE)>>
  @@ <<"cp", "compose">> :> <<Line(1, "info", TRUE)>>
  @@ [path \in {<<"b", "daprd">>, <<"b", "app">>, <<"cp", "sched">>} |-> <<>>]
MCStreamable == [a |-> {"daprd", "app"}, b |-> {"app"}]

MCCategoryOf == [redis |-> "state", mongo |-> "state", kafka |-> "pubsub"]
MCProfilesOf == [redis |-> {"password"}, mongo |-> {}, kafka |-> {"oauth"}]
MCRequired == [redis |-> {"host"}, mongo |-> {"host"}, kafka |-> {},
               password |-> {"secret"}, oauth |-> {"secret"}]
MCOptional == [redis |-> {"ttl"}, mongo |-> {}, kafka |-> {"ttl"}, password |-> {}, oauth |-> {}]

AppState(app, daprd, orphaned) == [app |-> app, daprd |-> daprd, orphaned |-> orphaned]
MCSourceOf == [web |-> "compose", job |-> "standalone"]
MCFirstApps == [web |-> AppState("running", "running", FALSE),
                job |-> AppState("stopped", "running", TRUE)]
MCAppChurn == {[key |-> x, to |-> AppState("stopped", "stopped", FALSE)] : x \in {"web", "job"}}

MCRequiredOf == [redis |-> {"host"}, mongo |-> {"host", "db"}]
MCOptionalOf == [redis |-> {"timeout"}, mongo |-> {}]
MCSyntheticOf == [redis |-> {}, mongo |-> {"host"}]
MCFirstConnections == [ids |-> {"c1", "c2"}, active |-> "c1"]
=============================================================================
