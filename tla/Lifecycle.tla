----------------------------- MODULE Lifecycle -----------------------------
(***************************************************************************)
(* The lifecycle manager, its registry of stopped instances and the        *)
(* overlay that corrects what discovery reports (pkg/lifecycle), with the  *)
(* parts of pkg/discovery that decide what they see.                       *)
(*                                                                         *)
(* Registry entries, suppression and processes are all per instance key,   *)
(* so one instance is modelled, of any kind: a `dapr run` with its CLI, a  *)
(* process-table instance run by Aspire, a compose sidecar with its app    *)
(* container, or one without.  Requests interleave at every lock, scan,    *)
(* probe and signal.  A pid is the number of the launch that created the   *)
(* process, 0 none or unknown; pids are not reused.  A snapshot is its pid.*)
(***************************************************************************)
EXTENDS Naturals, Sequences, FiniteSets, Functions

CONSTANTS
  Poll,     \* the request that lists apps again and again
  Users,    \* other requests
  MaxPid,   \* bound on launches
  MaxReqs,  \* bound on the requests of each user
  NoEntry   \* no entry in the registry

Procs == Users \cup {Poll}
Targets == {"app", "daprd", "all"}   \* "all" is the dapr CLI
Containers == {"paired", "unpaired"}
Kinds == {"dapr run", "aspire"} \cup Containers
Pids == 0 .. MaxPid
Statuses == {"running", "stopped", ""}
Actions == {"stop", "start", "restart"}
Ops == {"list", "clear", "dismiss"} \cup Actions

\* A stopped instance: of its stop-time value the parts read again, and the
\* snapshot of each target.
Entries == [in : [app : Pids, aspire : BOOLEAN], procs : [Targets -> Pids]]

ASSUME LifecycleAssumption ==
  /\ MaxPid \in Nat \ {0}
  /\ MaxReqs \in Nat
  /\ Poll \notin Users
  /\ NoEntry \notin Entries

VARIABLES
  kind,         \* what kind of instance this is
  pid,          \* the live process (or container) of each target
  last,         \* the last launch
  cache,        \* ComposeSource: the scan it serves for composeCacheTTL
  entry,        \* Registry.entries
  suppressed,   \* Registry.suppressed
  req,          \* the requests
  left,         \* how many more each user makes
  owed,         \* history: snapshots of stops the user was promised to see
  quiet         \* history: dismissed while nothing ran and no request knew better

vars == <<kind, pid, last, cache, entry, suppressed, req, left, owed, quiet>>
registry == <<entry, suppressed>>
history == <<owed, quiet>>
world == <<kind, pid, last, cache>>

NoProcs == [t \in Targets |-> 0]
Parts == CASE kind = "dapr run" -> Targets
           [] kind = "unpaired" -> {"daprd"}
           [] OTHER -> {"app", "daprd"}
Alive(t, g) == g # 0 /\ pid[t] = g

\* A target of a list, if it is wanted there.
Chosen(t, wanted) == IF wanted THEN <<t>> ELSE <<>>

NoView == [found |-> "none", daprd |-> 0, cli |-> 0, app |-> 0, appStatus |-> "",
           daprdStatus |-> "", orphan |-> FALSE, aspire |-> FALSE]
Views == [found : {"none", "live", "ghost"}, daprd : Pids, cli : Pids, app : Pids,
          appStatus : Statuses, daprdStatus : Statuses, orphan : BOOLEAN, aspire : BOOLEAN]

\* The pid an instance value holds for a target.
Observed(in, t) == CASE t = "app" -> in.app [] t = "daprd" -> in.daprd [] t = "all" -> in.cli

fullyStopped(in) ==
  in.found # "none" /\ in.appStatus = "stopped" /\ in.daprdStatus = "stopped"

----------------------------------------------------------------------------
(***************************************************************************)
(* Requests.                                                               *)
(***************************************************************************)
Idle == [pc |-> "done", op |-> "list", target |-> "all", view |-> NoView, held |-> NoProcs,
         todo |-> <<>>, saw |-> FALSE, ok |-> TRUE]

Init ==
  /\ kind \in Kinds
  /\ pid = NoProcs
  /\ last = 0
  /\ cache = [fresh |-> FALSE, up |-> {}]
  /\ entry = NoEntry
  /\ suppressed = FALSE
  /\ req = [p \in Procs |-> Idle]
  /\ left = [p \in Users |-> MaxReqs]
  /\ owed = NoProcs
  /\ quiet = FALSE

At(p, at) == req[p].pc = at
Goto(p, r) == req' = [req EXCEPT ![p] = r] /\ UNCHANGED left
\* The request continues at `to` with the instance value in.
Seen(p, to, in) == Goto(p, [req[p] EXCEPT !.pc = to, !.view = in])
\* The request ends: with or without an error, a list with or without the
\* instance.
Returns(p, isOk) == Goto(p, [Idle EXCEPT !.ok = isOk])

\* Get's caller acts on the pids it found, List's callers read statuses only.
Applied(p, in) ==
  IF req[p].op \in Actions
    THEN [req[p] EXCEPT !.pc = "dispatch", !.view = in, !.todo = <<>>, !.held = NoProcs]
    ELSE [req[p] EXCEPT !.pc = "filter", !.todo = <<>>, !.held = NoProcs,
                        !.view = [in EXCEPT !.daprd = 0, !.cli = 0, !.app = 0,
                                            !.orphan = FALSE, !.aspire = FALSE]]
\* List serves the instance, and ClearInactive dismisses it if it is stopped.
Serve(p) ==
  IF req[p].op = "clear" /\ fullyStopped(req[p].view)
    THEN Goto(p, [Idle EXCEPT !.op = "clear", !.pc = "drop"])
    ELSE Returns(p, TRUE)

\* GET /apps, POST clear-inactive, POST {target}/{action}, DELETE.
Begin(p, op, t) ==
  /\ At(p, "done")
  /\ op = "list" <=> p = Poll
  /\ IF p = Poll THEN UNCHANGED left
     ELSE left[p] > 0 /\ left' = [left EXCEPT ![p] = @ - 1]
  /\ op \notin Actions => t = "all"
  /\ op \in {"start", "restart"} /\ kind \notin Containers => t = "all" \* always refused
  /\ req' = [req EXCEPT ![p] = [Idle EXCEPT !.op = op, !.target = t,
                                   !.pc = IF op = "dismiss" THEN "drop" ELSE "scan"]]
  /\ UNCHANGED <<world, registry, history>>

----------------------------------------------------------------------------
(***************************************************************************)
(* Discovery.                                                              *)
(***************************************************************************)

\* StandaloneScanner: the process table lists the instance by its daprd.
ScanProcesses(p) ==
  /\ At(p, "scan")
  /\ kind \notin Containers
  /\ IF pid["daprd"] = 0
       THEN Seen(p, "lookup", NoView)
       ELSE Seen(p, "enrich", [NoView EXCEPT !.found = "live", !.daprd = pid["daprd"],
                                             !.daprdStatus = "running"])
  /\ UNCHANGED <<world, registry, history>>

composeStatus(t, running) ==
  IF t \notin Parts THEN "" ELSE IF t \in running THEN "running" ELSE "stopped"

\* ComposeSource.scan: stopped containers are listed too, and a scan is served
\* again until it expires.  The registry is not consulted for containers.
ScanContainers(p) ==
  /\ At(p, "scan")
  /\ kind \in Containers
  /\ LET up == IF cache.fresh THEN cache.up ELSE {t \in Parts : pid[t] # 0}
     IN /\ cache' = [fresh |-> TRUE, up |-> up]
        /\ Goto(p, [Applied(p, [NoView EXCEPT !.found = "live",
                                  !.appStatus = composeStatus("app", up),
                                  !.daprdStatus = composeStatus("daprd", up)])
                    EXCEPT !.saw = "app" \in up])
  /\ UNCHANGED <<kind, pid, last, registry, history>>

\* enrich when the sidecar's metadata cannot be fetched.  The CLI pid is the
\* one the scan reported: that of the launch, alive or not, or none.
MetadataFails(p) ==
  /\ At(p, "enrich")
  /\ \E c \in IF kind = "dapr run" THEN {0, req[p].view.daprd} ELSE {0} :
       Seen(p, "apply", [req[p].view EXCEPT !.cli = c])
  /\ UNCHANGED <<world, registry, history>>

\* enrich with the metadata of the daprd that listens now.  Once the CLI has
\* registered them it names the pids of the CLI and of the app; an app without
\* a pid is probed by its port.  A CLI that has exited counts as none.
Enrich(p, registered) ==
  /\ At(p, "enrich")
  /\ pid["daprd"] # 0
  /\ registered => kind = "dapr run"
  /\ LET in == req[p].view
         launch == pid["daprd"]
         running == IF registered THEN Alive("app", launch) ELSE pid["app"] # 0
         status == IF running THEN "running" ELSE "stopped"
         cli == IF registered /\ Alive("all", launch) THEN launch ELSE 0
         aspire == kind = "aspire"
     IN Goto(p, [req[p] EXCEPT !.pc = "apply",
          !.saw = running /\ (registered \/ aspire),
          !.view = [in EXCEPT !.app = IF running /\ registered THEN launch ELSE 0,
                      !.appStatus = status, !.cli = cli, !.aspire = aspire,
                      !.orphan = ~aspire /\ cli = 0 /\ ~running]])
  /\ UNCHANGED <<world, registry, history>>

----------------------------------------------------------------------------
(***************************************************************************)
(* The overlay.                                                            *)
(***************************************************************************)

\* Mutant of Stale: seeing the target alive is taken for a restart.
StaleWhenSeen(in, procs, t) == procs[t] # 0 /\ Observed(in, t) # 0

\* Mutant of Stale: the app's pid is not compared.
StaleSidecarOnly(in, procs, t) ==
  t # "app" /\ procs[t] # 0 /\ Observed(in, t) # 0 /\ Observed(in, t) # procs[t]

\* A snapshot whose target reappeared under a new pid.
Stale(in, procs, t) ==
  procs[t] # 0 /\ Observed(in, t) # 0 /\ Observed(in, t) # procs[t]

\* The order of applyEntry's checks.
Drops(in, procs) ==
  LET stale(t) == Chosen(t, Stale(in, procs, t)) IN stale("daprd") \o stale("all") \o stale("app")

\* applyEntry's Get: the entry is copied; its stale targets are dropped later.
ApplyEntry(p) ==
  /\ At(p, "apply")
  /\ LET in == req[p].view
         procs == IF entry = NoEntry THEN NoProcs ELSE entry.procs
         drops == Drops(in, procs)
         appStopped == procs["app"] # 0 /\ ~Stale(in, procs, "app")
         out == IF appStopped THEN [in EXCEPT !.appStatus = "stopped", !.app = 0] ELSE in
         next == IF drops = <<>> THEN Applied(p, out)
                 ELSE [req[p] EXCEPT !.pc = "droptarget", !.view = out,
                                     !.held = procs, !.todo = drops]
     IN Goto(p, [next EXCEPT !.saw = @ /\ (in.app # 0 => Alive("app", in.app) /\ owed["app"] # in.app)])
  /\ UNCHANGED <<world, registry, history>>

\* Registry.DropTarget; the entry disappears with its last target.
WithoutTarget(e, t) ==
  LET procs == [e.procs EXCEPT ![t] = 0]
  IN IF procs = NoProcs THEN NoEntry ELSE [e EXCEPT !.procs = procs]

\* The snapshot dropped is not the one the request compared, or the request's
\* scan is older than it.
RacedDrop(p, t) ==
  /\ entry # NoEntry
  /\ \/ req[p].held[t] # entry.procs[t]
     \/ Observed(req[p].view, t) \in 1 .. (entry.procs[t] - 1)

DropTarget(p) ==
  /\ At(p, "droptarget")
  /\ LET t == Head(req[p].todo)
         rest == Tail(req[p].todo)
     IN /\ entry' = IF entry = NoEntry THEN NoEntry ELSE WithoutTarget(entry, t)
        /\ owed' = IF RacedDrop(p, t) THEN [owed EXCEPT ![t] = 0] ELSE owed
        /\ IF rest = <<>> THEN Goto(p, Applied(p, req[p].view))
           ELSE Goto(p, [req[p] EXCEPT !.todo = rest])
  /\ UNCHANGED <<world, suppressed, quiet>>

\* synthesize: a stopped instance from its stop-time value, of which the app's
\* pid and the Aspire mark survive.  An app with a known pid was running.
synthesize(e) ==
  LET gone == e.procs["app"] # 0 \/ ~Alive("app", e.in.app)
  IN [NoView EXCEPT !.found = "ghost", !.daprdStatus = "stopped", !.aspire = e.in.aspire,
                    !.app = IF gone THEN 0 ELSE e.in.app,
                    !.appStatus = IF gone THEN "stopped" ELSE "running"]

\* An instance the scan did not find: Registry.List for List, Registry.Get and
\* ErrNotFound for Get.
Lookup(p) ==
  /\ At(p, "lookup")
  /\ IF entry # NoEntry THEN Goto(p, Applied(p, synthesize(entry)))
     ELSE Returns(p, req[p].op \notin Actions)
  /\ UNCHANGED <<world, registry, history>>

\* Mutant of Filter: a stopped instance is unsuppressed too.
FilterForgets(p) ==
  /\ At(p, "filter")
  /\ IF suppressed THEN Seen(p, "unsuppress", req[p].view) ELSE Serve(p)
  /\ UNCHANGED <<world, registry, history>>

\* Mutant of Filter: suppressed instances are skipped whatever their status.
FilterHides(p) ==
  /\ At(p, "filter")
  /\ IF suppressed THEN Returns(p, FALSE) ELSE Serve(p)
  /\ UNCHANGED <<world, registry, history>>

\* List's suppression loop: cleared instances stay hidden while stopped.
Filter(p) ==
  /\ At(p, "filter")
  /\ LET in == req[p].view
     IN IF ~suppressed THEN Serve(p)
        ELSE IF fullyStopped(in) THEN Returns(p, FALSE)
        ELSE Seen(p, "unsuppress", in)
  /\ UNCHANGED <<world, registry, history>>

Unsuppress(p) ==
  /\ At(p, "unsuppress")
  /\ suppressed' = FALSE
  /\ Serve(p)
  /\ UNCHANGED <<world, entry, history>>

----------------------------------------------------------------------------
(***************************************************************************)
(* Dismiss and ClearInactive: Drop, then Suppress.                         *)
(***************************************************************************)
Drop(p) ==
  /\ At(p, "drop")
  /\ entry' = NoEntry
  /\ owed' = NoProcs
  /\ Goto(p, [req[p] EXCEPT !.pc = "suppress"])
  /\ UNCHANGED <<world, suppressed, quiet>>

\* Nothing runs, and no scan or request in flight saw it running.
NothingKnownRunning(p) ==
  /\ kind # "unpaired"
  /\ pid = NoProcs
  /\ ~(cache.fresh /\ cache.up # {})
  /\ \A q \in Procs \ {p} :
       At(q, "done") \/ req[q].view.found = "none" \/ fullyStopped(req[q].view)

Suppress(p) ==
  /\ At(p, "suppress")
  /\ suppressed' = TRUE
  /\ quiet' = NothingKnownRunning(p)
  /\ Returns(p, TRUE)
  /\ UNCHANGED <<world, entry, owed>>

----------------------------------------------------------------------------
(***************************************************************************)
(* Do on a process-table instance.                                         *)
(***************************************************************************)

\* Sidecar actions on a dapr run act on the whole instance.
Effective(p) ==
  IF ~req[p].view.aspire /\ req[p].target = "daprd" THEN "all" ELSE req[p].target

Known(in, t) == Chosen(t, Observed(in, t) # 0)

\* Mutant of Signals: the app's pid is not checked.
SignalsUnchecked(in, target) ==
  CASE target = "app" -> <<"app">>
    [] target = "daprd" -> Known(in, "daprd")
    [] target = "all" -> IF in.cli # 0 THEN <<"all">> ELSE Known(in, "app") \o Known(in, "daprd")

\* The processes signalled: all prefers the CLI, which reaps its children.
Signals(in, target) ==
  CASE target = "app" -> Known(in, "app")
    [] target = "daprd" -> Known(in, "daprd")
    [] target = "all" -> IF in.cli # 0 THEN <<"all">> ELSE Known(in, "app") \o Known(in, "daprd")

\* Aspire instances and orphans allow stop only, and so do dapr runs.
Refuse(p) ==
  /\ At(p, "dispatch")
  /\ kind \notin Containers
  /\ req[p].op # "stop" \/ Signals(req[p].view, Effective(p)) = <<>>
  /\ Returns(p, FALSE)
  /\ UNCHANGED <<world, registry, history>>

\* What standaloneStop captures: every known process it may kill, directly or
\* as a child of the CLI; a process that has gone cannot be captured.
Snapshots(in, target) ==
  [t \in Targets |-> IF (t = "daprd" \/ target # "daprd") /\ Alive(t, Observed(in, t))
                       THEN Observed(in, t) ELSE 0]

\* RecordStop merges the snapshots into the entry.
Merge(old, snaps) == [t \in Targets |-> IF snaps[t] # 0 THEN snaps[t] ELSE old[t]]

\* Orphans record nothing.
RecordStop(p) ==
  /\ At(p, "dispatch")
  /\ kind \notin Containers
  /\ LET in == req[p].view
         pids == Signals(in, Effective(p))
         snaps == Snapshots(in, Effective(p))
         old == IF entry = NoEntry THEN NoProcs ELSE entry.procs
     IN /\ req[p].op = "stop"
        /\ pids # <<>>
        /\ IF in.orphan
             THEN UNCHANGED <<entry, owed>>
             ELSE /\ entry' = [in |-> [app |-> in.app, aspire |-> in.aspire],
                               procs |-> Merge(old, snaps)]
                  /\ owed' = Merge(owed, snaps)
        /\ Goto(p, [Idle EXCEPT !.pc = "terminate", !.op = "stop", !.todo = pids,
                      !.held = [t \in Targets |-> IF t \in Range(pids) THEN Observed(in, t) ELSE 0]])
  /\ UNCHANGED <<world, suppressed, quiet>>

\* The pid being signalled.
Victim(p) == req[p].held[Head(req[p].todo)]
NextPid(p) ==
  LET rest == Tail(req[p].todo)
  IN IF rest = <<>> THEN Returns(p, TRUE)
     ELSE Goto(p, [req[p] EXCEPT !.todo = rest, !.pc = "terminate"])

\* SIGTERM; a pid that has gone is an error.
Terminate(p) ==
  /\ At(p, "terminate")
  /\ IF Alive(Head(req[p].todo), Victim(p))
       THEN Goto(p, [req[p] EXCEPT !.pc = "wait"])
       ELSE Returns(p, FALSE)
  /\ UNCHANGED <<world, registry, history>>

Exited(p) ==
  /\ At(p, "wait")
  /\ ~Alive(Head(req[p].todo), Victim(p))
  /\ NextPid(p)
  /\ UNCHANGED <<world, registry, history>>

\* The client went away while the dashboard waited.
Cancelled(p) ==
  /\ At(p, "wait")
  /\ Returns(p, FALSE)
  /\ UNCHANGED <<world, registry, history>>

\* Mutant of Kill: the stop gives up waiting without the SIGKILL.
GiveUp(p) ==
  /\ At(p, "wait")
  /\ NextPid(p)
  /\ UNCHANGED <<world, registry, history>>

\* The grace period is over: SIGKILL.
Kill(p) ==
  /\ At(p, "wait")
  /\ Alive(Head(req[p].todo), Victim(p))
  /\ pid' = [pid EXCEPT ![Head(req[p].todo)] = 0]
  /\ NextPid(p)
  /\ UNCHANGED <<kind, last, cache, registry, history>>

----------------------------------------------------------------------------
(***************************************************************************)
(* Do on containers: one runtime command per container, in order.          *)
(***************************************************************************)

\* Stop takes the app down first, start and restart bring the sidecar up first.
composeTargets(target, action) ==
  LET chosen(t) == Chosen(t, t \in Parts /\ target \in {t, "all"})
  IN IF action = "stop" THEN chosen("app") \o chosen("daprd")
     ELSE chosen("daprd") \o chosen("app")

DispatchCompose(p) ==
  /\ At(p, "dispatch")
  /\ kind \in Containers
  /\ LET ids == composeTargets(req[p].target, req[p].op)
     IN IF ids = <<>> THEN Returns(p, FALSE)
        ELSE Goto(p, [req[p] EXCEPT !.pc = "runtime", !.todo = ids])
  /\ UNCHANGED <<world, registry, history>>

RunContainer(p) ==
  /\ At(p, "runtime")
  /\ LET t == Head(req[p].todo)
         rest == Tail(req[p].todo)
     IN /\ pid' = [pid EXCEPT ![t] = IF req[p].op = "stop" THEN 0 ELSE 1]
        /\ quiet' = (quiet /\ req[p].op = "stop")
        /\ IF rest = <<>> THEN Returns(p, TRUE)
           ELSE Goto(p, [req[p] EXCEPT !.todo = rest])
  /\ UNCHANGED <<kind, last, cache, registry, owed>>

RuntimeFails(p) ==
  /\ At(p, "runtime")
  /\ Returns(p, FALSE)
  /\ UNCHANGED <<world, registry, history>>

----------------------------------------------------------------------------
(***************************************************************************)
(* The machine: processes start outside the dashboard, exit by themselves, *)
(* by a signal or because their CLI tears them down; a cached scan ages.   *)
(***************************************************************************)
Starts(ts, g) ==
  /\ \A t \in ts : pid[t] = 0
  /\ pid' = [t \in Targets |-> IF t \in ts THEN g ELSE pid[t]]
  /\ owed' = [t \in Targets |-> IF t \in ts THEN 0 ELSE owed[t]]
  /\ quiet' = FALSE
  /\ UNCHANGED <<kind, cache, registry, req, left>>

Launch ==
  /\ kind \notin Containers
  /\ last < MaxPid
  /\ last' = last + 1
  /\ \E ts \in IF kind = "aspire" THEN (SUBSET Parts) \ {{}} ELSE {Parts} : Starts(ts, last + 1)

StartContainer ==
  /\ kind \in Containers
  /\ \E t \in Parts : Starts({t}, 1)
  /\ UNCHANGED last

Exit ==
  /\ \E t \in Parts : pid[t] # 0 /\ pid' = [pid EXCEPT ![t] = 0]
  /\ UNCHANGED <<kind, last, cache, registry, req, left, history>>

Expire ==
  /\ cache.fresh
  /\ cache' = [fresh |-> FALSE, up |-> {}]
  /\ UNCHANGED <<kind, pid, last, registry, req, left, history>>

----------------------------------------------------------------------------
Step(p) ==
  \/ ScanProcesses(p) \/ ScanContainers(p) \/ MetadataFails(p)
  \/ \E registered \in BOOLEAN : Enrich(p, registered)
  \/ ApplyEntry(p) \/ DropTarget(p) \/ Lookup(p) \/ Filter(p) \/ Unsuppress(p)
  \/ Drop(p) \/ Suppress(p)
  \/ Refuse(p) \/ RecordStop(p) \/ Terminate(p) \/ Exited(p) \/ Cancelled(p) \/ Kill(p)
  \/ DispatchCompose(p) \/ RunContainer(p) \/ RuntimeFails(p)

Requests == \E p \in Procs :
  \/ Step(p)
  \/ \E op \in Ops, t \in Targets : Begin(p, op, t)

Next == Requests \/ Launch \/ StartContainer \/ Exit \/ Expire

Spec == Init /\ [][Next]_vars

\* The frontend lists apps every few seconds; each List runs to its end, and a
\* cached scan expires.
FairSpec ==
  /\ Spec
  /\ WF_vars(Step(Poll) \/ Begin(Poll, "list", "all"))
  /\ WF_vars(Expire)

----------------------------------------------------------------------------
(***************************************************************************)
(* Properties.                                                             *)
(***************************************************************************)

\* Types; in particular a stop never signals pid 0, which would be the
\* dashboard's own process group.
TypeOK ==
  /\ kind \in Kinds
  /\ pid \in [Targets -> Pids]
  /\ last \in Pids
  /\ cache \in [fresh : BOOLEAN, up : SUBSET Targets]
  /\ entry \in {NoEntry} \cup Entries
  /\ suppressed \in BOOLEAN
  /\ owed \in [Targets -> Pids]
  /\ quiet \in BOOLEAN
  /\ left \in [Users -> 0 .. MaxReqs]
  /\ \A p \in Procs :
       /\ req[p].view \in Views
       /\ req[p].held \in [Targets -> Pids]
       /\ req[p].saw \in BOOLEAN
       /\ Len(req[p].todo) <= 3
       /\ req[p].pc \in {"terminate", "wait"} => Victim(p) # 0

\* The request ends in this step.
Ends(p) == ~At(p, "done") /\ req'[p].pc = "done"

\* A list whose scan found something running serves the instance, whatever was
\* dismissed before, and shows an app seen alive as running unless that very
\* process was one the dashboard was asked to stop.
RunningShown ==
  [][\A p \in Procs :
       LET in == req[p].view
       IN Ends(p) /\ req[p].op = "list" /\ "running" \in {in.appStatus, in.daprdStatus} =>
            req'[p].ok /\ (req[p].saw => in.appStatus = "running")]_vars

\* A process the dashboard recorded as stopped stays recorded until it is
\* launched again or dismissed, unless a request that scanned or read the
\* entry before the stop drops the new snapshot in place of an old one.
StopRemembered ==
  \A t \in Targets : owed[t] # 0 => entry # NoEntry /\ entry.procs[t] = owed[t]

\* A stop that reports success leaves none of the processes it signalled.
StopReported ==
  [][\A p \in Procs : Ends(p) /\ req[p].op = "stop" /\ req'[p].ok =>
       \A t \in Targets : req[p].held[t] # 0 => pid'[t] # req[p].held[t]]_vars

\* An instance dismissed while nothing of it ran, and no scan or request in
\* flight had seen it run, stays dismissed until it runs again.
DismissSticks == quiet => suppressed

\* An instance that runs does not stay suppressed while apps are listed.
Running == \E t \in Parts \ {"app", "all"} : pid[t] # 0
SuppressionLifts == (suppressed /\ Running) ~> (~suppressed \/ ~Running)

============================================================================
