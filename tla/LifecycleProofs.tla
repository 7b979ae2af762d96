--------------------------- MODULE LifecycleProofs ---------------------------
(***************************************************************************)
(* Proofs for the lifecycle manager: its types, what it remembers of the   *)
(* instances it stopped, dismissals that stick, successful stops and       *)
(* running instances that are shown - for any number of requests in        *)
(* flight and of launches.                                                 *)
(***************************************************************************)
EXTENDS Lifecycle, TLAPS

-----------------------------------------------------------------------------
(* The inductive invariant: about the world, and about every request. *)

PCs == {"done", "scan", "enrich", "apply", "droptarget", "lookup", "filter", "unsuppress",
        "drop", "suppress", "dispatch", "terminate", "wait", "runtime"}

ProcMaps == [Targets -> Pids]

RequestType ==
  [pc : PCs, op : Ops, target : Targets, view : Views, held : ProcMaps, todo : Seq(Targets),
   saw : BOOLEAN, ok : BOOLEAN]

Signalling(r) == r.pc \in {"terminate", "wait"}

\* What a request has to do is not over before it is, and whom it signals is known.
Pending(r) ==
  /\ Len(r.todo) <= 3
  /\ r.pc \in {"droptarget", "terminate", "wait", "runtime"} => r.todo # <<>>
  /\ r.pc = "droptarget" => \A i \in 1 .. Len(r.todo) : Stale(r.view, r.held, r.todo[i])
  /\ Signalling(r) => \A i \in 1 .. Len(r.todo) : r.held[r.todo[i]] # 0

\* Which operations reach which phase, for this kind of instance.
Phase(r, kd) ==
  /\ r.pc \in {"dispatch", "runtime"} => r.op \in Actions /\ r.held = NoProcs
  /\ r.pc = "runtime" => kd \in Containers
  /\ Signalling(r) => r.op = "stop" /\ kd \notin Containers
  /\ r.pc \in {"drop", "suppress"} => r.op \in {"clear", "dismiss"}
  /\ r.pc \in {"filter", "unsuppress"} => r.op \notin Actions

\* What a request saw of the instance.
Sight(r, kd) ==
  /\ r.pc \in {"enrich", "apply", "droptarget", "filter", "unsuppress"} => r.view.found # "none"
  /\ r.pc = "unsuppress" => ~fullyStopped(r.view)
  /\ r.pc = "lookup" => r.view = NoView
  /\ r.pc \in {"scan", "enrich", "lookup"} => ~r.saw
  /\ r.pc \in {"apply", "droptarget", "filter", "unsuppress"} /\ r.saw
       => r.view.appStatus = "running"
  /\ r.pc = "apply" /\ r.saw => r.view.app # 0 \/ kd = "aspire"

\* The pids this kind of instance lets a request see: none of a launch that is yet
\* to come, nor of one after a process that is owed or lives.
PidsOK(in, kd, lst, ow, pd) ==
  /\ kd # "dapr run" => in.app = 0 /\ in.cli = 0
  /\ kd \in Containers => in.daprd = 0
  /\ \A t \in Targets : /\ kd \notin Containers => Observed(in, t) <= lst
                        /\ ow[t] # 0 => Observed(in, t) <= ow[t]
                        /\ pd[t] # 0 => Observed(in, t) <= pd[t]

\* A stop signals what was launched, and what it is done with is gone.
Gone(r, lst, pd) ==
  Signalling(r) =>
    \A t \in Targets :
      /\ r.held[t] <= lst
      /\ r.held[t] # 0 => pd[t] # r.held[t] \/ \E i \in 1 .. Len(r.todo) : r.todo[i] = t

\* Nobody knows of anything that runs.
Calm(r) == r.pc = "done" \/ r.view.found = "none" \/ fullyStopped(r.view)

Good(r, kd, lst, ow, pd, qu) ==
  /\ Pending(r) /\ Phase(r, kd) /\ Sight(r, kd)
  /\ PidsOK(r.view, kd, lst, ow, pd)
  /\ Gone(r, lst, pd)
  /\ qu => Calm(r)

WorldType ==
  /\ kind \in Kinds
  /\ pid \in ProcMaps
  /\ last \in Pids
  /\ cache \in [fresh : BOOLEAN, up : SUBSET Parts]
  /\ entry \in {NoEntry} \cup Entries
  /\ suppressed \in BOOLEAN
  /\ owed \in ProcMaps
  /\ quiet \in BOOLEAN
  /\ left \in [Users -> 0 .. MaxReqs]

\* A dapr run's processes are those of the last launch, an Aspire instance's app
\* is never snapshot, and containers are not in the registry.
ByKind ==
  /\ kind \notin Containers => \A t \in Targets : pid[t] <= last
  /\ kind = "dapr run" => \A t \in Targets : pid[t] \in {0, last} /\ owed[t] \in {0, last}
  /\ kind \in Containers => entry = NoEntry
  /\ entry # NoEntry => /\ \A t \in Targets : entry.procs[t] <= last
                        /\ kind = "aspire" => entry.procs["app"] = 0 /\ entry.in.app = 0

\* What is owed is recorded, and a recorded process that lives is owed.
Remembered ==
  /\ StopRemembered
  /\ \A t \in Targets : owed[t] # 0 => pid[t] \in {0, owed[t]}
  /\ entry # NoEntry =>
       \A t \in Targets : Alive(t, entry.procs[t]) => owed[t] = entry.procs[t]

Quiet ==
  quiet => /\ suppressed /\ kind # "unpaired" /\ pid = NoProcs
           /\ cache.fresh => cache.up = {}

WorldInv == WorldType /\ ByKind /\ Remembered /\ Quiet

ReqInv ==
  /\ req \in [Procs -> RequestType]
  /\ \A p \in Procs : Good(req[p], kind, last, owed, pid, quiet)

IInv == WorldInv /\ ReqInv

-----------------------------------------------------------------------------
(* The lists of targets. *)

\* Pids are natural numbers, and nothing has pid 0.
LEMMA ConstantsOK ==
  /\ MaxPid \in Nat /\ 0 \in Pids /\ 1 \in Pids /\ NoProcs \in ProcMaps /\ NoView \in Views
  /\ \A t \in Targets : Observed(NoView, t) = 0 /\ NoProcs[t] = 0
  /\ \A n \in Pids : n \in Nat
  BY LifecycleAssumption DEF Pids, NoProcs, ProcMaps, NoView, Views, Statuses, Targets, Observed

\* Every kind of instance consists of targets.
LEMMA PartsAreTargets == Parts \subseteq Targets
  BY DEF Parts, Targets

\* A list's first target, and the rest.
LEMMA HeadAndTail ==
  ASSUME NEW todo \in Seq(Targets), todo # <<>>
  PROVE  /\ Head(todo) \in Targets /\ Head(todo) = todo[1] /\ 1 \in 1 .. Len(todo)
         /\ Tail(todo) \in Seq(Targets) /\ Len(Tail(todo)) = Len(todo) - 1
         /\ \A i \in 1 .. Len(Tail(todo)) : Tail(todo)[i] = todo[i + 1] /\ i + 1 \in 1 .. Len(todo)
         /\ \A i \in 1 .. Len(todo) : i = 1 \/ (i - 1 \in 1 .. Len(Tail(todo))
                                                /\ Tail(todo)[i - 1] = todo[i])
  OBVIOUS

\* A target is in a list if it is wanted.
LEMMA ChosenIs ==
  ASSUME NEW t \in Targets, NEW wanted
  PROVE  /\ Chosen(t, wanted) \in Seq(Targets)
         /\ wanted => Chosen(t, wanted) = <<t>> /\ Len(Chosen(t, wanted)) = 1
         /\ ~wanted => Chosen(t, wanted) = <<>> /\ Len(Chosen(t, wanted)) = 0
         /\ Len(Chosen(t, wanted)) <= 1
         /\ \A i \in 1 .. Len(Chosen(t, wanted)) : Chosen(t, wanted)[i] = t /\ wanted
  BY DEF Chosen

\* The elements of two lists in one.
LEMMA Joined ==
  ASSUME NEW first \in Seq(Targets), NEW second \in Seq(Targets)
  PROVE  /\ first \o second \in Seq(Targets) /\ Len(first \o second) = Len(first) + Len(second)
         /\ \A i \in 1 .. Len(first \o second) :
              \/ i \in 1 .. Len(first) /\ (first \o second)[i] = first[i]
              \/ /\ i - Len(first) \in 1 .. Len(second)
                 /\ (first \o second)[i] = second[i - Len(first)]
  OBVIOUS

\* The stale targets, at most three.
LEMMA DropsAreStale ==
  ASSUME NEW in, NEW procs
  PROVE  LET drops == Drops(in, procs) IN
         /\ drops \in Seq(Targets) /\ Len(drops) <= 3
         /\ \A i \in 1 .. Len(drops) : Stale(in, procs, drops[i])
<1> DEFINE stale(t) == Chosen(t, Stale(in, procs, t))
           some == stale("daprd") \o stale("all")
<1>1. "daprd" \in Targets /\ "all" \in Targets /\ "app" \in Targets
  BY DEF Targets
<1>2. \A t \in Targets : /\ stale(t) \in Seq(Targets) /\ Len(stale(t)) <= 1 /\ Len(stale(t)) \in Nat
                         /\ \A i \in 1 .. Len(stale(t)) : Stale(in, procs, stale(t)[i])
  BY ChosenIs
<1>3. Drops(in, procs) = some \o stale("app")
  BY DEF Drops
<1> HIDE DEF stale
<1>4. /\ some \in Seq(Targets) /\ Len(some) <= 2 /\ Len(some) \in Nat
      /\ \A i \in 1 .. Len(some) : Stale(in, procs, some[i])
  BY <1>1, <1>2, Joined
<1> HIDE DEF some
<1> QED
  BY <1>1, <1>2, <1>3, <1>4, Joined

\* The processes signalled are known ones.
LEMMA SignalsAreKnown ==
  ASSUME NEW in, NEW target \in Targets
  PROVE  LET pids == Signals(in, target) IN
         /\ pids \in Seq(Targets) /\ Len(pids) <= 3
         /\ \A i \in 1 .. Len(pids) : Observed(in, pids[i]) # 0
<1>1. "daprd" \in Targets /\ "all" \in Targets /\ "app" \in Targets
  BY DEF Targets
<1>2. \A t \in Targets : /\ Known(in, t) \in Seq(Targets) /\ Len(Known(in, t)) <= 1
                         /\ Len(Known(in, t)) \in Nat
                         /\ \A i \in 1 .. Len(Known(in, t)) : Observed(in, Known(in, t)[i]) # 0
  <2> TAKE t \in Targets
  <2>1. CASE Observed(in, t) # 0
    <3>1. Known(in, t) = <<t>>
      BY <2>1 DEF Known, Chosen
    <3>2. <<t>> \in Seq(Targets) /\ Len(<<t>>) = 1 /\ \A i \in 1 .. Len(<<t>>) : <<t>>[i] = t
      OBVIOUS
    <3> QED
      BY <2>1, <3>1, <3>2
  <2>2. CASE Observed(in, t) = 0
    BY <2>2 DEF Known, Chosen
  <2> QED
    BY <2>1, <2>2
<1> DEFINE both == Known(in, "app") \o Known(in, "daprd")
<1>3. /\ both \in Seq(Targets) /\ Len(both) <= 3
      /\ \A i \in 1 .. Len(both) : Observed(in, both[i]) # 0
  BY <1>1, <1>2, Joined
<1>4. in.cli # 0 => /\ <<"all">> \in Seq(Targets) /\ Len(<<"all">>) <= 3
                    /\ \A i \in 1 .. Len(<<"all">>) : Observed(in, <<"all">>[i]) # 0
  BY <1>1 DEF Observed
<1>5. \/ Signals(in, target) = Known(in, target)
      \/ Signals(in, target) = both
      \/ Signals(in, target) = <<"all">> /\ in.cli # 0
  BY DEF Signals, Targets
<1> HIDE DEF both
<1> QED
  BY <1>2, <1>3, <1>4, <1>5

\* The containers acted on.
LEMMA ComposeTargets ==
  ASSUME NEW target, NEW action
  PROVE  composeTargets(target, action) \in Seq(Targets) /\ Len(composeTargets(target, action)) <= 3
<1> DEFINE chosen(t) == Chosen(t, t \in Parts /\ target \in {t, "all"})
<1>1. "daprd" \in Targets /\ "app" \in Targets
  BY DEF Targets
<1>2. \A t \in Targets : chosen(t) \in Seq(Targets) /\ Len(chosen(t)) <= 1 /\ Len(chosen(t)) \in Nat
  BY ChosenIs
<1>3. composeTargets(target, action)
        \in {chosen("app") \o chosen("daprd"), chosen("daprd") \o chosen("app")}
  BY DEF composeTargets
<1> HIDE DEF chosen
<1>4. chosen("app") \o chosen("daprd") \in Seq(Targets) /\ Len(chosen("app") \o chosen("daprd")) <= 3
  BY <1>1, <1>2
<1>5. chosen("daprd") \o chosen("app") \in Seq(Targets) /\ Len(chosen("daprd") \o chosen("app")) <= 3
  BY <1>1, <1>2
<1> QED
  BY <1>3, <1>4, <1>5

-----------------------------------------------------------------------------
(* The requests a step does not touch. *)

\* How the world may change under a request: launches get new pids, processes
\* go, and what is newly owed is what lives.
Ages(kd, lst, ow, pd, qu, lst2, ow2, pd2, qu2) ==
  /\ lst <= lst2
  /\ \A t \in Targets :
       /\ ow2[t] \in {0, ow[t], pd[t]}
       /\ pd2[t] \in {0, pd[t]} \/ pd2[t] > lst \/ kd \in Containers
  /\ qu2 => qu

\* A request that has only begun, or has ended, knows nothing.
LEMMA FreshGood ==
  ASSUME NEW r \in RequestType, r.pc \in {"done", "scan", "drop"}, r.view = NoView,
         r.todo = <<>>, ~r.saw, r.pc = "drop" => r.op \in {"clear", "dismiss"},
         NEW kd, NEW lst \in Pids, NEW ow \in ProcMaps, NEW pd \in ProcMaps, NEW qu
  PROVE  Good(r, kd, lst, ow, pd, qu)
<1>1. Pending(r)
  BY DEF Pending, Signalling
<1>2. Phase(r, kd) /\ Gone(r, lst, pd)
  BY DEF Phase, Signalling, Gone
<1>3. Sight(r, kd)
  BY DEF Sight
<1>4. PidsOK(r.view, kd, lst, ow, pd)
  <2>1. NoView.app = 0 /\ NoView.cli = 0 /\ NoView.daprd = 0
    BY DEF NoView
  <2>2. lst \in Nat /\ \A t \in Targets : ow[t] \in Nat /\ pd[t] \in Nat
    BY ConstantsOK DEF ProcMaps
  <2> QED
    BY <2>1, <2>2, ConstantsOK DEF PidsOK
<1>5. Calm(r)
  <2>1. NoView.found = "none"
    BY DEF NoView
  <2> QED
    BY <2>1 DEF Calm
<1> QED
  BY <1>1, <1>2, <1>3, <1>4, <1>5 DEF Good

\* A request's end.
LEMMA IdleGood ==
  ASSUME NEW b \in BOOLEAN,
         NEW kd, NEW lst \in Pids, NEW ow \in ProcMaps, NEW pd \in ProcMaps, NEW qu
  PROVE  /\ [Idle EXCEPT !.ok = b] \in RequestType
         /\ Good([Idle EXCEPT !.ok = b], kd, lst, ow, pd, qu)
<1> DEFINE r == [Idle EXCEPT !.ok = b]
<1>1. "done" \in PCs /\ "list" \in Ops /\ "all" \in Targets /\ <<>> \in Seq(Targets)
  BY DEF PCs, Ops, Targets
<1>2. /\ r \in RequestType /\ r.pc = "done" /\ r.view = NoView /\ r.todo = <<>> /\ r.saw = FALSE
  BY <1>1, ConstantsOK DEF Idle, RequestType
<1> HIDE DEF r
<1>3. Good(r, kd, lst, ow, pd, qu)
  BY <1>2, FreshGood
<1> QED
  BY <1>2, <1>3 DEF r

\* What is true of a request stays true while the world changes around it.
LEMMA GoodStays ==
  ASSUME NEW r \in RequestType,
         NEW kd, NEW lst \in Pids, NEW ow \in ProcMaps, NEW pd \in ProcMaps, NEW qu,
         NEW lst2 \in Pids, NEW ow2 \in ProcMaps, NEW pd2 \in ProcMaps, NEW qu2,
         Good(r, kd, lst, ow, pd, qu), Ages(kd, lst, ow, pd, qu, lst2, ow2, pd2, qu2)
  PROVE  Good(r, kd, lst2, ow2, pd2, qu2)
<1>1. Pending(r) /\ Phase(r, kd) /\ Sight(r, kd) /\ (qu2 => Calm(r))
  BY DEF Good, Ages
<1> DEFINE in == r.view
<1>2. in \in Views /\ r.held \in ProcMaps
  BY DEF RequestType
<1>3. \A t \in Targets : Observed(in, t) \in Pids /\ Observed(in, t) \in Nat
  BY <1>2, ConstantsOK DEF Views, Observed, Targets
<1>4. lst \in Nat /\ lst2 \in Nat /\ \A t \in Targets : /\ ow[t] \in Nat /\ ow2[t] \in Nat
                                                          /\ pd[t] \in Nat /\ pd2[t] \in Nat
                                                          /\ r.held[t] \in Nat
  BY <1>2, ConstantsOK DEF ProcMaps
<1>5. PidsOK(in, kd, lst, ow, pd) /\ Gone(r, lst, pd)
  BY DEF Good
<1>6. PidsOK(in, kd, lst2, ow2, pd2)
  <2>1. ASSUME NEW t \in Targets
        PROVE  /\ kd \notin Containers => Observed(in, t) <= lst2
               /\ ow2[t] # 0 => Observed(in, t) <= ow2[t]
               /\ pd2[t] # 0 => Observed(in, t) <= pd2[t]
    <3>1. /\ kd \notin Containers => Observed(in, t) <= lst
          /\ ow[t] # 0 => Observed(in, t) <= ow[t]
          /\ pd[t] # 0 => Observed(in, t) <= pd[t]
      BY <1>5 DEF PidsOK
    <3>2. kd \in Containers => Observed(in, t) = 0
      BY <1>5 DEF PidsOK, Observed, Targets, Containers
    <3>3. /\ lst <= lst2 /\ ow2[t] \in {0, ow[t], pd[t]}
          /\ pd2[t] \in {0, pd[t]} \/ pd2[t] > lst \/ kd \in Containers
      BY DEF Ages
    <3> QED
      BY <1>3, <1>4, <3>1, <3>2, <3>3
  <2> QED
    BY <1>5, <2>1 DEF PidsOK
<1>7. Gone(r, lst2, pd2)
  <2> SUFFICES ASSUME Signalling(r), NEW t \in Targets
               PROVE  /\ r.held[t] <= lst2
                      /\ r.held[t] # 0 =>
                           pd2[t] # r.held[t] \/ \E i \in 1 .. Len(r.todo) : r.todo[i] = t
    BY DEF Gone
  <2>1. kd \notin Containers
    BY <1>1 DEF Phase
  <2>2. /\ r.held[t] <= lst
        /\ r.held[t] # 0 => pd[t] # r.held[t] \/ \E i \in 1 .. Len(r.todo) : r.todo[i] = t
    BY <1>5 DEF Gone
  <2>3. lst <= lst2 /\ (pd2[t] \in {0, pd[t]} \/ pd2[t] > lst)
    BY <2>1 DEF Ages
  <2> QED
    BY <1>4, <2>2, <2>3
<1> QED
  BY <1>1, <1>6, <1>7 DEF Good

\* The types of the world, one by one.
LEMMA WorldFacts ==
  ASSUME WorldInv
  PROVE  /\ kind \in Kinds /\ last \in Pids /\ last \in Nat
         /\ pid \in ProcMaps /\ owed \in ProcMaps
         /\ \A t \in Targets : pid[t] \in Nat /\ owed[t] \in Nat
         /\ quiet \in BOOLEAN
  BY ConstantsOK DEF WorldInv, WorldType, ProcMaps

\* A world that does not change ages well.
LEMMA SameWorldAges ==
  ASSUME WorldInv
  PROVE  Ages(kind, last, owed, pid, quiet, last, owed, pid, quiet)
  BY WorldFacts DEF Ages

\* What a step that moves one request leaves of the others.
LEMMA OneMoves ==
  ASSUME IInv, NEW p \in Procs, NEW r \in RequestType,
         req' = [req EXCEPT ![p] = r],
         kind' = kind, last' \in Pids, owed' \in ProcMaps, pid' \in ProcMaps,
         Ages(kind, last, owed, pid, quiet, last', owed', pid', quiet'),
         Good(r, kind, last', owed', pid', quiet')
  PROVE  ReqInv'
<1>1. req' \in [Procs -> RequestType] /\ req'[p] = r
  BY DEF IInv, ReqInv
<1>2. ASSUME NEW q \in Procs
      PROVE  Good(req'[q], kind', last', owed', pid', quiet')
  <2>1. CASE q = p
    BY <1>1, <2>1
  <2>2. CASE q # p
    <3>1. req'[q] = req[q] /\ req[q] \in RequestType /\ Good(req[q], kind, last, owed, pid, quiet)
      BY <2>2 DEF IInv, ReqInv
    <3>2. last \in Pids /\ owed \in ProcMaps /\ pid \in ProcMaps
      BY WorldFacts DEF IInv
    <3>3. Good(req[q], kind, last', owed', pid', quiet')
      BY <3>1, <3>2, GoodStays
    <3> QED
      BY <3>1, <3>3
  <2> QED
    BY <2>1, <2>2
<1> QED
  BY <1>1, <1>2 DEF ReqInv

\* What a step of the machine leaves of the requests.
LEMMA NoneMoves ==
  ASSUME IInv, req' = req,
         kind' = kind, last' \in Pids, owed' \in ProcMaps, pid' \in ProcMaps,
         Ages(kind, last, owed, pid, quiet, last', owed', pid', quiet')
  PROVE  ReqInv'
<1>1. ASSUME NEW q \in Procs
      PROVE  Good(req'[q], kind', last', owed', pid', quiet')
  <2>1. req[q] \in RequestType /\ Good(req[q], kind, last, owed, pid, quiet)
    BY DEF IInv, ReqInv
  <2>2. last \in Pids /\ owed \in ProcMaps /\ pid \in ProcMaps
    BY WorldFacts DEF IInv
  <2>3. Good(req[q], kind, last', owed', pid', quiet')
    BY <2>1, <2>2, GoodStays
  <2> QED
    BY <2>3
<1> QED
  BY <1>1 DEF IInv, ReqInv

\* A world that does not change keeps its invariant.
LEMMA SameWorld ==
  ASSUME WorldInv, UNCHANGED <<world, registry, history, left>>
  PROVE  WorldInv'
<1>1. /\ kind' = kind /\ pid' = pid /\ last' = last /\ cache' = cache /\ entry' = entry
      /\ suppressed' = suppressed /\ owed' = owed /\ quiet' = quiet /\ left' = left
  BY DEF world, registry, history
<1>2. WorldType'
  BY <1>1 DEF WorldInv, WorldType, Parts
<1>3. ByKind'
  BY <1>1 DEF WorldInv, ByKind
<1>4. Remembered'
  BY <1>1 DEF WorldInv, Remembered, StopRemembered, Alive
<1>5. Quiet'
  BY <1>1 DEF WorldInv, Quiet
<1> QED
  BY <1>2, <1>3, <1>4, <1>5 DEF WorldInv

\* A step of one request that changes nothing else.
LEMMA OnlyRequest ==
  ASSUME IInv, NEW p \in Procs, NEW r \in RequestType, Goto(p, r),
         UNCHANGED <<world, registry, history>>,
         Good(r, kind, last, owed, pid, quiet)
  PROVE  IInv'
<1>1. /\ kind' = kind /\ pid' = pid /\ last' = last /\ owed' = owed /\ quiet' = quiet
      /\ req' = [req EXCEPT ![p] = r] /\ UNCHANGED left
  BY DEF world, history, Goto
<1>2. WorldInv /\ WorldInv'
  BY <1>1, SameWorld DEF IInv
<1>3. ReqInv'
  <2>1. last \in Pids /\ owed \in ProcMaps /\ pid \in ProcMaps
    BY <1>2, WorldFacts
  <2>2. Ages(kind, last, owed, pid, quiet, last', owed', pid', quiet')
    BY <1>1, <1>2, SameWorldAges
  <2>3. Good(r, kind, last', owed', pid', quiet')
    BY <1>1
  <2> QED
    BY <1>1, <2>1, <2>2, <2>3, OneMoves
<1> QED
  BY <1>2, <1>3 DEF IInv

\* A request that ends and changes nothing.
LEMMA JustReturns ==
  ASSUME IInv, NEW p \in Procs, NEW b \in BOOLEAN, Returns(p, b),
         UNCHANGED <<world, registry, history>>
  PROVE  IInv'
<1> DEFINE r == [Idle EXCEPT !.ok = b]
<1>1. last \in Pids /\ owed \in ProcMaps /\ pid \in ProcMaps
  BY WorldFacts DEF IInv
<1>2. r \in RequestType /\ Good(r, kind, last, owed, pid, quiet)
  BY <1>1, IdleGood
<1>3. Goto(p, r)
  BY DEF Returns
<1> HIDE DEF r
<1> QED
  BY <1>2, <1>3, OnlyRequest

-----------------------------------------------------------------------------
(* Requests begin and look at the instance. *)

\* The invariant of one request.
LEMMA ReqFacts ==
  ASSUME IInv, NEW p \in Procs
  PROVE  /\ req[p] \in RequestType
         /\ Pending(req[p]) /\ Phase(req[p], kind) /\ Sight(req[p], kind)
         /\ PidsOK(req[p].view, kind, last, owed, pid) /\ Gone(req[p], last, pid)
         /\ quiet => Calm(req[p])
  BY DEF IInv, ReqInv, Good

\* The pids of a view are pids.
LEMMA ViewFacts ==
  ASSUME NEW in \in Views
  PROVE  \A t \in Targets : Observed(in, t) \in Pids /\ Observed(in, t) \in Nat
  BY ConstantsOK DEF Views, Observed, Targets

\* The pid held for each target.
LEMMA ObservedIs ==
  ASSUME NEW in
  PROVE  Observed(in, "app") = in.app /\ Observed(in, "daprd") = in.daprd /\ Observed(in, "all") = in.cli
  BY DEF Observed

\* A view without pids shows none that is yet to come.
LEMMA NoPids ==
  ASSUME NEW in, in.app = 0, in.cli = 0, in.daprd = 0,
         NEW kd, NEW lst \in Pids, NEW ow \in ProcMaps, NEW pd \in ProcMaps
  PROVE  PidsOK(in, kd, lst, ow, pd)
<1>1. \A t \in Targets : Observed(in, t) = 0
  BY ObservedIs DEF Targets
<1>2. lst \in Nat /\ \A t \in Targets : ow[t] \in Nat /\ pd[t] \in Nat
  BY ConstantsOK DEF ProcMaps
<1> QED
  BY <1>1, <1>2 DEF PidsOK

\* A view that shows less is no worse.
LEMMA FewerPids ==
  ASSUME NEW in, NEW out, out.app \in {0, in.app}, out.cli \in {0, in.cli}, out.daprd \in {0, in.daprd},
         NEW kd, NEW lst \in Pids, NEW ow \in ProcMaps, NEW pd \in ProcMaps,
         PidsOK(in, kd, lst, ow, pd)
  PROVE  PidsOK(out, kd, lst, ow, pd)
<1>1. \A t \in Targets : Observed(out, t) \in {0, Observed(in, t)}
  BY ObservedIs DEF Targets
<1>2. lst \in Nat /\ \A t \in Targets : ow[t] \in Nat /\ pd[t] \in Nat
  BY ConstantsOK DEF ProcMaps
<1>3. ASSUME NEW t \in Targets
      PROVE  /\ kd \notin Containers => Observed(out, t) <= lst
             /\ ow[t] # 0 => Observed(out, t) <= ow[t]
             /\ pd[t] # 0 => Observed(out, t) <= pd[t]
  <2>1. CASE Observed(out, t) = 0
    BY <1>2, <2>1
  <2>2. CASE Observed(out, t) = Observed(in, t)
    BY <2>2 DEF PidsOK
  <2> QED
    BY <1>1, <2>1, <2>2
<1>4. /\ kd # "dapr run" => out.app = 0 /\ out.cli = 0
      /\ kd \in Containers => out.daprd = 0
  BY DEF PidsOK
<1> QED
  BY <1>3, <1>4 DEF PidsOK

\* A request begins knowing nothing.
LEMMA BeginStep ==
  ASSUME IInv, NEW p \in Procs, NEW op \in Ops, NEW t \in Targets, Begin(p, op, t)
  PROVE  IInv'
<1> DEFINE r == [Idle EXCEPT !.op = op, !.target = t,
                             !.pc = IF op = "dismiss" THEN "drop" ELSE "scan"]
<1>1. "drop" \in PCs /\ "scan" \in PCs /\ <<>> \in Seq(Targets)
  BY DEF PCs
<1>2. /\ r \in RequestType /\ r.pc \in {"scan", "drop"} /\ r.view = NoView /\ r.todo = <<>>
      /\ ~r.saw /\ (r.pc = "drop" => r.op = "dismiss")
  BY <1>1, ConstantsOK DEF Idle, RequestType
<1>3. req' = [req EXCEPT ![p] = r] /\ UNCHANGED <<world, registry, history>>
  BY DEF Begin
<1> HIDE DEF r
<1>4. /\ kind' = kind /\ pid' = pid /\ last' = last /\ cache' = cache /\ entry' = entry
      /\ suppressed' = suppressed /\ owed' = owed /\ quiet' = quiet
  BY <1>3 DEF world, registry, history
<1>5. last \in Pids /\ owed \in ProcMaps /\ pid \in ProcMaps /\ WorldInv
  BY WorldFacts DEF IInv
<1>6. Good(r, kind, last', owed', pid', quiet')
  BY <1>2, <1>4, <1>5, FreshGood
<1>7. Ages(kind, last, owed, pid, quiet, last', owed', pid', quiet')
  BY <1>4, <1>5, SameWorldAges
<1>8. ReqInv'
  BY <1>2, <1>3, <1>4, <1>5, <1>6, <1>7, OneMoves
<1>9. left' \in [Users -> 0 .. MaxReqs]
  <2>1. left \in [Users -> 0 .. MaxReqs] /\ MaxReqs \in Nat
    BY <1>5, LifecycleAssumption DEF WorldInv, WorldType
  <2>2. CASE p = Poll
    BY <2>1, <2>2 DEF Begin
  <2>3. CASE p # Poll
    <3>1. p \in Users /\ left[p] > 0 /\ left' = [left EXCEPT ![p] = @ - 1]
      BY <2>3 DEF Begin, Procs
    <3>2. left[p] - 1 \in 0 .. MaxReqs
      BY <2>1, <3>1
    <3> QED
      BY <2>1, <3>1, <3>2
  <2> QED
    BY <2>2, <2>3
<1>10. WorldType'
  BY <1>4, <1>5, <1>9 DEF WorldInv, WorldType, Parts
<1>11. ByKind'
  BY <1>4, <1>5 DEF WorldInv, ByKind
<1>12. Remembered'
  BY <1>4, <1>5 DEF WorldInv, Remembered, StopRemembered, Alive
<1>13. Quiet'
  BY <1>4, <1>5 DEF WorldInv, Quiet
<1> QED
  BY <1>8, <1>10, <1>11, <1>12, <1>13 DEF IInv, WorldInv

\* The process table shows no pid after that of the process that runs.
LEMMA ScanProcessesStep ==
  ASSUME IInv, NEW p \in Procs, ScanProcesses(p)
  PROVE  IInv'
<1>1. /\ req[p] \in RequestType /\ req[p].pc = "scan" /\ kind \notin Containers
      /\ UNCHANGED <<world, registry, history>>
  BY ReqFacts DEF ScanProcesses, At
<1>2. Pending(req[p]) /\ Sight(req[p], kind) /\ ~req[p].saw /\ Len(req[p].todo) <= 3
  BY <1>1, ReqFacts DEF Sight, Pending
<1>3. WorldInv /\ pid \in ProcMaps /\ last \in Nat /\ \A t \in Targets : pid[t] \in Nat /\ owed[t] \in Nat
  BY WorldFacts DEF IInv
<1>4. CASE pid["daprd"] = 0
  <2> DEFINE r == [req[p] EXCEPT !.pc = "lookup", !.view = NoView]
  <2>1. /\ r \in RequestType /\ r.pc = "lookup" /\ r.view = NoView /\ r.saw = req[p].saw
        /\ r.todo = req[p].todo
    BY <1>1, ConstantsOK DEF RequestType, PCs
  <2>2. Goto(p, r)
    BY <1>4 DEF ScanProcesses, Seen
  <2> HIDE DEF r
  <2>3. Pending(r) /\ Phase(r, kind) /\ Gone(r, last, pid)
    BY <1>2, <2>1 DEF Pending, Phase, Gone, Signalling
  <2>4. Sight(r, kind)
    BY <1>2, <2>1 DEF Sight
  <2>5. PidsOK(r.view, kind, last, owed, pid)
    <3>1. NoView.app = 0 /\ NoView.cli = 0 /\ NoView.daprd = 0
      BY DEF NoView
    <3> QED
      BY <1>3, <2>1, <3>1, ConstantsOK DEF PidsOK
  <2>6. Calm(r)
    <3>1. NoView.found = "none"
      BY DEF NoView
    <3> QED
      BY <2>1, <3>1 DEF Calm
  <2> QED
    BY <1>1, <2>1, <2>2, <2>3, <2>4, <2>5, <2>6, OnlyRequest DEF Good
<1>5. CASE pid["daprd"] # 0
  <2> DEFINE in == [NoView EXCEPT !.found = "live", !.daprd = pid["daprd"],
                                  !.daprdStatus = "running"]
             r == [req[p] EXCEPT !.pc = "enrich", !.view = in]
  <2>1. pid["daprd"] \in Pids /\ "daprd" \in Targets
    BY <1>3 DEF ProcMaps, Targets
  <2>2. /\ in \in Views /\ in.found = "live" /\ in.daprd = pid["daprd"] /\ in.app = 0 /\ in.cli = 0
    BY <2>1, ConstantsOK DEF Views, NoView, Statuses
  <2> HIDE DEF in
  <2>3. /\ r \in RequestType /\ r.pc = "enrich" /\ r.view = in /\ r.saw = req[p].saw
        /\ r.todo = req[p].todo
    BY <1>1, <2>2, ConstantsOK DEF RequestType, PCs
  <2>4. Goto(p, r)
    BY <1>5 DEF ScanProcesses, Seen, in
  <2> HIDE DEF r
  <2>5. Pending(r) /\ Phase(r, kind) /\ Gone(r, last, pid)
    BY <1>2, <2>3 DEF Pending, Phase, Gone, Signalling
  <2>6. Sight(r, kind)
    BY <1>2, <2>2, <2>3 DEF Sight
  <2>7. PidsOK(in, kind, last, owed, pid)
    <3>1. ASSUME NEW t \in Targets
          PROVE  /\ Observed(in, t) <= last
                 /\ owed[t] # 0 => Observed(in, t) <= owed[t]
                 /\ pid[t] # 0 => Observed(in, t) <= pid[t]
      <4>1. CASE t = "daprd"
        <5>1. Observed(in, t) = pid[t] /\ pid[t] # 0
          BY <1>5, <2>2, <4>1, ObservedIs
        <5>2. pid[t] <= last /\ (owed[t] # 0 => pid[t] \in {0, owed[t]})
          BY <1>1, <1>3 DEF WorldInv, ByKind, Remembered
        <5> QED
          BY <1>3, <5>1, <5>2
      <4>2. CASE t # "daprd"
        <5>1. Observed(in, t) = 0
          BY <2>2, <4>2, ObservedIs DEF Targets
        <5> QED
          BY <1>3, <5>1
      <4> QED
        BY <4>1, <4>2
    <3> QED
      BY <1>1, <2>2, <3>1 DEF PidsOK
  <2>8. ~quiet
    <3>1. NoProcs["daprd"] = 0
      BY <2>1, ConstantsOK
    <3> QED
      BY <1>3, <1>5, <3>1 DEF WorldInv, Quiet
  <2> QED
    BY <1>1, <2>3, <2>4, <2>5, <2>6, <2>7, <2>8, OnlyRequest DEF Good
<1> QED
  BY <1>4, <1>5

\* A request with its instance in hand: an action is dispatched, a list filtered.
LEMMA AppliedGood ==
  ASSUME NEW r \in RequestType, NEW in \in Views,
         NEW kd, NEW lst \in Pids, NEW ow \in ProcMaps, NEW pd \in ProcMaps, NEW qu,
         \/ r.op \in Actions /\ r.pc = "dispatch" /\ r.view = in
         \/ /\ r.op \notin Actions /\ r.pc = "filter"
            /\ r.view = [in EXCEPT !.daprd = 0, !.cli = 0, !.app = 0,
                                   !.orphan = FALSE, !.aspire = FALSE],
         r.todo = <<>>, r.held = NoProcs, in.found # "none",
         r.saw => in.appStatus = "running",
         PidsOK(in, kd, lst, ow, pd), qu => fullyStopped(in)
  PROVE  Good(r, kd, lst, ow, pd, qu)
<1>1. Pending(r) /\ Phase(r, kd) /\ Gone(r, lst, pd)
  BY DEF Pending, Phase, Gone, Signalling
<1>2. \/ r.view = in
      \/ /\ r.view.app = 0 /\ r.view.daprd = 0 /\ r.view.cli = 0
         /\ r.view.found = in.found /\ r.view.appStatus = in.appStatus
         /\ r.view.daprdStatus = in.daprdStatus
  BY DEF Views
<1>3. r.view.found # "none" /\ (r.saw => r.view.appStatus = "running")
  BY <1>2
<1>4. Sight(r, kd)
  BY <1>3 DEF Sight
<1>5. qu => Calm(r)
  BY <1>2 DEF Calm, fullyStopped
<1>6. PidsOK(r.view, kd, lst, ow, pd)
  <2>1. CASE r.view = in
    BY <2>1
  <2>2. CASE r.view.app = 0 /\ r.view.daprd = 0 /\ r.view.cli = 0
    BY <2>2, NoPids
  <2> QED
    BY <1>2, <2>1, <2>2
<1> QED
  BY <1>1, <1>4, <1>5, <1>6 DEF Good

\* The request Applied makes.
LEMMA AppliedShape ==
  ASSUME IInv, NEW p \in Procs, NEW in \in Views
  PROVE  LET r == Applied(p, in) IN
         /\ r \in RequestType
         /\ \/ r.op \in Actions /\ r.pc = "dispatch" /\ r.view = in
            \/ /\ r.op \notin Actions /\ r.pc = "filter"
               /\ r.view = [in EXCEPT !.daprd = 0, !.cli = 0, !.app = 0,
                                      !.orphan = FALSE, !.aspire = FALSE]
         /\ r.todo = <<>> /\ r.held = NoProcs /\ r.saw = req[p].saw
<1> DEFINE out == [in EXCEPT !.daprd = 0, !.cli = 0, !.app = 0, !.orphan = FALSE, !.aspire = FALSE]
<1>1. out \in Views
  BY ConstantsOK DEF Views
<1>2. /\ req[p] \in RequestType /\ <<>> \in Seq(Targets) /\ NoProcs \in ProcMaps
      /\ "dispatch" \in PCs /\ "filter" \in PCs
  BY ReqFacts, ConstantsOK DEF PCs
<1> HIDE DEF out
<1>3. CASE req[p].op \in Actions
  <2> DEFINE r == [req[p] EXCEPT !.pc = "dispatch", !.view = in, !.todo = <<>>, !.held = NoProcs]
  <2>1. Applied(p, in) = r
    BY <1>3 DEF Applied
  <2>2. /\ r \in RequestType /\ r.op = req[p].op /\ r.pc = "dispatch" /\ r.view = in
        /\ r.todo = <<>> /\ r.held = NoProcs /\ r.saw = req[p].saw
    BY <1>2 DEF RequestType
  <2> QED
    BY <1>3, <2>1, <2>2
<1>4. CASE req[p].op \notin Actions
  <2> DEFINE r == [req[p] EXCEPT !.pc = "filter", !.todo = <<>>, !.held = NoProcs, !.view = out]
  <2>1. Applied(p, in) = r
    BY <1>4 DEF Applied, out
  <2>2. /\ r \in RequestType /\ r.op = req[p].op /\ r.pc = "filter" /\ r.view = out
        /\ r.todo = <<>> /\ r.held = NoProcs /\ r.saw = req[p].saw
    BY <1>1, <1>2 DEF RequestType
  <2> HIDE DEF r
  <2> QED
    BY <1>4, <2>1, <2>2 DEF out
<1> QED
  BY <1>3, <1>4

\* The container runtime lists what runs, or what ran when it was last asked.
LEMMA ScanContainersStep ==
  ASSUME IInv, NEW p \in Procs, ScanContainers(p)
  PROVE  IInv'
<1> DEFINE up == IF cache.fresh THEN cache.up ELSE {t \in Parts : pid[t] # 0}
           in == [NoView EXCEPT !.found = "live", !.appStatus = composeStatus("app", up),
                                !.daprdStatus = composeStatus("daprd", up)]
           b == "app" \in up
           some == Applied(p, in)
           r == [some EXCEPT !.saw = b]
<1>1. /\ kind \in Containers /\ cache' = [fresh |-> TRUE, up |-> up] /\ Goto(p, r)
      /\ UNCHANGED <<kind, pid, last, registry, history>>
  BY DEF ScanContainers
<1>2. /\ WorldInv /\ pid \in ProcMaps /\ last \in Pids /\ last \in Nat /\ owed \in ProcMaps
      /\ \A t \in Targets : pid[t] \in Nat /\ owed[t] \in Nat
  BY WorldFacts DEF IInv
<1>3. up \subseteq Parts /\ (quiet => up = {} /\ kind # "unpaired")
  <2>1. cache.up \subseteq Parts
    BY <1>2 DEF WorldInv, WorldType
  <2>2. quiet => pid = NoProcs /\ kind # "unpaired" /\ (cache.fresh => cache.up = {})
    BY <1>2 DEF WorldInv, Quiet
  <2>3. \A t \in Parts : NoProcs[t] = 0
    BY PartsAreTargets, ConstantsOK
  <2> QED
    BY <2>1, <2>2, <2>3
<1> HIDE DEF up
<1>4. /\ in \in Views /\ in.found = "live" /\ in.app = 0 /\ in.cli = 0 /\ in.daprd = 0
      /\ in.appStatus = composeStatus("app", up) /\ in.daprdStatus = composeStatus("daprd", up)
  <2>1. composeStatus("app", up) \in Statuses /\ composeStatus("daprd", up) \in Statuses
    BY DEF composeStatus, Statuses
  <2> QED
    BY <2>1, ConstantsOK DEF NoView, Views
<1> HIDE DEF in
<1>5. b => in.appStatus = "running"
  BY <1>3, <1>4 DEF composeStatus
<1>6. quiet => fullyStopped(in)
  BY <1>1, <1>3, <1>4 DEF composeStatus, fullyStopped, Parts, Containers
<1>7. PidsOK(in, kind, last, owed, pid)
  BY <1>2, <1>4, NoPids
<1>8. /\ some \in RequestType
      /\ \/ some.op \in Actions /\ some.pc = "dispatch" /\ some.view = in
         \/ /\ some.op \notin Actions /\ some.pc = "filter"
            /\ some.view = [in EXCEPT !.daprd = 0, !.cli = 0, !.app = 0,
                                      !.orphan = FALSE, !.aspire = FALSE]
      /\ some.todo = <<>> /\ some.held = NoProcs
  BY <1>4, AppliedShape
<1> HIDE DEF some
<1>b. b \in BOOLEAN
  OBVIOUS
<1> HIDE DEF b
<1>9. /\ r \in RequestType /\ r.op = some.op /\ r.pc = some.pc /\ r.view = some.view
      /\ r.todo = some.todo /\ r.held = some.held /\ r.saw = b
  BY <1>8, <1>b DEF RequestType
<1> HIDE DEF r
<1>10. Good(r, kind, last, owed, pid, quiet)
  BY <1>2, <1>4, <1>5, <1>6, <1>7, <1>8, <1>9, AppliedGood
<1>11. /\ kind' = kind /\ pid' = pid /\ last' = last /\ entry' = entry
       /\ suppressed' = suppressed /\ owed' = owed /\ quiet' = quiet /\ left' = left
       /\ req' = [req EXCEPT ![p] = r]
  BY <1>1 DEF registry, history, Goto
<1>12. ReqInv'
  <2>1. Ages(kind, last, owed, pid, quiet, last', owed', pid', quiet')
    BY <1>2, <1>11, SameWorldAges
  <2>2. Good(r, kind, last', owed', pid', quiet')
    BY <1>10, <1>11
  <2> QED
    BY <1>2, <1>9, <1>11, <2>1, <2>2, OneMoves
<1>13. WorldType'
  BY <1>1, <1>2, <1>3, <1>11 DEF WorldInv, WorldType, Parts
<1>14. ByKind'
  BY <1>2, <1>11 DEF WorldInv, ByKind
<1>15. Remembered'
  BY <1>2, <1>11 DEF WorldInv, Remembered, StopRemembered, Alive
<1>16. Quiet'
  BY <1>1, <1>2, <1>3, <1>11 DEF WorldInv, Quiet
<1> QED
  BY <1>12, <1>13, <1>14, <1>15, <1>16 DEF IInv, WorldInv

\* A dapr run has no pid but that of its last launch, alive or owed.
LEMMA OneLaunch ==
  ASSUME WorldInv, kind = "dapr run", NEW t \in Targets, NEW g \in Nat, g <= last
  PROVE  (owed[t] # 0 => g <= owed[t]) /\ (pid[t] # 0 => g <= pid[t])
<1>1. pid[t] \in {0, last} /\ owed[t] \in {0, last}
  BY DEF WorldInv, ByKind
<1> QED
  BY <1>1, WorldFacts

\* Without metadata the scan's CLI pid is that of the launch.
LEMMA MetadataFailsStep ==
  ASSUME IInv, NEW p \in Procs, MetadataFails(p)
  PROVE  IInv'
<1> DEFINE in == req[p].view
<1>1. PICK c \in IF kind = "dapr run" THEN {0, in.daprd} ELSE {0} :
        Seen(p, "apply", [in EXCEPT !.cli = c])
  BY DEF MetadataFails
<1>2. req[p].pc = "enrich" /\ UNCHANGED <<world, registry, history>>
  BY DEF MetadataFails, At
<1>3. /\ req[p] \in RequestType /\ in \in Views /\ in.found # "none" /\ ~req[p].saw
      /\ Len(req[p].todo) <= 3 /\ PidsOK(in, kind, last, owed, pid)
      /\ quiet => in.found = "none" \/ fullyStopped(in)
  BY <1>2, ReqFacts DEF RequestType, Sight, Pending, Calm
<1>4. /\ WorldInv /\ last \in Nat /\ \A t \in Targets : pid[t] \in Nat /\ owed[t] \in Nat
  BY WorldFacts DEF IInv
<1>5. in.daprd \in Pids /\ c \in Pids /\ c \in Nat /\ (c # 0 => kind = "dapr run" /\ c = in.daprd)
  BY <1>3, ConstantsOK DEF Views
<1> DEFINE out == [in EXCEPT !.cli = c]
           r == [req[p] EXCEPT !.pc = "apply", !.view = out]
<1>6. /\ out \in Views /\ out.found = in.found /\ out.app = in.app /\ out.daprd = in.daprd
      /\ out.cli = c /\ out.appStatus = in.appStatus /\ out.daprdStatus = in.daprdStatus
  BY <1>3, <1>5 DEF Views
<1> HIDE DEF out
<1>7. /\ r \in RequestType /\ r.pc = "apply" /\ r.view = out /\ r.saw = req[p].saw
      /\ r.todo = req[p].todo
  BY <1>3, <1>6 DEF RequestType, PCs
<1>8. Goto(p, r)
  BY <1>1 DEF Seen, out
<1> HIDE DEF r
<1>9. Pending(r) /\ Phase(r, kind) /\ Gone(r, last, pid)
  BY <1>3, <1>7 DEF Pending, Phase, Gone, Signalling
<1>10. Sight(r, kind)
  BY <1>3, <1>6, <1>7 DEF Sight
<1>11. quiet => Calm(r)
  BY <1>3, <1>6, <1>7 DEF Calm, fullyStopped
<1>12. PidsOK(out, kind, last, owed, pid)
  <2>1. ASSUME NEW t \in Targets
        PROVE  /\ kind \notin Containers => Observed(out, t) <= last
               /\ owed[t] # 0 => Observed(out, t) <= owed[t]
               /\ pid[t] # 0 => Observed(out, t) <= pid[t]
    <3>1. CASE t = "all" /\ c # 0
      <4>1. Observed(out, t) = c /\ kind = "dapr run" /\ kind \notin Containers /\ "daprd" \in Targets
        BY <1>5, <1>6, <3>1, ObservedIs DEF Containers, Targets
      <4>2. c = Observed(in, "daprd")
        BY <1>5, <3>1, ObservedIs
      <4>3. c <= last
        BY <1>3, <4>1, <4>2 DEF PidsOK
      <4> QED
        BY <1>4, <1>5, <4>1, <4>3, OneLaunch
    <3>2. CASE t = "all" /\ c = 0
      BY <1>4, <1>6, <3>2, ObservedIs
    <3>3. CASE t # "all"
      <4>1. Observed(out, t) = Observed(in, t)
        BY <1>6, <3>3, ObservedIs DEF Targets
      <4> QED
        BY <1>3, <4>1 DEF PidsOK
    <3> QED
      BY <3>1, <3>2, <3>3
  <2> QED
    BY <1>3, <1>5, <1>6, <2>1 DEF PidsOK
<1> QED
  BY <1>2, <1>7, <1>8, <1>9, <1>10, <1>11, <1>12, OnlyRequest DEF Good

\* The metadata's pids are those of the launch that answers.
LEMMA EnrichStep ==
  ASSUME IInv, NEW p \in Procs, NEW registered \in BOOLEAN, Enrich(p, registered)
  PROVE  IInv'
<1> DEFINE in == req[p].view
           launch == pid["daprd"]
           running == IF registered THEN Alive("app", launch) ELSE pid["app"] # 0
           status == IF running THEN "running" ELSE "stopped"
           cli == IF registered /\ Alive("all", launch) THEN launch ELSE 0
           aspire == kind = "aspire"
           app == IF running /\ registered THEN launch ELSE 0
           orphan == ~aspire /\ cli = 0 /\ ~running
           saw == running /\ (registered \/ aspire)
           out == [in EXCEPT !.app = app, !.appStatus = status, !.cli = cli, !.aspire = aspire,
                             !.orphan = orphan]
           r == [req[p] EXCEPT !.pc = "apply", !.saw = saw, !.view = out]
<1>1. /\ req[p].pc = "enrich" /\ launch # 0 /\ (registered => kind = "dapr run") /\ Goto(p, r)
      /\ UNCHANGED <<world, registry, history>>
  BY DEF Enrich, At
<1>2. /\ req[p] \in RequestType /\ in \in Views /\ in.found # "none"
      /\ Len(req[p].todo) <= 3 /\ PidsOK(in, kind, last, owed, pid)
  BY <1>1, ReqFacts DEF RequestType, Sight, Pending
<1>3. /\ WorldInv /\ pid \in ProcMaps /\ last \in Nat
      /\ \A t \in Targets : pid[t] \in Nat /\ owed[t] \in Nat
  BY WorldFacts DEF IInv
<1>4. launch \in Pids /\ launch \in Nat /\ "daprd" \in Targets
  BY <1>3, ConstantsOK DEF ProcMaps, Targets
<1>5. ~quiet
  <2>1. NoProcs["daprd"] = 0
    BY <1>4, ConstantsOK
  <2> QED
    BY <1>1, <1>3, <2>1 DEF WorldInv, Quiet
<1>6. /\ status \in Statuses /\ cli \in Pids /\ app \in Pids
      /\ cli \in {0, launch} /\ app \in {0, launch}
      /\ aspire \in BOOLEAN /\ orphan \in BOOLEAN /\ saw \in BOOLEAN
      /\ saw => status = "running" /\ (app # 0 \/ kind = "aspire")
      /\ cli # 0 \/ app # 0 => kind = "dapr run"
  BY <1>1, <1>4, ConstantsOK DEF Statuses
<1> HIDE DEF status, cli, app, aspire, orphan, saw
<1>7. /\ out \in Views /\ out.found = in.found /\ out.app = app /\ out.cli = cli
      /\ out.daprd = in.daprd /\ out.appStatus = status
  BY <1>2, <1>6 DEF Views
<1> HIDE DEF out
<1>8. /\ r \in RequestType /\ r.pc = "apply" /\ r.view = out /\ r.saw = saw /\ r.todo = req[p].todo
  BY <1>2, <1>6, <1>7 DEF RequestType, PCs
<1> HIDE DEF r
<1>9. Pending(r) /\ Phase(r, kind) /\ Gone(r, last, pid)
  BY <1>2, <1>8 DEF Pending, Phase, Gone, Signalling
<1>10. Sight(r, kind)
  BY <1>2, <1>6, <1>7, <1>8 DEF Sight
<1>11. PidsOK(out, kind, last, owed, pid)
  <2>1. kind = "dapr run" => launch <= last
    BY <1>3, <1>4 DEF WorldInv, ByKind, Containers
  <2>2. ASSUME NEW t \in Targets
        PROVE  /\ kind \notin Containers => Observed(out, t) <= last
               /\ owed[t] # 0 => Observed(out, t) <= owed[t]
               /\ pid[t] # 0 => Observed(out, t) <= pid[t]
    <3>1. CASE t = "daprd"
      <4>1. Observed(out, t) = Observed(in, t)
        BY <1>7, <3>1, ObservedIs
      <4> QED
        BY <1>2, <4>1 DEF PidsOK
    <3>2. CASE t # "daprd"
      <4>1. Observed(out, t) \in {cli, app}
        BY <1>7, <3>2, ObservedIs DEF Targets
      <4>2. CASE Observed(out, t) = 0
        BY <1>3, <4>2
      <4>3. CASE Observed(out, t) # 0
        <5>1. Observed(out, t) = launch /\ kind = "dapr run"
          BY <1>6, <4>1, <4>3
        <5> QED
          BY <1>3, <1>4, <2>1, <5>1, OneLaunch
      <4> QED
        BY <4>2, <4>3
    <3> QED
      BY <3>1, <3>2
  <2> QED
    BY <1>2, <1>6, <1>7, <2>2 DEF PidsOK
<1> QED
  BY <1>1, <1>5, <1>8, <1>9, <1>10, <1>11, OnlyRequest DEF Good

-----------------------------------------------------------------------------
(* The overlay. *)

\* An entry's snapshots.
LEMMA EntryFacts ==
  ASSUME WorldInv, entry # NoEntry
  PROVE  /\ entry \in Entries /\ entry.procs \in ProcMaps /\ entry.in.app \in Pids
         /\ entry.in.aspire \in BOOLEAN /\ kind \notin Containers
         /\ \A t \in Targets : entry.procs[t] \in Nat /\ entry.procs[t] <= last
<1>1. entry \in Entries /\ kind \notin Containers /\ \A t \in Targets : entry.procs[t] <= last
  BY DEF WorldInv, WorldType, ByKind
<1>2. entry.procs \in ProcMaps /\ entry.in.app \in Pids /\ entry.in.aspire \in BOOLEAN
  BY <1>1 DEF Entries, ProcMaps
<1> QED
  BY <1>1, <1>2, ConstantsOK DEF ProcMaps

\* The overlay stops the app it was told to stop, and no other.
LEMMA ApplyEntryStep ==
  ASSUME IInv, NEW p \in Procs, ApplyEntry(p)
  PROVE  IInv'
<1> DEFINE in == req[p].view
           procs == IF entry = NoEntry THEN NoProcs ELSE entry.procs
           drops == Drops(in, procs)
           appStopped == procs["app"] # 0 /\ ~Stale(in, procs, "app")
           out == IF appStopped THEN [in EXCEPT !.appStatus = "stopped", !.app = 0] ELSE in
           held == [req[p] EXCEPT !.pc = "droptarget", !.view = out, !.held = procs, !.todo = drops]
           next == IF drops = <<>> THEN Applied(p, out) ELSE held
           b == next.saw /\ (in.app # 0 => Alive("app", in.app) /\ owed["app"] # in.app)
           r == [next EXCEPT !.saw = b]
<1>1. req[p].pc = "apply" /\ Goto(p, r) /\ UNCHANGED <<world, registry, history>>
  BY DEF ApplyEntry, At
<1>2. /\ req[p] \in RequestType /\ in \in Views /\ in.found # "none"
      /\ req[p].saw => in.appStatus = "running" /\ (in.app # 0 \/ kind = "aspire")
      /\ PidsOK(in, kind, last, owed, pid)
      /\ quiet => fullyStopped(in)
  BY <1>1, ReqFacts DEF RequestType, Sight, Calm
<1>3. /\ WorldInv /\ last \in Pids /\ pid \in ProcMaps /\ owed \in ProcMaps
      /\ \A t \in Targets : pid[t] \in Nat /\ owed[t] \in Nat
  BY WorldFacts DEF IInv
<1>4. procs \in ProcMaps /\ "app" \in Targets
  BY <1>3, EntryFacts, ConstantsOK DEF Targets
<1>5. /\ drops \in Seq(Targets) /\ Len(drops) <= 3
      /\ \A i \in 1 .. Len(drops) : Stale(in, procs, drops[i])
  BY DropsAreStale
<1>6. /\ out \in Views /\ out.found = in.found /\ out.cli = in.cli /\ out.daprd = in.daprd
      /\ out.app \in {0, in.app} /\ (~appStopped => out = in)
      /\ out.appStatus = (IF appStopped THEN "stopped" ELSE in.appStatus)
      /\ out.daprdStatus = in.daprdStatus
  BY <1>2, ConstantsOK DEF Views, Statuses
<1> HIDE DEF out
<1>7. b /\ req[p].saw => ~appStopped
  <2> SUFFICES ASSUME appStopped, b, req[p].saw
               PROVE  FALSE
    OBVIOUS
  <2>1. entry # NoEntry /\ procs = entry.procs
    BY <1>4, ConstantsOK
  <2>2. in.app # 0
    <3>1. kind = "aspire" => procs["app"] = 0
      BY <1>3, <2>1 DEF WorldInv, ByKind
    <3> QED
      BY <1>2, <3>1
  <2>3. in.app = entry.procs["app"]
    BY <2>1, <2>2, ObservedIs DEF Stale
  <2>4. Alive("app", in.app) /\ owed["app"] # in.app
    BY <2>2
  <2> QED
    BY <1>3, <1>4, <2>1, <2>3, <2>4 DEF WorldInv, Remembered
<1>8. \A t \in Targets : Stale(in, procs, t) => Stale(out, procs, t)
  <2> SUFFICES ASSUME NEW t \in Targets, Stale(in, procs, t)
               PROVE  Stale(out, procs, t)
    OBVIOUS
  <2>1. CASE t = "app"
    BY <1>6, <2>1
  <2>2. CASE t # "app"
    <3>1. Observed(out, t) = Observed(in, t)
      BY <1>6, <2>2, ObservedIs DEF Targets
    <3> QED
      BY <3>1 DEF Stale
  <2> QED
    BY <2>1, <2>2
<1>9. PidsOK(out, kind, last, owed, pid)
  BY <1>2, <1>3, <1>6, FewerPids
<1>10. quiet => fullyStopped(out)
  BY <1>2, <1>6 DEF fullyStopped
<1> HIDE DEF appStopped, drops, procs
<1>11. CASE drops = <<>>
  <2>1. next = Applied(p, out)
    BY <1>11
  <2> HIDE DEF next
  <2>2. /\ next \in RequestType
        /\ \/ next.op \in Actions /\ next.pc = "dispatch" /\ next.view = out
           \/ /\ next.op \notin Actions /\ next.pc = "filter"
              /\ next.view = [out EXCEPT !.daprd = 0, !.cli = 0, !.app = 0,
                                         !.orphan = FALSE, !.aspire = FALSE]
        /\ next.todo = <<>> /\ next.held = NoProcs /\ next.saw = req[p].saw
    BY <1>6, <2>1, AppliedShape
  <2>3. b \in BOOLEAN /\ (b => req[p].saw)
    BY <1>2, <2>2 DEF RequestType
  <2>4. b => out.appStatus = "running"
    BY <1>2, <1>6, <1>7, <2>3
  <2> HIDE DEF b
  <2>5. /\ r \in RequestType /\ r.op = next.op /\ r.pc = next.pc /\ r.view = next.view
        /\ r.todo = next.todo /\ r.held = next.held /\ r.saw = b
    BY <2>2, <2>3 DEF RequestType
  <2> HIDE DEF r
  <2>6. Good(r, kind, last, owed, pid, quiet)
    BY <1>2, <1>3, <1>6, <1>9, <1>10, <2>2, <2>4, <2>5, AppliedGood
  <2> QED
    BY <1>1, <2>5, <2>6, OnlyRequest
<1>12. CASE drops # <<>>
  <2>1. next = held
    BY <1>12
  <2>2. /\ held \in RequestType /\ held.pc = "droptarget" /\ held.view = out /\ held.held = procs
        /\ held.todo = drops /\ held.saw = req[p].saw
    BY <1>2, <1>4, <1>5, <1>6 DEF RequestType, PCs
  <2> HIDE DEF next, held
  <2>3. b \in BOOLEAN /\ (b => req[p].saw)
    BY <1>2, <2>1, <2>2 DEF RequestType
  <2>4. b => out.appStatus = "running"
    BY <1>2, <1>6, <1>7, <2>3
  <2> HIDE DEF b
  <2>5. /\ r \in RequestType /\ r.pc = "droptarget" /\ r.view = out /\ r.held = procs
        /\ r.todo = drops /\ r.saw = b
    BY <2>1, <2>2, <2>3 DEF RequestType
  <2> HIDE DEF r
  <2>6. Pending(r)
    <3>1. \A i \in 1 .. Len(drops) : drops[i] \in Targets
      BY <1>5
    <3> QED
      BY <1>5, <1>8, <1>12, <2>5, <3>1 DEF Pending, Signalling
  <2>7. Phase(r, kind) /\ Gone(r, last, pid)
    BY <2>5 DEF Phase, Gone, Signalling
  <2>8. Sight(r, kind)
    BY <1>2, <1>6, <2>4, <2>5 DEF Sight
  <2>9. quiet => Calm(r)
    BY <1>10, <2>5 DEF Calm
  <2> QED
    BY <1>1, <1>9, <2>5, <2>6, <2>7, <2>8, <2>9, OnlyRequest DEF Good
<1> QED
  BY <1>11, <1>12

\* A target is dropped that runs again under a new pid, unless the drop is raced.
LEMMA DropTargetStep ==
  ASSUME IInv, NEW p \in Procs, DropTarget(p)
  PROVE  IInv'
<1> DEFINE todo == req[p].todo
           t == Head(todo)
           rest == Tail(todo)
           in == req[p].view
<1>1. /\ req[p].pc = "droptarget"
      /\ entry' = (IF entry = NoEntry THEN NoEntry ELSE WithoutTarget(entry, t))
      /\ owed' = (IF RacedDrop(p, t) THEN [owed EXCEPT ![t] = 0] ELSE owed)
      /\ rest = <<>> => Goto(p, Applied(p, in))
      /\ rest # <<>> => Goto(p, [req[p] EXCEPT !.todo = rest])
      /\ UNCHANGED <<world, suppressed, quiet>>
  BY DEF DropTarget, At
<1>2. /\ req[p] \in RequestType /\ in \in Views /\ in.found # "none"
      /\ todo \in Seq(Targets) /\ todo # <<>> /\ Len(todo) <= 3
      /\ \A i \in 1 .. Len(todo) : Stale(in, req[p].held, todo[i])
      /\ req[p].saw => in.appStatus = "running"
      /\ PidsOK(in, kind, last, owed, pid)
      /\ quiet => fullyStopped(in)
  BY <1>1, ReqFacts DEF RequestType, Sight, Calm, Pending
<1>3. /\ WorldInv /\ last \in Pids /\ last \in Nat /\ pid \in ProcMaps /\ owed \in ProcMaps
      /\ \A u \in Targets : pid[u] \in Nat /\ owed[u] \in Nat
  BY WorldFacts DEF IInv
<1>4. /\ t \in Targets /\ Stale(in, req[p].held, t)
      /\ rest \in Seq(Targets) /\ Len(rest) <= 3
      /\ \A i \in 1 .. Len(rest) : Stale(in, req[p].held, rest[i])
  <2>1. /\ t \in Targets /\ t = todo[1] /\ 1 \in 1 .. Len(todo) /\ rest \in Seq(Targets)
        /\ Len(rest) = Len(todo) - 1
        /\ \A i \in 1 .. Len(rest) : rest[i] = todo[i + 1] /\ i + 1 \in 1 .. Len(todo)
    BY <1>2, HeadAndTail
  <2>2. Len(todo) \in Nat
    BY <1>2
  <2> QED
    BY <1>2, <2>1, <2>2
<1> HIDE DEF t, rest, todo
<1>5. /\ owed' \in ProcMaps
      /\ \A u \in Targets : owed'[u] \in {0, owed[u]} /\ (u # t => owed'[u] = owed[u])
  BY <1>1, <1>3, <1>4, ConstantsOK DEF ProcMaps
<1>6. /\ kind' = kind /\ pid' = pid /\ last' = last /\ cache' = cache
      /\ suppressed' = suppressed /\ quiet' = quiet
  BY <1>1 DEF world
<1>7. entry = NoEntry => entry' = NoEntry
  BY <1>1
<1>8. entry # NoEntry =>
        \/ entry' = NoEntry /\ \A u \in Targets : u # t => entry.procs[u] = 0
        \/ /\ entry' \in Entries /\ entry' # NoEntry /\ entry'.in = entry.in
           /\ entry'.procs[t] = 0 /\ \A u \in Targets : u # t => entry'.procs[u] = entry.procs[u]
  <2> SUFFICES ASSUME entry # NoEntry
               PROVE  \/ entry' = NoEntry /\ \A u \in Targets : u # t => entry.procs[u] = 0
                      \/ /\ entry' \in Entries /\ entry' # NoEntry /\ entry'.in = entry.in
                         /\ entry'.procs[t] = 0
                         /\ \A u \in Targets : u # t => entry'.procs[u] = entry.procs[u]
    OBVIOUS
  <2> DEFINE ps == [entry.procs EXCEPT ![t] = 0]
  <2>1. entry \in Entries /\ entry.procs \in ProcMaps
    BY <1>3, EntryFacts
  <2>2. ps \in ProcMaps /\ ps[t] = 0 /\ \A u \in Targets : u # t => ps[u] = entry.procs[u]
    BY <1>4, <2>1, ConstantsOK DEF ProcMaps
  <2>3. entry' = IF ps = NoProcs THEN NoEntry ELSE [entry EXCEPT !.procs = ps]
    BY <1>1 DEF WithoutTarget
  <2> HIDE DEF ps
  <2>4. CASE ps = NoProcs
    BY <2>2, <2>3, <2>4, ConstantsOK
  <2>5. CASE ps # NoProcs
    <3> DEFINE e == [entry EXCEPT !.procs = ps]
    <3>1. e \in Entries /\ e.in = entry.in /\ e.procs = ps
      BY <2>1, <2>2 DEF Entries, ProcMaps
    <3>2. e # NoEntry
      BY <3>1, LifecycleAssumption
    <3>3. entry' = e
      BY <2>3, <2>5
    <3> HIDE DEF e
    <3> QED
      BY <2>2, <3>1, <3>2, <3>3
  <2> QED
    BY <2>4, <2>5
<1>9. owed'[t] = 0
  <2> SUFFICES ASSUME owed'[t] # 0
               PROVE  FALSE
    OBVIOUS
  <2>1. ~RacedDrop(p, t) /\ owed[t] # 0
    BY <1>1, <1>3, <1>4, <1>5 DEF ProcMaps
  <2>2. entry # NoEntry /\ entry.procs[t] = owed[t]
    BY <1>3, <1>4, <2>1 DEF WorldInv, Remembered, StopRemembered
  <2>3. req[p].held[t] = owed[t] /\ Observed(in, t) \notin 1 .. (owed[t] - 1)
    BY <2>1, <2>2 DEF RacedDrop
  <2>4. Observed(in, t) # 0 /\ Observed(in, t) # owed[t] /\ Observed(in, t) \in Nat
    BY <1>2, <1>4, <2>3, ViewFacts DEF Stale
  <2>5. Observed(in, t) <= owed[t]
    BY <1>2, <1>4, <2>1 DEF PidsOK
  <2> QED
    BY <1>3, <1>4, <2>3, <2>4, <2>5
<1>10. left' = left
  BY <1>1 DEF Goto
<1>11. WorldType'
  <2>1. entry' \in {NoEntry} \cup Entries
    BY <1>7, <1>8
  <2> QED
    BY <1>3, <1>5, <1>6, <1>10, <2>1 DEF WorldInv, WorldType, Parts
<1>12. ByKind'
  <2>1. entry' # NoEntry => /\ \A u \in Targets : entry'.procs[u] <= last
                            /\ kind = "aspire" => entry'.procs["app"] = 0 /\ entry'.in.app = 0
    <3> SUFFICES ASSUME entry' # NoEntry
                 PROVE  /\ \A u \in Targets : entry'.procs[u] <= last
                        /\ kind = "aspire" => entry'.procs["app"] = 0 /\ entry'.in.app = 0
      OBVIOUS
    <3>1. /\ entry # NoEntry /\ entry'.in = entry.in
          /\ \A u \in Targets : entry'.procs[u] = 0 \/ entry'.procs[u] = entry.procs[u]
      BY <1>7, <1>8
    <3>2. /\ \A u \in Targets : entry.procs[u] <= last
          /\ kind = "aspire" => entry.procs["app"] = 0 /\ entry.in.app = 0
      BY <1>3, <3>1 DEF WorldInv, ByKind
    <3>3. "app" \in Targets
      BY DEF Targets
    <3> QED
      BY <1>3, <3>1, <3>2, <3>3
  <2>2. kind \in Containers => entry' = NoEntry
    BY <1>3, <1>7 DEF WorldInv, ByKind
  <2>3. /\ kind \notin Containers => \A u \in Targets : pid[u] <= last
        /\ kind = "dapr run" => \A u \in Targets : pid[u] \in {0, last} /\ owed'[u] \in {0, last}
    BY <1>3, <1>5 DEF WorldInv, ByKind
  <2> QED
    BY <1>6, <2>1, <2>2, <2>3 DEF ByKind
<1>13. Remembered'
  <2>1. ASSUME NEW u \in Targets, owed'[u] # 0
        PROVE  entry' # NoEntry /\ entry'.procs[u] = owed'[u] /\ pid'[u] \in {0, owed'[u]}
    <3>1. u # t /\ owed'[u] = owed[u] /\ owed[u] # 0
      BY <1>5, <1>9, <2>1
    <3>2. entry # NoEntry /\ entry.procs[u] = owed[u] /\ pid[u] \in {0, owed[u]}
      BY <1>3, <3>1 DEF WorldInv, Remembered, StopRemembered
    <3> QED
      BY <1>6, <1>8, <3>1, <3>2
  <2>2. ASSUME entry' # NoEntry, NEW u \in Targets, entry'.procs[u] # 0, pid'[u] = entry'.procs[u]
        PROVE  owed'[u] = entry'.procs[u]
    <3>1. entry # NoEntry /\ u # t /\ entry'.procs[u] = entry.procs[u]
      BY <1>7, <1>8, <2>2
    <3>2. owed[u] = entry.procs[u]
      BY <1>3, <1>6, <2>2, <3>1 DEF WorldInv, Remembered, Alive
    <3> QED
      BY <1>5, <3>1, <3>2
  <2> QED
    BY <2>1, <2>2 DEF Remembered, StopRemembered, Alive
<1>14. Quiet'
  BY <1>3, <1>6 DEF WorldInv, Quiet
<1>15. Ages(kind, last, owed, pid, quiet, last', owed', pid', quiet')
  BY <1>3, <1>5, <1>6 DEF Ages
<1>16. PidsOK(in, kind, last, owed', pid)
  BY <1>2, <1>5 DEF PidsOK
<1>17. CASE rest = <<>>
  <2> DEFINE r == Applied(p, in)
  <2>1. Goto(p, r)
    BY <1>1, <1>17
  <2> HIDE DEF r
  <2>2. /\ r \in RequestType
        /\ \/ r.op \in Actions /\ r.pc = "dispatch" /\ r.view = in
           \/ /\ r.op \notin Actions /\ r.pc = "filter"
              /\ r.view = [in EXCEPT !.daprd = 0, !.cli = 0, !.app = 0,
                                     !.orphan = FALSE, !.aspire = FALSE]
        /\ r.todo = <<>> /\ r.held = NoProcs /\ r.saw = req[p].saw
    BY <1>2, AppliedShape DEF r
  <2>3. Good(r, kind, last', owed', pid', quiet')
    BY <1>2, <1>3, <1>5, <1>6, <1>16, <2>2, AppliedGood
  <2>4. ReqInv'
    BY <1>3, <1>5, <1>6, <1>15, <2>1, <2>2, <2>3, OneMoves DEF Goto
  <2> QED
    BY <1>11, <1>12, <1>13, <1>14, <2>4 DEF IInv, WorldInv
<1>18. CASE rest # <<>>
  <2> DEFINE r == [req[p] EXCEPT !.todo = rest]
  <2>1. Goto(p, r)
    BY <1>1, <1>18
  <2>2. /\ r \in RequestType /\ r.pc = "droptarget" /\ r.view = in /\ r.held = req[p].held
        /\ r.todo = rest /\ r.saw = req[p].saw
    BY <1>1, <1>2, <1>4 DEF RequestType
  <2> HIDE DEF r
  <2>3. Pending(r) /\ Phase(r, kind) /\ Gone(r, last, pid)
    BY <1>4, <1>18, <2>2 DEF Pending, Phase, Gone, Signalling
  <2>4. Sight(r, kind)
    BY <1>2, <2>2 DEF Sight
  <2>5. quiet => Calm(r)
    BY <1>2, <2>2 DEF Calm
  <2>6. Good(r, kind, last', owed', pid', quiet')
    BY <1>6, <1>16, <2>2, <2>3, <2>4, <2>5 DEF Good
  <2>7. ReqInv'
    BY <1>3, <1>5, <1>6, <1>15, <2>1, <2>2, <2>6, OneMoves DEF Goto
  <2> QED
    BY <1>11, <1>12, <1>13, <1>14, <2>7 DEF IInv, WorldInv
<1> QED
  BY <1>17, <1>18

\* A stopped instance that the scan did not find is made up from its entry.
LEMMA LookupStep ==
  ASSUME IInv, NEW p \in Procs, Lookup(p)
  PROVE  IInv'
<1>1. req[p].pc = "lookup" /\ UNCHANGED <<world, registry, history>>
  BY DEF Lookup, At
<1>2. CASE entry = NoEntry
  <2> DEFINE b == req[p].op \notin Actions
  <2>1. b \in BOOLEAN /\ Returns(p, b)
    BY <1>2 DEF Lookup
  <2> HIDE DEF b
  <2> QED
    BY <1>1, <2>1, JustReturns
<1>3. CASE entry # NoEntry
  <2> DEFINE gone == entry.procs["app"] # 0 \/ ~Alive("app", entry.in.app)
             in == [NoView EXCEPT !.found = "ghost", !.daprdStatus = "stopped",
                      !.aspire = entry.in.aspire,
                      !.app = IF gone THEN 0 ELSE entry.in.app,
                      !.appStatus = IF gone THEN "stopped" ELSE "running"]
             r == Applied(p, in)
  <2>1. Goto(p, r)
    BY <1>3 DEF Lookup, synthesize
  <2> HIDE DEF r
  <2>2. /\ WorldInv /\ last \in Pids /\ last \in Nat /\ pid \in ProcMaps /\ owed \in ProcMaps
        /\ \A u \in Targets : pid[u] \in Nat /\ owed[u] \in Nat
    BY WorldFacts DEF IInv
  <2>3. entry.in.app \in Pids /\ entry.in.aspire \in BOOLEAN /\ kind \notin Containers
    BY <1>3, <2>2, EntryFacts
  <2>4. ~gone => /\ entry.in.app = pid["app"] /\ pid["app"] # 0 /\ kind = "dapr run" /\ ~quiet
    <3> SUFFICES ASSUME ~gone
                 PROVE  entry.in.app = pid["app"] /\ pid["app"] # 0 /\ kind = "dapr run" /\ ~quiet
      OBVIOUS
    <3>1. entry.in.app = pid["app"] /\ pid["app"] # 0
      BY DEF Alive
    <3>2. kind # "aspire"
      BY <1>3, <2>2, <3>1 DEF WorldInv, ByKind
    <3>3. kind = "dapr run"
      BY <2>2, <2>3, <3>2, WorldFacts DEF Kinds
    <3>4. NoProcs["app"] = 0
      BY ConstantsOK DEF Targets
    <3> QED
      BY <2>2, <3>1, <3>3, <3>4 DEF WorldInv, Quiet
  <2> HIDE DEF gone
  <2>5. /\ in \in Views /\ in.found = "ghost" /\ in.daprd = 0 /\ in.cli = 0
        /\ in.app = (IF gone THEN 0 ELSE entry.in.app)
        /\ in.daprdStatus = "stopped" /\ (gone => in.appStatus = "stopped")
    BY <2>3, ConstantsOK DEF NoView, Views, Statuses
  <2> HIDE DEF in
  <2>6. quiet => fullyStopped(in)
    BY <2>4, <2>5 DEF fullyStopped
  <2>7. PidsOK(in, kind, last, owed, pid)
    <3>1. CASE gone
      BY <2>2, <2>5, <3>1, NoPids
    <3>2. CASE ~gone
      <4>1. "app" \in Targets /\ pid["app"] <= last /\ (owed["app"] # 0 => pid["app"] = owed["app"])
        <5>1. "app" \in Targets
          BY DEF Targets
        <5> QED
          BY <2>2, <2>3, <2>4, <3>2, <5>1 DEF WorldInv, ByKind, Remembered
      <4>2. ASSUME NEW t \in Targets
            PROVE  /\ kind \notin Containers => Observed(in, t) <= last
                   /\ owed[t] # 0 => Observed(in, t) <= owed[t]
                   /\ pid[t] # 0 => Observed(in, t) <= pid[t]
        <5>1. CASE t = "app"
          <6>1. Observed(in, t) = pid["app"]
            BY <2>4, <2>5, <3>2, <5>1, ObservedIs
          <6> QED
            BY <2>2, <4>1, <5>1, <6>1
        <5>2. CASE t # "app"
          <6>1. Observed(in, t) = 0
            BY <2>5, <5>2, ObservedIs DEF Targets
          <6> QED
            BY <2>2, <6>1
        <5> QED
          BY <5>1, <5>2
      <4> QED
        BY <2>3, <2>4, <3>2, <4>2 DEF PidsOK
    <3> QED
      BY <3>1, <3>2
  <2>8. ~req[p].saw
    BY <1>1, ReqFacts DEF Sight
  <2>9. /\ r \in RequestType
        /\ \/ r.op \in Actions /\ r.pc = "dispatch" /\ r.view = in
           \/ /\ r.op \notin Actions /\ r.pc = "filter"
              /\ r.view = [in EXCEPT !.daprd = 0, !.cli = 0, !.app = 0,
                                     !.orphan = FALSE, !.aspire = FALSE]
        /\ r.todo = <<>> /\ r.held = NoProcs /\ ~r.saw
    BY <2>5, <2>8, AppliedShape DEF r
  <2>10. Good(r, kind, last, owed, pid, quiet)
    BY <2>2, <2>5, <2>6, <2>7, <2>9, AppliedGood
  <2> QED
    BY <1>1, <2>1, <2>9, <2>10, OnlyRequest
<1> QED
  BY <1>2, <1>3

\* Serving the instance ends a list, or goes on to dismiss it.
LEMMA ServeGood ==
  ASSUME IInv, NEW p \in Procs, Serve(p)
  PROVE  \E r \in RequestType : /\ Goto(p, r) /\ Good(r, kind, last, owed, pid, quiet)
                                /\ r.pc \in {"done", "drop"}
<1>1. last \in Pids /\ owed \in ProcMaps /\ pid \in ProcMaps
  BY WorldFacts DEF IInv
<1>2. CASE req[p].op = "clear" /\ fullyStopped(req[p].view)
  <2> DEFINE r == [Idle EXCEPT !.op = "clear", !.pc = "drop"]
  <2>1. Goto(p, r)
    BY <1>2 DEF Serve
  <2>2. "drop" \in PCs /\ "clear" \in Ops /\ "all" \in Targets /\ <<>> \in Seq(Targets)
    BY DEF PCs, Ops, Targets
  <2>3. /\ r \in RequestType /\ r.pc = "drop" /\ r.op = "clear" /\ r.view = NoView
        /\ r.todo = <<>> /\ r.saw = FALSE
    BY <2>2, ConstantsOK DEF Idle, RequestType
  <2> HIDE DEF r
  <2>4. Good(r, kind, last, owed, pid, quiet)
    BY <1>1, <2>3, FreshGood
  <2> QED
    BY <2>1, <2>3, <2>4
<1>3. CASE ~(req[p].op = "clear" /\ fullyStopped(req[p].view))
  <2> DEFINE r == [Idle EXCEPT !.ok = TRUE]
  <2>1. Goto(p, r)
    BY <1>3 DEF Serve, Returns
  <2>2. r \in RequestType /\ Good(r, kind, last, owed, pid, quiet)
    BY <1>1, IdleGood
  <2>3. r.pc = "done"
    BY DEF Idle
  <2> HIDE DEF r
  <2> QED
    BY <2>1, <2>2, <2>3
<1> QED
  BY <1>2, <1>3

\* The suppression loop of List.
LEMMA FilterStep ==
  ASSUME IInv, NEW p \in Procs, Filter(p)
  PROVE  IInv'
<1> DEFINE in == req[p].view
<1>1. req[p].pc = "filter" /\ UNCHANGED <<world, registry, history>>
  BY DEF Filter, At
<1>2. CASE ~suppressed
  <2>1. Serve(p)
    BY <1>2 DEF Filter
  <2>2. PICK r \in RequestType : Goto(p, r) /\ Good(r, kind, last, owed, pid, quiet)
    BY <2>1, ServeGood
  <2> QED
    BY <1>1, <2>2, OnlyRequest
<1>3. CASE suppressed /\ fullyStopped(in)
  <2>1. Returns(p, FALSE)
    BY <1>3 DEF Filter
  <2> QED
    BY <1>1, <2>1, JustReturns
<1>4. CASE suppressed /\ ~fullyStopped(in)
  <2> DEFINE r == [req[p] EXCEPT !.pc = "unsuppress", !.view = in]
  <2>1. Goto(p, r)
    BY <1>4 DEF Filter, Seen
  <2>2. /\ req[p] \in RequestType /\ in.found # "none" /\ req[p].op \notin Actions
        /\ (req[p].saw => in.appStatus = "running") /\ Len(req[p].todo) <= 3
        /\ PidsOK(in, kind, last, owed, pid)
        /\ quiet => fullyStopped(in)
    BY <1>1, ReqFacts DEF Sight, Phase, Pending, Calm
  <2>3. /\ r \in RequestType /\ r.pc = "unsuppress" /\ r.view = in /\ r.saw = req[p].saw
        /\ r.todo = req[p].todo /\ r.op = req[p].op
    BY <2>2 DEF RequestType, PCs
  <2> HIDE DEF r
  <2>4. Pending(r) /\ Phase(r, kind) /\ Gone(r, last, pid)
    BY <2>2, <2>3 DEF Pending, Phase, Gone, Signalling
  <2>5. Sight(r, kind)
    BY <1>4, <2>2, <2>3 DEF Sight
  <2>6. ~quiet
    BY <1>4, <2>2
  <2> QED
    BY <1>1, <2>1, <2>2, <2>3, <2>4, <2>5, <2>6, OnlyRequest DEF Good
<1> QED
  BY <1>2, <1>3, <1>4

\* Nothing is unsuppressed that was dismissed while nothing ran.
LEMMA UnsuppressStep ==
  ASSUME IInv, NEW p \in Procs, Unsuppress(p)
  PROVE  IInv'
<1>1. /\ req[p].pc = "unsuppress" /\ suppressed' = FALSE /\ Serve(p)
      /\ UNCHANGED <<world, entry, history>>
  BY DEF Unsuppress, At
<1>2. ~quiet
  BY <1>1, ReqFacts DEF Sight, Calm
<1>3. PICK r \in RequestType : Goto(p, r) /\ Good(r, kind, last, owed, pid, quiet)
  BY <1>1, ServeGood
<1>4. /\ kind' = kind /\ pid' = pid /\ last' = last /\ cache' = cache /\ entry' = entry
      /\ owed' = owed /\ quiet' = quiet /\ req' = [req EXCEPT ![p] = r] /\ left' = left
  BY <1>1, <1>3 DEF world, history, Goto
<1>5. WorldInv /\ last \in Pids /\ owed \in ProcMaps /\ pid \in ProcMaps
  BY WorldFacts DEF IInv
<1>6. Ages(kind, last, owed, pid, quiet, last', owed', pid', quiet')
  BY <1>4, <1>5, SameWorldAges
<1>7. Good(r, kind, last', owed', pid', quiet')
  BY <1>3, <1>4
<1>8. ReqInv'
  BY <1>4, <1>5, <1>6, <1>7, OneMoves
<1>9. WorldType'
  BY <1>1, <1>4, <1>5 DEF WorldInv, WorldType, Parts
<1>10. ByKind'
  BY <1>4, <1>5 DEF WorldInv, ByKind
<1>11. Remembered'
  BY <1>4, <1>5 DEF WorldInv, Remembered, StopRemembered, Alive
<1>12. Quiet'
  BY <1>2, <1>4 DEF Quiet
<1> QED
  BY <1>8, <1>9, <1>10, <1>11, <1>12 DEF IInv, WorldInv

-----------------------------------------------------------------------------
(* Dismissals. *)

\* Dropping the entry forgets what was owed with it.
LEMMA DropStep ==
  ASSUME IInv, NEW p \in Procs, Drop(p)
  PROVE  IInv'
<1> DEFINE r == [req[p] EXCEPT !.pc = "suppress"]
<1>1. /\ req[p].pc = "drop" /\ entry' = NoEntry /\ owed' = NoProcs /\ Goto(p, r)
      /\ UNCHANGED <<world, suppressed, quiet>>
  BY DEF Drop, At
<1>2. /\ kind' = kind /\ pid' = pid /\ last' = last /\ cache' = cache /\ suppressed' = suppressed
      /\ quiet' = quiet /\ left' = left /\ req' = [req EXCEPT ![p] = r]
  BY <1>1 DEF world, Goto
<1>3. /\ WorldInv /\ last \in Pids /\ last \in Nat /\ pid \in ProcMaps /\ owed \in ProcMaps
      /\ \A u \in Targets : pid[u] \in Nat /\ owed[u] \in Nat
  BY WorldFacts DEF IInv
<1>4. NoProcs \in ProcMaps /\ \A u \in Targets : NoProcs[u] = 0
  BY ConstantsOK
<1>5. /\ req[p] \in RequestType /\ req[p].op \in {"clear", "dismiss"} /\ Len(req[p].todo) <= 3
      /\ PidsOK(req[p].view, kind, last, owed, pid)
      /\ quiet => req[p].view.found = "none" \/ fullyStopped(req[p].view)
  BY <1>1, ReqFacts DEF Phase, Pending, Calm
<1>6. /\ r \in RequestType /\ r.pc = "suppress" /\ r.op = req[p].op /\ r.view = req[p].view
      /\ r.todo = req[p].todo
  BY <1>5 DEF RequestType, PCs
<1> HIDE DEF r
<1>7. Pending(r) /\ Phase(r, kind) /\ Gone(r, last, pid) /\ Sight(r, kind)
  BY <1>5, <1>6 DEF Pending, Phase, Gone, Sight, Signalling, Actions
<1>8. PidsOK(r.view, kind, last, NoProcs, pid)
  BY <1>4, <1>5, <1>6 DEF PidsOK
<1>9. quiet => Calm(r)
  BY <1>5, <1>6 DEF Calm
<1>10. Good(r, kind, last', owed', pid', quiet')
  BY <1>1, <1>2, <1>7, <1>8, <1>9 DEF Good
<1>11. Ages(kind, last, owed, pid, quiet, last', owed', pid', quiet')
  BY <1>1, <1>2, <1>3, <1>4 DEF Ages
<1>12. ReqInv'
  BY <1>1, <1>2, <1>3, <1>4, <1>6, <1>10, <1>11, OneMoves
<1>13. WorldType'
  BY <1>1, <1>2, <1>3, <1>4 DEF WorldInv, WorldType, Parts
<1>14. ByKind'
  BY <1>1, <1>2, <1>3, <1>4 DEF WorldInv, ByKind
<1>15. Remembered'
  BY <1>1, <1>2, <1>4 DEF Remembered, StopRemembered
<1>16. Quiet'
  BY <1>2, <1>3 DEF WorldInv, Quiet
<1> QED
  BY <1>12, <1>13, <1>14, <1>15, <1>16 DEF IInv, WorldInv

\* A dismissal is quiet if nothing runs and nobody in flight saw it run.
LEMMA SuppressStep ==
  ASSUME IInv, NEW p \in Procs, Suppress(p)
  PROVE  IInv'
<1> DEFINE r == [Idle EXCEPT !.ok = TRUE]
<1>1. /\ suppressed' = TRUE /\ quiet' = NothingKnownRunning(p) /\ req' = [req EXCEPT ![p] = r]
      /\ left' = left /\ UNCHANGED <<world, entry, owed>>
  BY DEF Suppress, Returns, Goto
<1>2. /\ kind' = kind /\ pid' = pid /\ last' = last /\ cache' = cache /\ entry' = entry
      /\ owed' = owed
  BY <1>1 DEF world
<1>3. WorldInv /\ last \in Pids /\ owed \in ProcMaps /\ pid \in ProcMaps
  BY WorldFacts DEF IInv
<1>4. r \in RequestType /\ Good(r, kind, last, owed, pid, quiet')
  BY <1>3, IdleGood
<1> HIDE DEF r
<1>5. quiet' \in BOOLEAN
  BY <1>1 DEF NothingKnownRunning
<1>6. ReqInv'
  <2>1. req' \in [Procs -> RequestType] /\ req'[p] = r /\ \A q \in Procs \ {p} : req'[q] = req[q]
    BY <1>1, <1>4 DEF IInv, ReqInv
  <2>2. ASSUME NEW q \in Procs
        PROVE  Good(req'[q], kind', last', owed', pid', quiet')
    <3>1. CASE q = p
      BY <1>2, <1>4, <2>1, <3>1
    <3>2. CASE q # p
      <4>1. /\ Pending(req[q]) /\ Phase(req[q], kind) /\ Sight(req[q], kind)
            /\ PidsOK(req[q].view, kind, last, owed, pid) /\ Gone(req[q], last, pid)
        BY ReqFacts
      <4>2. quiet' => Calm(req[q])
        BY <1>1, <3>2 DEF NothingKnownRunning, Calm, At
      <4>3. Good(req[q], kind, last, owed, pid, quiet')
        BY <4>1, <4>2 DEF Good
      <4> QED
        BY <1>2, <2>1, <3>2, <4>3
    <3> QED
      BY <3>1, <3>2
  <2> QED
    BY <2>1, <2>2 DEF ReqInv
<1>7. WorldType'
  BY <1>1, <1>2, <1>3, <1>5 DEF WorldInv, WorldType, Parts
<1>8. ByKind'
  BY <1>2, <1>3 DEF WorldInv, ByKind
<1>9. Remembered'
  BY <1>2, <1>3 DEF WorldInv, Remembered, StopRemembered, Alive
<1>10. Quiet'
  BY <1>1, <1>2 DEF Quiet, NothingKnownRunning
<1> QED
  BY <1>6, <1>7, <1>8, <1>9, <1>10 DEF IInv, WorldInv

-----------------------------------------------------------------------------
(* Stops. *)

\* A target a stop acts on.
LEMMA EffectiveIsTarget ==
  ASSUME IInv, NEW p \in Procs
  PROVE  Effective(p) \in Targets
<1>1. req[p].target \in Targets /\ "all" \in Targets
  BY ReqFacts DEF RequestType, Targets
<1> QED
  BY <1>1 DEF Effective

\* What a stop records is what is alive, and it signals what it was shown.
LEMMA RecordStopStep ==
  ASSUME IInv, NEW p \in Procs, RecordStop(p)
  PROVE  IInv'
<1> DEFINE in == req[p].view
           pids == Signals(in, Effective(p))
           snaps == Snapshots(in, Effective(p))
           old == IF entry = NoEntry THEN NoProcs ELSE entry.procs
           victims == [t \in Targets |-> IF t \in Range(pids) THEN Observed(in, t) ELSE 0]
           r == [Idle EXCEPT !.pc = "terminate", !.op = "stop", !.todo = pids, !.held = victims]
           e == [in |-> [app |-> in.app, aspire |-> in.aspire], procs |-> Merge(old, snaps)]
<1>1. /\ req[p].pc = "dispatch" /\ kind \notin Containers /\ pids # <<>>
      /\ \/ entry' = entry /\ owed' = owed
         \/ entry' = e /\ owed' = Merge(owed, snaps)
      /\ Goto(p, r) /\ UNCHANGED <<world, suppressed, quiet>>
  BY DEF RecordStop, At
<1>2. /\ kind' = kind /\ pid' = pid /\ last' = last /\ cache' = cache /\ suppressed' = suppressed
      /\ quiet' = quiet /\ left' = left /\ req' = [req EXCEPT ![p] = r]
  BY <1>1 DEF world, Goto
<1>3. /\ WorldInv /\ last \in Pids /\ last \in Nat /\ pid \in ProcMaps /\ owed \in ProcMaps
      /\ \A u \in Targets : pid[u] \in Nat /\ owed[u] \in Nat
  BY WorldFacts DEF IInv
<1>4. /\ req[p] \in RequestType /\ in \in Views /\ PidsOK(in, kind, last, owed, pid)
  BY ReqFacts DEF RequestType
<1>5. \A t \in Targets : Observed(in, t) \in Pids /\ Observed(in, t) \in Nat /\ Observed(in, t) <= last
  BY <1>1, <1>4, ViewFacts DEF PidsOK
<1>6. /\ pids \in Seq(Targets) /\ Len(pids) <= 3
      /\ \A i \in 1 .. Len(pids) : pids[i] \in Targets /\ Observed(in, pids[i]) # 0
  <2>1. Effective(p) \in Targets
    BY EffectiveIsTarget
  <2>2. /\ pids \in Seq(Targets) /\ Len(pids) <= 3
        /\ \A i \in 1 .. Len(pids) : Observed(in, pids[i]) # 0
    BY <2>1, SignalsAreKnown
  <2> QED
    BY <2>2
<1>7. \A t \in Targets : snaps[t] = 0 \/ (snaps[t] = pid[t] /\ snaps[t] = Observed(in, t))
  BY DEF Snapshots, Alive
<1>8. snaps \in ProcMaps /\ old \in ProcMaps
  BY <1>3, <1>5, EntryFacts, ConstantsOK DEF Snapshots, ProcMaps
<1> HIDE DEF pids, snaps
<1>9. /\ victims \in ProcMaps
      /\ \A t \in Targets : victims[t] <= last
      /\ \A t \in Targets : victims[t] # 0 => \E i \in 1 .. Len(pids) : pids[i] = t
      /\ \A i \in 1 .. Len(pids) : victims[pids[i]] # 0
  <2>1. \A t \in Targets : t \in Range(pids) <=> \E i \in 1 .. Len(pids) : pids[i] = t
    BY <1>6 DEF Range
  <2> HIDE DEF in
  <2>2. victims \in ProcMaps /\ \A t \in Targets : victims[t] <= last
    BY <1>3, <1>5, ConstantsOK DEF ProcMaps
  <2> QED
    BY <1>6, <2>1, <2>2
<1> HIDE DEF victims
<1>10. /\ r \in RequestType /\ r.pc = "terminate" /\ r.op = "stop" /\ r.todo = pids
       /\ r.held = victims /\ r.view = NoView /\ r.saw = FALSE
  <2>1. "terminate" \in PCs /\ "stop" \in Ops /\ "all" \in Targets
    BY DEF PCs, Ops, Actions, Targets
  <2> QED
    BY <1>6, <1>9, <2>1, ConstantsOK DEF Idle, RequestType
<1> HIDE DEF r
<1>11. /\ owed' \in ProcMaps
       /\ \A t \in Targets : owed'[t] \in {0, owed[t], pid[t]}
  <2>1. CASE owed' = owed
    BY <1>3, <2>1
  <2>2. CASE owed' = Merge(owed, snaps)
    BY <1>3, <1>7, <1>8, <2>2 DEF Merge, ProcMaps
  <2> QED
    BY <1>1, <2>1, <2>2
<1>12. Good(r, kind, last', owed', pid', quiet')
  <2>1. Pending(r)
    BY <1>1, <1>6, <1>9, <1>10 DEF Pending, Signalling
  <2>2. Phase(r, kind) /\ Sight(r, kind)
    BY <1>1, <1>10 DEF Phase, Sight, Signalling
  <2>3. Gone(r, last, pid)
    BY <1>9, <1>10 DEF Gone
  <2>4. PidsOK(r.view, kind, last, owed', pid) /\ Calm(r)
    <3>1. NoView.app = 0 /\ NoView.cli = 0 /\ NoView.daprd = 0 /\ NoView.found = "none"
      BY DEF NoView
    <3>2. Calm(r)
      BY <1>10, <3>1 DEF Calm
    <3> QED
      BY <1>3, <1>10, <1>11, <3>1, <3>2, NoPids
  <2> QED
    BY <1>2, <2>1, <2>2, <2>3, <2>4 DEF Good
<1>13. Ages(kind, last, owed, pid, quiet, last', owed', pid', quiet')
  BY <1>2, <1>3, <1>11 DEF Ages
<1>14. ReqInv'
  BY <1>2, <1>3, <1>10, <1>11, <1>12, <1>13, OneMoves
<1>15. WorldInv'
  <2>1. CASE entry' = entry /\ owed' = owed
    BY <1>2, <1>3, <2>1, SameWorld DEF world, registry, history
  <2>2. CASE entry' = e /\ owed' = Merge(owed, snaps)
    <3> DEFINE m == Merge(old, snaps)
    <3>1. /\ m \in ProcMaps
          /\ \A t \in Targets : m[t] = IF snaps[t] # 0 THEN snaps[t] ELSE old[t]
      BY <1>8 DEF Merge, ProcMaps
    <3>2. \A t \in Targets : owed'[t] = IF snaps[t] # 0 THEN snaps[t] ELSE owed[t]
      BY <2>2 DEF Merge
    <3> HIDE DEF m
    <3>3. e.procs = m /\ e.in.app = in.app /\ e \in Entries
      <4>1. in.app \in Pids /\ in.aspire \in BOOLEAN
        BY <1>4 DEF Views
      <4> QED
        BY <3>1, <4>1 DEF Entries, ProcMaps, m
    <3> HIDE DEF e
    <3>4. e # NoEntry
      BY <3>3, LifecycleAssumption
    <3>5. entry' = e /\ entry' # NoEntry /\ entry'.procs = m /\ entry'.in.app = in.app
      BY <2>2, <3>3, <3>4
    <3>6. WorldType'
      BY <1>2, <1>3, <1>11, <3>3, <3>5 DEF WorldInv, WorldType, Parts
    <3>7. \A t \in Targets : old[t] <= last /\ old[t] \in Nat
      BY <1>3, EntryFacts, ConstantsOK
    <3>8. ByKind'
      <4>1. \A t \in Targets : m[t] <= last
        BY <1>5, <1>7, <3>1, <3>7
      <4>2. kind = "aspire" => m["app"] = 0 /\ in.app = 0
        <5> SUFFICES ASSUME kind = "aspire"
                     PROVE  m["app"] = 0 /\ in.app = 0
          OBVIOUS
        <5>1. in.app = 0 /\ "app" \in Targets
          BY <1>4 DEF PidsOK, Targets
        <5>2. snaps["app"] = 0
          BY <1>7, <5>1, ObservedIs
        <5>3. old["app"] = 0
          BY <1>3, <5>1, ConstantsOK DEF WorldInv, ByKind
        <5> QED
          BY <3>1, <5>1, <5>2, <5>3
      <4>3. /\ \A t \in Targets : pid[t] <= last
            /\ kind = "dapr run" => \A t \in Targets : pid[t] \in {0, last} /\ owed[t] \in {0, last}
        BY <1>1, <1>3 DEF WorldInv, ByKind
      <4>4. kind = "dapr run" => \A t \in Targets : pid[t] \in {0, last} /\ owed'[t] \in {0, last}
        BY <1>11, <4>3
      <4> QED
        BY <1>1, <1>2, <3>5, <4>1, <4>2, <4>3, <4>4 DEF ByKind
    <3>9. Remembered'
      <4>1. ASSUME NEW t \in Targets, owed'[t] # 0
            PROVE  entry' # NoEntry /\ entry'.procs[t] = owed'[t] /\ pid'[t] \in {0, owed'[t]}
        <5>1. CASE snaps[t] # 0
          BY <1>2, <1>7, <3>1, <3>2, <3>5, <5>1
        <5>2. CASE snaps[t] = 0
          <6>1. owed'[t] = owed[t] /\ owed[t] # 0 /\ m[t] = old[t]
            BY <3>1, <3>2, <4>1, <5>2
          <6>2. old[t] = owed[t] /\ pid[t] \in {0, owed[t]}
            BY <1>3, <6>1 DEF WorldInv, Remembered, StopRemembered
          <6> QED
            BY <1>2, <3>5, <6>1, <6>2
        <5> QED
          BY <5>1, <5>2
      <4>2. ASSUME NEW t \in Targets, entry'.procs[t] # 0, pid'[t] = entry'.procs[t]
            PROVE  owed'[t] = entry'.procs[t]
        <5>1. CASE snaps[t] # 0
          BY <3>1, <3>2, <3>5, <5>1
        <5>2. CASE snaps[t] = 0
          <6>1. m[t] = old[t] /\ old[t] # 0 /\ owed'[t] = owed[t] /\ pid[t] = old[t]
            BY <1>2, <3>1, <3>2, <3>5, <4>2, <5>2
          <6>2. entry # NoEntry /\ old = entry.procs
            BY <6>1, ConstantsOK
          <6>3. owed[t] = old[t]
            BY <1>3, <6>1, <6>2 DEF WorldInv, Remembered, Alive
          <6> QED
            BY <3>5, <6>1, <6>3
        <5> QED
          BY <5>1, <5>2
      <4> QED
        BY <4>1, <4>2 DEF Remembered, StopRemembered, Alive
    <3>10. Quiet'
      BY <1>2, <1>3 DEF WorldInv, Quiet
    <3> QED
      BY <3>6, <3>8, <3>9, <3>10 DEF WorldInv
  <2> QED
    BY <1>1, <2>1, <2>2
<1> QED
  BY <1>14, <1>15 DEF IInv

\* SIGTERM.
LEMMA TerminateStep ==
  ASSUME IInv, NEW p \in Procs, Terminate(p)
  PROVE  IInv'
<1>1. req[p].pc = "terminate" /\ UNCHANGED <<world, registry, history>>
  BY DEF Terminate, At
<1>2. CASE ~Alive(Head(req[p].todo), Victim(p))
  <2>1. Returns(p, FALSE)
    BY <1>2 DEF Terminate
  <2> QED
    BY <1>1, <2>1, JustReturns
<1>3. CASE Alive(Head(req[p].todo), Victim(p))
  <2> DEFINE r == [req[p] EXCEPT !.pc = "wait"]
  <2>1. Goto(p, r)
    BY <1>3 DEF Terminate
  <2>2. /\ req[p] \in RequestType /\ Pending(req[p]) /\ Phase(req[p], kind)
        /\ PidsOK(req[p].view, kind, last, owed, pid) /\ Gone(req[p], last, pid)
        /\ quiet => Calm(req[p])
    BY ReqFacts
  <2>3. /\ r \in RequestType /\ r.pc = "wait" /\ r.op = req[p].op /\ r.view = req[p].view
        /\ r.held = req[p].held /\ r.todo = req[p].todo
    BY <2>2 DEF RequestType, PCs
  <2> HIDE DEF r
  <2>4. Pending(r)
    BY <1>1, <2>2, <2>3 DEF Pending, Signalling
  <2>5. Phase(r, kind) /\ Sight(r, kind)
    BY <1>1, <2>2, <2>3 DEF Phase, Sight, Signalling
  <2>6. Gone(r, last, pid)
    BY <1>1, <2>2, <2>3 DEF Gone, Signalling
  <2>7. quiet => Calm(r)
    BY <1>1, <2>2, <2>3 DEF Calm
  <2> QED
    BY <1>1, <2>1, <2>2, <2>3, <2>4, <2>5, <2>6, <2>7, OnlyRequest DEF Good
<1> QED
  BY <1>2, <1>3

\* Once the process it waits for is gone, a stop goes on with the next or has
\* none left.
LEMMA NextPidGood ==
  ASSUME IInv, NEW p \in Procs, At(p, "wait"), NextPid(p),
         NEW pd \in ProcMaps, \A t \in Targets : pd[t] \in {0, pid[t]},
         pd[Head(req[p].todo)] # Victim(p)
  PROVE  \E r \in RequestType :
           /\ Goto(p, r) /\ Good(r, kind, last, owed, pd, quiet)
           /\ r.pc = "done" =>
                \A t \in Targets : req[p].held[t] # 0 => pd[t] # req[p].held[t]
<1> DEFINE todo == req[p].todo
           held == req[p].held
           first == Head(todo)
           rest == Tail(todo)
<1>1. /\ req[p] \in RequestType /\ req[p].pc = "wait" /\ held \in ProcMaps /\ todo \in Seq(Targets)
      /\ req[p].op = "stop" /\ kind \notin Containers
      /\ todo # <<>> /\ Len(todo) <= 3 /\ Gone(req[p], last, pid)
      /\ \A i \in 1 .. Len(todo) : held[todo[i]] # 0
      /\ PidsOK(req[p].view, kind, last, owed, pid)
      /\ quiet => req[p].view.found = "none" \/ fullyStopped(req[p].view)
  BY ReqFacts DEF At, RequestType, Phase, Pending, Calm, Signalling
<1>2. /\ first \in Targets /\ first = todo[1] /\ 1 \in 1 .. Len(todo) /\ rest \in Seq(Targets)
      /\ Len(rest) = Len(todo) - 1
      /\ \A i \in 1 .. Len(rest) : rest[i] = todo[i + 1] /\ i + 1 \in 1 .. Len(todo)
      /\ \A i \in 1 .. Len(todo) : i = 1 \/ (i - 1 \in 1 .. Len(rest) /\ rest[i - 1] = todo[i])
  BY <1>1, HeadAndTail
<1>3. pd[first] # held[first]
  BY DEF Victim
<1>4. /\ last \in Pids /\ owed \in ProcMaps /\ \A t \in Targets : pid[t] \in Nat /\ held[t] \in Nat
  BY <1>1, WorldFacts, ConstantsOK DEF IInv, ProcMaps
<1>5. \A t \in Targets : held[t] # 0 => pd[t] # held[t] \/ \E i \in 1 .. Len(rest) : rest[i] = t
  <2> SUFFICES ASSUME NEW t \in Targets, held[t] # 0, pd[t] = held[t]
               PROVE  \E i \in 1 .. Len(rest) : rest[i] = t
    OBVIOUS
  <2>1. pid[t] = held[t]
    BY <1>4
  <2>2. PICK i \in 1 .. Len(todo) : todo[i] = t
    BY <1>1, <2>1 DEF Gone, Signalling
  <2>3. i # 1
    BY <1>2, <1>3, <2>2
  <2> QED
    BY <1>2, <2>2, <2>3
<1>6. CASE rest = <<>>
  <2> DEFINE r == [Idle EXCEPT !.ok = TRUE]
  <2>1. Goto(p, r)
    BY <1>6 DEF NextPid, Returns
  <2>2. r \in RequestType /\ Good(r, kind, last, owed, pd, quiet)
    BY <1>4, IdleGood
  <2>3. \A t \in Targets : held[t] # 0 => pd[t] # held[t]
    <3> HIDE DEF rest, held
    <3>1. Len(rest) = 0
      BY <1>6
    <3> QED
      BY <1>5, <3>1
  <2> HIDE DEF r
  <2> QED
    BY <2>1, <2>2, <2>3
<1>7. CASE rest # <<>>
  <2> DEFINE r == [req[p] EXCEPT !.todo = rest, !.pc = "terminate"]
  <2>1. Goto(p, r)
    BY <1>7 DEF NextPid
  <2>2. /\ r \in RequestType /\ r.pc = "terminate" /\ r.op = "stop" /\ r.view = req[p].view
        /\ r.held = held /\ r.todo = rest
    BY <1>1, <1>2 DEF RequestType, PCs
  <2> HIDE DEF r
  <2>3. Pending(r)
    <3>1. Len(todo) \in Nat
      BY <1>1
    <3> HIDE DEF rest, todo, held
    <3> QED
      BY <1>1, <1>2, <1>7, <2>2, <3>1 DEF Pending, Signalling
  <2>4. Phase(r, kind) /\ Sight(r, kind)
    BY <1>1, <2>2 DEF Phase, Sight, Signalling
  <2>5. Gone(r, last, pd)
    <3>1. \A t \in Targets : held[t] <= last
      BY <1>1 DEF Gone, Signalling
    <3> QED
      BY <1>5, <2>2, <3>1 DEF Gone
  <2>6. PidsOK(r.view, kind, last, owed, pd)
    BY <1>1, <2>2 DEF PidsOK
  <2>7. quiet => Calm(r)
    BY <1>1, <2>2 DEF Calm
  <2>8. Good(r, kind, last, owed, pd, quiet)
    BY <2>3, <2>4, <2>5, <2>6, <2>7 DEF Good
  <2> QED
    BY <2>1, <2>2, <2>8
<1> QED
  BY <1>6, <1>7

\* A process exits: the world without it.
LEMMA Dies ==
  ASSUME WorldInv, NEW t \in Targets, pid[t] # 0, pid' = [pid EXCEPT ![t] = 0],
         UNCHANGED <<kind, last, cache, registry, history, left>>
  PROVE  /\ WorldInv' /\ pid' \in ProcMaps
         /\ \A u \in Targets : pid'[u] \in {0, pid[u]}
         /\ Ages(kind, last, owed, pid, quiet, last', owed', pid', quiet')
<1>1. /\ kind' = kind /\ last' = last /\ cache' = cache /\ entry' = entry /\ left' = left
      /\ suppressed' = suppressed /\ owed' = owed /\ quiet' = quiet
  BY DEF registry, history
<1>2. /\ last \in Nat /\ pid \in ProcMaps /\ \A u \in Targets : pid[u] \in Nat /\ owed[u] \in Nat
  BY WorldFacts
<1>3. pid' \in ProcMaps /\ \A u \in Targets : pid'[u] \in {0, pid[u]}
  BY <1>2, ConstantsOK DEF ProcMaps
<1>4. ~quiet
  <2>1. NoProcs[t] = 0
    BY ConstantsOK
  <2> QED
    BY <2>1 DEF WorldInv, Quiet
<1>5. WorldType'
  BY <1>1, <1>3 DEF WorldInv, WorldType, Parts
<1>6. ByKind'
  <2>1. /\ kind \notin Containers => \A u \in Targets : pid'[u] <= last
        /\ kind = "dapr run" => \A u \in Targets : pid'[u] \in {0, last} /\ owed[u] \in {0, last}
    <3>1. /\ kind \notin Containers => \A u \in Targets : pid[u] <= last
          /\ kind = "dapr run" => \A u \in Targets : pid[u] \in {0, last} /\ owed[u] \in {0, last}
      BY DEF WorldInv, ByKind
    <3>2. ASSUME NEW u \in Targets
          PROVE  /\ kind \notin Containers => pid'[u] <= last
                 /\ kind = "dapr run" => pid'[u] \in {0, last} /\ owed[u] \in {0, last}
      <4>1. CASE pid'[u] = 0
        <5>1. 0 <= last
          BY <1>2
        <5> QED
          BY <3>1, <4>1, <5>1, Zenon
      <4>2. CASE pid'[u] = pid[u]
        BY <3>1, <4>2
      <4> QED
        BY <1>3, <4>1, <4>2
    <3> QED
      BY <3>2
  <2>2. /\ kind \in Containers => entry = NoEntry
        /\ entry # NoEntry => /\ \A u \in Targets : entry.procs[u] <= last
                              /\ kind = "aspire" => entry.procs["app"] = 0 /\ entry.in.app = 0
    BY DEF WorldInv, ByKind
  <2> QED
    BY <1>1, <2>1, <2>2 DEF ByKind
<1>7. Remembered'
  BY <1>1, <1>3 DEF WorldInv, Remembered, StopRemembered, Alive
<1>8. Quiet'
  BY <1>1, <1>4 DEF Quiet
<1>9. Ages(kind, last, owed, pid, quiet, last', owed', pid', quiet')
  BY <1>1, <1>2, <1>3 DEF Ages
<1> QED
  BY <1>3, <1>5, <1>6, <1>7, <1>8, <1>9 DEF WorldInv

\* The process has exited.
LEMMA ExitedStep ==
  ASSUME IInv, NEW p \in Procs, Exited(p)
  PROVE  IInv'
<1>1. /\ At(p, "wait") /\ ~Alive(Head(req[p].todo), Victim(p)) /\ NextPid(p)
      /\ UNCHANGED <<world, registry, history>>
  BY DEF Exited
<1>2. pid \in ProcMaps /\ Victim(p) # 0
  BY <1>1, WorldFacts, ReqFacts, HeadAndTail
     DEF IInv, At, Pending, Signalling, Victim, RequestType
<1>3. PICK r \in RequestType : Goto(p, r) /\ Good(r, kind, last, owed, pid, quiet)
  BY <1>1, <1>2, NextPidGood DEF Alive
<1> QED
  BY <1>1, <1>3, OnlyRequest

\* SIGKILL.
LEMMA KillStep ==
  ASSUME IInv, NEW p \in Procs, Kill(p)
  PROVE  IInv'
<1> DEFINE t == Head(req[p].todo)
<1>1. /\ At(p, "wait") /\ Victim(p) # 0 /\ pid[t] = Victim(p) /\ pid' = [pid EXCEPT ![t] = 0]
      /\ NextPid(p) /\ UNCHANGED <<kind, last, cache, registry, history>>
  BY DEF Kill, Alive
<1>2. t \in Targets
  BY <1>1, ReqFacts, HeadAndTail DEF At, Pending, RequestType
<1>3. WorldInv /\ UNCHANGED left
  BY <1>1 DEF IInv, NextPid, Goto, Returns
<1>4. /\ WorldInv' /\ pid' \in ProcMaps /\ \A u \in Targets : pid'[u] \in {0, pid[u]}
      /\ Ages(kind, last, owed, pid, quiet, last', owed', pid', quiet')
  BY <1>1, <1>2, <1>3, Dies
<1>5. pid'[t] # Victim(p)
  BY <1>1, <1>2, <1>3, WorldFacts DEF ProcMaps
<1>6. PICK r \in RequestType : Goto(p, r) /\ Good(r, kind, last, owed, pid', quiet)
  BY <1>1, <1>4, <1>5, NextPidGood
<1>7. /\ kind' = kind /\ last' = last /\ owed' = owed /\ quiet' = quiet
      /\ req' = [req EXCEPT ![p] = r] /\ last' \in Pids /\ owed' \in ProcMaps
  BY <1>1, <1>3, <1>6, WorldFacts DEF history, Goto
<1>8. Good(r, kind, last', owed', pid', quiet')
  BY <1>6, <1>7
<1>9. ReqInv'
  BY <1>4, <1>7, <1>8, OneMoves
<1> QED
  BY <1>4, <1>9 DEF IInv

\* Refused, abandoned and failed actions end without effect.
LEMMA FailedStep ==
  ASSUME IInv, NEW p \in Procs, Refuse(p) \/ Cancelled(p) \/ RuntimeFails(p)
  PROVE  IInv'
<1>1. Returns(p, FALSE) /\ UNCHANGED <<world, registry, history>>
  BY DEF Refuse, Cancelled, RuntimeFails
<1> QED
  BY <1>1, JustReturns

-----------------------------------------------------------------------------
(* Containers, and the machine. *)

\* Containers come and go: the registry knows nothing of them.
LEMMA ContainersChange ==
  ASSUME WorldInv, kind \in Containers, pid' \in ProcMaps, owed' \in ProcMaps,
         \A t \in Targets : owed'[t] \in {0, owed[t]},
         quiet' \in BOOLEAN, quiet' => quiet /\ pid' = NoProcs,
         UNCHANGED <<kind, last, cache, registry, left>>
  PROVE  WorldInv' /\ Ages(kind, last, owed, pid, quiet, last', owed', pid', quiet')
<1>1. /\ kind' = kind /\ last' = last /\ cache' = cache /\ entry' = entry /\ left' = left
      /\ suppressed' = suppressed
  BY DEF registry
<1>2. entry = NoEntry /\ \A t \in Targets : owed[t] = 0
  BY DEF WorldInv, ByKind, Remembered, StopRemembered
<1>3. WorldType'
  BY <1>1 DEF WorldInv, WorldType, Parts
<1>4. ByKind'
  BY <1>1, <1>2 DEF ByKind, Containers
<1>5. Remembered'
  BY <1>1, <1>2 DEF Remembered, StopRemembered
<1>6. Quiet'
  BY <1>1 DEF WorldInv, Quiet
<1>7. Ages(kind, last, owed, pid, quiet, last', owed', pid', quiet')
  BY <1>1, WorldFacts DEF Ages
<1> QED
  BY <1>3, <1>4, <1>5, <1>6, <1>7 DEF WorldInv

\* An action on containers is split into runtime commands.
LEMMA DispatchComposeStep ==
  ASSUME IInv, NEW p \in Procs, DispatchCompose(p)
  PROVE  IInv'
<1> DEFINE ids == composeTargets(req[p].target, req[p].op)
<1>1. /\ req[p].pc = "dispatch" /\ kind \in Containers /\ UNCHANGED <<world, registry, history>>
      /\ ids = <<>> => Returns(p, FALSE)
      /\ ids # <<>> => Goto(p, [req[p] EXCEPT !.pc = "runtime", !.todo = ids])
  BY DEF DispatchCompose, At
<1>2. ids \in Seq(Targets) /\ Len(ids) <= 3
  BY ComposeTargets
<1> HIDE DEF ids
<1>3. CASE ids = <<>>
  BY <1>1, <1>3, JustReturns
<1>4. CASE ids # <<>>
  <2> DEFINE r == [req[p] EXCEPT !.pc = "runtime", !.todo = ids]
  <2>1. Goto(p, r)
    BY <1>1, <1>4
  <2>2. /\ req[p] \in RequestType /\ req[p].op \in Actions /\ req[p].held = NoProcs
        /\ PidsOK(req[p].view, kind, last, owed, pid) /\ (quiet => Calm(req[p]))
    BY <1>1, ReqFacts DEF Phase
  <2>3. /\ r \in RequestType /\ r.pc = "runtime" /\ r.op = req[p].op /\ r.view = req[p].view
        /\ r.held = req[p].held /\ r.todo = ids
    BY <1>2, <2>2 DEF RequestType, PCs
  <2> HIDE DEF r
  <2>4. Pending(r) /\ Gone(r, last, pid) /\ Sight(r, kind)
    BY <1>2, <1>4, <2>3 DEF Pending, Gone, Sight, Signalling
  <2>5. Phase(r, kind)
    BY <1>1, <2>2, <2>3 DEF Phase, Signalling
  <2>6. quiet => Calm(r)
    BY <1>1, <2>2, <2>3 DEF Calm
  <2> QED
    BY <1>1, <2>1, <2>2, <2>3, <2>4, <2>5, <2>6, OnlyRequest DEF Good
<1> QED
  BY <1>3, <1>4

\* One runtime command.
LEMMA RunContainerStep ==
  ASSUME IInv, NEW p \in Procs, RunContainer(p)
  PROVE  IInv'
<1> DEFINE todo == req[p].todo
           t == Head(todo)
           rest == Tail(todo)
           g == IF req[p].op = "stop" THEN 0 ELSE 1
<1>1. /\ req[p].pc = "runtime" /\ pid' = [pid EXCEPT ![t] = g]
      /\ quiet' = (quiet /\ req[p].op = "stop")
      /\ rest = <<>> => Returns(p, TRUE)
      /\ rest # <<>> => Goto(p, [req[p] EXCEPT !.todo = rest])
      /\ UNCHANGED <<kind, last, cache, registry, owed>>
  BY DEF RunContainer, At
<1>2. /\ req[p] \in RequestType /\ req[p].op \in Actions /\ req[p].held = NoProcs
      /\ kind \in Containers /\ todo \in Seq(Targets) /\ todo # <<>> /\ Len(todo) <= 3
      /\ PidsOK(req[p].view, kind, last, owed, pid) /\ (quiet => Calm(req[p]))
  BY <1>1, ReqFacts DEF Phase, Pending, RequestType
<1>3. t \in Targets /\ rest \in Seq(Targets) /\ Len(rest) <= 3
  <2>1. t \in Targets /\ rest \in Seq(Targets) /\ Len(rest) = Len(todo) - 1 /\ Len(todo) \in Nat
    BY <1>2, HeadAndTail
  <2> QED
    BY <1>2, <2>1
<1>4. /\ WorldInv /\ last \in Pids /\ pid \in ProcMaps /\ owed \in ProcMaps /\ quiet \in BOOLEAN
  BY WorldFacts DEF IInv
<1>5. g \in Pids /\ UNCHANGED left
  BY <1>1, ConstantsOK DEF Goto, Returns
<1> HIDE DEF t, rest, todo
<1>6. pid' \in ProcMaps
  BY <1>1, <1>3, <1>4, <1>5 DEF ProcMaps
<1>7. quiet' \in BOOLEAN /\ (quiet' => quiet /\ pid' = NoProcs)
  <2> SUFFICES ASSUME quiet'
               PROVE  pid' = NoProcs
    BY <1>1, <1>4
  <2>1. g = 0 /\ pid = NoProcs
    BY <1>1, <1>4 DEF WorldInv, Quiet
  <2> QED
    BY <1>1, <1>3, <2>1 DEF NoProcs
<1>8. WorldInv' /\ Ages(kind, last, owed, pid, quiet, last', owed', pid', quiet')
  BY <1>1, <1>2, <1>4, <1>5, <1>6, <1>7, ContainersChange
<1>9. PidsOK(req[p].view, kind, last, owed, pid')
  <2>1. req[p].view.app = 0 /\ req[p].view.cli = 0 /\ req[p].view.daprd = 0
    BY <1>2 DEF PidsOK, Containers
  <2> QED
    BY <1>4, <1>6, <2>1, NoPids
<1>10. PICK r \in RequestType : Goto(p, r) /\ Good(r, kind, last, owed, pid', quiet')
  <2>1. CASE rest = <<>>
    <3> DEFINE r == [Idle EXCEPT !.ok = TRUE]
    <3>1. Goto(p, r)
      BY <1>1, <2>1 DEF Returns
    <3>2. r \in RequestType /\ Good(r, kind, last, owed, pid', quiet')
      BY <1>4, <1>6, IdleGood
    <3> HIDE DEF r
    <3> QED
      BY <3>1, <3>2
  <2>2. CASE rest # <<>>
    <3> DEFINE r == [req[p] EXCEPT !.todo = rest]
    <3>1. Goto(p, r)
      BY <1>1, <2>2
    <3>2. /\ r \in RequestType /\ r.pc = "runtime" /\ r.op = req[p].op /\ r.view = req[p].view
          /\ r.held = req[p].held /\ r.todo = rest
      BY <1>1, <1>2, <1>3 DEF RequestType
    <3> HIDE DEF r
    <3>3. Pending(r) /\ Gone(r, last, pid') /\ Sight(r, kind)
      BY <1>3, <2>2, <3>2 DEF Pending, Gone, Sight, Signalling
    <3>4. Phase(r, kind)
      BY <1>1, <1>2, <3>2 DEF Phase, Signalling
    <3>5. quiet' => Calm(r)
      BY <1>1, <1>2, <1>7, <3>2 DEF Calm
    <3> QED
      BY <1>9, <3>1, <3>2, <3>3, <3>4, <3>5 DEF Good
  <2> QED
    BY <2>1, <2>2
<1>11. /\ kind' = kind /\ last' = last /\ owed' = owed /\ req' = [req EXCEPT ![p] = r]
  BY <1>1, <1>10 DEF Goto
<1>12. Good(r, kind, last', owed', pid', quiet')
  BY <1>10, <1>11
<1>13. ReqInv'
  BY <1>4, <1>6, <1>8, <1>11, <1>12, OneMoves
<1> QED
  BY <1>8, <1>13 DEF IInv

\* A launch has a pid of its own, and what it starts is no longer owed.
LEMMA LaunchStep ==
  ASSUME IInv, Launch
  PROVE  IInv'
<1>1. kind \notin Containers /\ last < MaxPid /\ last' = last + 1
  BY DEF Launch
<1>2. PICK ts \in IF kind = "aspire" THEN (SUBSET Parts) \ {{}} ELSE {Parts} : Starts(ts, last + 1)
  BY DEF Launch
<1>3. /\ kind' = kind /\ cache' = cache /\ entry' = entry /\ suppressed' = suppressed
      /\ req' = req /\ left' = left /\ quiet' = FALSE
      /\ pid' = [t \in Targets |-> IF t \in ts THEN last + 1 ELSE pid[t]]
      /\ owed' = [t \in Targets |-> IF t \in ts THEN 0 ELSE owed[t]]
  BY <1>2 DEF Starts, registry
<1>4. /\ WorldInv /\ last \in Pids /\ last \in Nat /\ pid \in ProcMaps /\ owed \in ProcMaps
      /\ \A t \in Targets : pid[t] \in Nat /\ owed[t] \in Nat
  BY WorldFacts DEF IInv
<1>5. last' \in Pids /\ last' \in Nat
  BY <1>1, <1>4, ConstantsOK DEF Pids
<1>6. pid' \in ProcMaps /\ owed' \in ProcMaps
  BY <1>1, <1>3, <1>4, <1>5, ConstantsOK DEF ProcMaps
<1>7. \A t \in Targets : /\ pid'[t] = IF t \in ts THEN last + 1 ELSE pid[t]
                         /\ owed'[t] = IF t \in ts THEN 0 ELSE owed[t]
  BY <1>3
<1>8. kind = "dapr run" => ts = Targets
  BY <1>2 DEF Parts
<1>9. \A t \in Targets : pid[t] <= last /\ (kind = "dapr run" => owed[t] \in {0, last})
  BY <1>1, <1>4 DEF WorldInv, ByKind
<1>10. Ages(kind, last, owed, pid, quiet, last', owed', pid', quiet')
  BY <1>1, <1>3, <1>4, <1>7 DEF Ages
<1>11. ReqInv'
  BY <1>3, <1>5, <1>6, <1>10, NoneMoves
<1>12. WorldType'
  BY <1>3, <1>4, <1>5, <1>6 DEF WorldInv, WorldType, Parts
<1>13. ByKind'
  <2>1. ASSUME NEW t \in Targets
        PROVE  pid'[t] <= last'
    <3>1. pid'[t] \in {last + 1, pid[t]} /\ pid[t] <= last /\ pid[t] \in Nat
      BY <1>4, <1>7, <1>9
    <3> QED
      BY <1>1, <1>4, <3>1
  <2>2. kind = "dapr run" => \A t \in Targets : pid'[t] \in {0, last'} /\ owed'[t] \in {0, last'}
    BY <1>1, <1>7, <1>8
  <2>3. entry # NoEntry => /\ \A t \in Targets : entry.procs[t] <= last'
                           /\ kind = "aspire" => entry.procs["app"] = 0 /\ entry.in.app = 0
    <3>1. entry # NoEntry => /\ \A t \in Targets : entry.procs[t] <= last /\ entry.procs[t] \in Nat
                             /\ kind = "aspire" => entry.procs["app"] = 0 /\ entry.in.app = 0
      BY <1>4, EntryFacts DEF WorldInv, ByKind
    <3> QED
      BY <1>1, <1>4, <3>1
  <2> QED
    BY <1>1, <1>3, <2>1, <2>2, <2>3 DEF ByKind
<1>14. Remembered'
  <2>1. ASSUME NEW t \in Targets, owed'[t] # 0
        PROVE  entry' # NoEntry /\ entry'.procs[t] = owed'[t] /\ pid'[t] \in {0, owed'[t]}
    BY <1>3, <1>4, <1>7, <2>1 DEF WorldInv, Remembered, StopRemembered
  <2>2. ASSUME entry' # NoEntry, NEW t \in Targets, entry'.procs[t] # 0, pid'[t] = entry'.procs[t]
        PROVE  owed'[t] = entry'.procs[t]
    <3>1. entry # NoEntry /\ entry.procs[t] <= last /\ entry.procs[t] \in Nat
      BY <1>3, <1>4, <2>2, EntryFacts
    <3>2. t \notin ts
      BY <1>3, <1>4, <1>7, <2>2, <3>1
    <3> QED
      BY <1>3, <1>4, <1>7, <2>2, <3>1, <3>2 DEF WorldInv, Remembered, Alive
  <2> QED
    BY <2>1, <2>2 DEF Remembered, StopRemembered, Alive
<1>15. Quiet'
  BY <1>3 DEF Quiet
<1> QED
  BY <1>11, <1>12, <1>13, <1>14, <1>15 DEF IInv, WorldInv

\* A container is started from outside.
LEMMA StartContainerStep ==
  ASSUME IInv, StartContainer
  PROVE  IInv'
<1>1. PICK t \in Parts : kind \in Containers /\ Starts({t}, 1) /\ last' = last
  BY DEF StartContainer
<1>2. /\ WorldInv /\ last \in Pids /\ pid \in ProcMaps /\ owed \in ProcMaps
  BY WorldFacts DEF IInv
<1>3. /\ pid' \in ProcMaps /\ owed' \in ProcMaps /\ \A u \in Targets : owed'[u] \in {0, owed[u]}
  BY <1>1, <1>2, ConstantsOK DEF Starts, ProcMaps
<1>4. /\ quiet' = FALSE /\ UNCHANGED <<kind, last, cache, registry, left>> /\ req' = req
  BY <1>1 DEF Starts
<1>5. WorldInv' /\ Ages(kind, last, owed, pid, quiet, last', owed', pid', quiet')
  BY <1>1, <1>2, <1>3, <1>4, ContainersChange
<1>6. ReqInv'
  BY <1>2, <1>3, <1>4, <1>5, NoneMoves
<1> QED
  BY <1>5, <1>6 DEF IInv

\* A process exits by itself.
LEMMA ExitStep ==
  ASSUME IInv, Exit
  PROVE  IInv'
<1>1. PICK t \in Parts : pid[t] # 0 /\ pid' = [pid EXCEPT ![t] = 0]
  BY DEF Exit
<1>2. UNCHANGED <<kind, last, cache, registry, history, left>> /\ req' = req
  BY DEF Exit
<1>3. WorldInv /\ last \in Pids /\ owed \in ProcMaps /\ t \in Targets
  BY WorldFacts, PartsAreTargets DEF IInv
<1>4. /\ WorldInv' /\ pid' \in ProcMaps
      /\ Ages(kind, last, owed, pid, quiet, last', owed', pid', quiet')
  BY <1>1, <1>2, <1>3, Dies
<1>5. last' = last /\ owed' = owed
  BY <1>2 DEF history
<1>6. ReqInv'
  BY <1>2, <1>3, <1>4, <1>5, NoneMoves
<1> QED
  BY <1>4, <1>6 DEF IInv

\* A cached scan expires.
LEMMA ExpireStep ==
  ASSUME IInv, Expire
  PROVE  IInv'
<1>1. /\ cache' = [fresh |-> FALSE, up |-> {}] /\ kind' = kind /\ pid' = pid /\ last' = last
      /\ entry' = entry /\ suppressed' = suppressed /\ owed' = owed /\ quiet' = quiet
      /\ req' = req /\ left' = left
  BY DEF Expire, registry, history
<1>2. WorldInv /\ last \in Pids /\ owed \in ProcMaps /\ pid \in ProcMaps
  BY WorldFacts DEF IInv
<1>3. WorldType'
  BY <1>1, <1>2 DEF WorldInv, WorldType, Parts
<1>4. ByKind'
  BY <1>1, <1>2 DEF WorldInv, ByKind
<1>5. Remembered'
  BY <1>1, <1>2 DEF WorldInv, Remembered, StopRemembered, Alive
<1>6. Quiet'
  BY <1>1, <1>2 DEF WorldInv, Quiet
<1>7. ReqInv'
  BY <1>1, <1>2, SameWorldAges, NoneMoves
<1> QED
  BY <1>3, <1>4, <1>5, <1>6, <1>7 DEF IInv, WorldInv

-----------------------------------------------------------------------------
(* The theorems. *)

\* At the start nothing runs and no request is in flight.
LEMMA InitHolds == Init => IInv
<1> SUFFICES ASSUME Init
             PROVE  IInv
  OBVIOUS
<1>1. /\ kind \in Kinds /\ pid = NoProcs /\ last = 0 /\ cache = [fresh |-> FALSE, up |-> {}]
      /\ entry = NoEntry /\ suppressed = FALSE /\ owed = NoProcs /\ quiet = FALSE
      /\ left = [p \in Users |-> MaxReqs] /\ req = [p \in Procs |-> Idle]
  BY DEF Init
<1>2. 0 \in Pids /\ NoProcs \in ProcMaps /\ \A t \in Targets : NoProcs[t] = 0
  BY ConstantsOK
<1>3. MaxReqs \in 0 .. MaxReqs
  BY LifecycleAssumption
<1>4. WorldType
  BY <1>1, <1>2, <1>3 DEF WorldType
<1>5. ByKind
  <2>1. \A t \in Targets : pid[t] = 0 /\ owed[t] = 0 /\ pid[t] <= last
    BY <1>1, <1>2
  <2> QED
    BY <1>1, <2>1 DEF ByKind
<1>6. Remembered /\ Quiet
  BY <1>1, <1>2 DEF Remembered, StopRemembered, Quiet
<1>7. Idle \in RequestType /\ Good(Idle, kind, last, owed, pid, quiet)
  <2>1. "done" \in PCs /\ "list" \in Ops /\ "all" \in Targets /\ <<>> \in Seq(Targets)
    BY DEF PCs, Ops, Targets
  <2>2. /\ Idle \in RequestType /\ Idle.pc = "done" /\ Idle.view = NoView /\ Idle.todo = <<>>
        /\ Idle.saw = FALSE
    BY <2>1, ConstantsOK DEF Idle, RequestType
  <2> QED
    BY <1>1, <1>2, <2>2, FreshGood
<1>8. ReqInv
  BY <1>1, <1>7 DEF ReqInv
<1> QED
  BY <1>4, <1>5, <1>6, <1>8 DEF IInv, WorldInv

\* Every step keeps the invariant.
LEMMA StepHolds == IInv /\ [Next]_vars => IInv'
<1> SUFFICES ASSUME IInv, [Next]_vars
             PROVE  IInv'
  OBVIOUS
<1>1. ASSUME NEW p \in Procs, NEW op \in Ops, NEW t \in Targets, Begin(p, op, t)
      PROVE  IInv'
  BY <1>1, BeginStep
<1>2. ASSUME NEW p \in Procs, Step(p)
      PROVE  IInv'
  <2>1. CASE ScanProcesses(p) \/ ScanContainers(p)
    BY <2>1, ScanProcessesStep, ScanContainersStep
  <2>2. CASE MetadataFails(p) \/ \E registered \in BOOLEAN : Enrich(p, registered)
    BY <2>2, MetadataFailsStep, EnrichStep
  <2>3. CASE ApplyEntry(p) \/ DropTarget(p) \/ Lookup(p)
    BY <2>3, ApplyEntryStep, DropTargetStep, LookupStep
  <2>4. CASE Filter(p) \/ Unsuppress(p) \/ Drop(p) \/ Suppress(p)
    BY <2>4, FilterStep, UnsuppressStep, DropStep, SuppressStep
  <2>5. CASE Refuse(p) \/ Cancelled(p) \/ RuntimeFails(p)
    BY <2>5, FailedStep
  <2>6. CASE RecordStop(p) \/ Terminate(p) \/ Exited(p) \/ Kill(p)
    BY <2>6, RecordStopStep, TerminateStep, ExitedStep, KillStep
  <2>7. CASE DispatchCompose(p) \/ RunContainer(p)
    BY <2>7, DispatchComposeStep, RunContainerStep
  <2> QED
    BY <1>2, <2>1, <2>2, <2>3, <2>4, <2>5, <2>6, <2>7 DEF Step
<1>3. CASE Launch \/ StartContainer \/ Exit \/ Expire
  BY <1>3, LaunchStep, StartContainerStep, ExitStep, ExpireStep
<1>4. CASE UNCHANGED vars
  <2>1. UNCHANGED <<world, registry, history, left>> /\ req' = req
    BY <1>4 DEF vars, world, registry, history
  <2>2. WorldInv /\ last \in Pids /\ owed \in ProcMaps /\ pid \in ProcMaps
    BY WorldFacts DEF IInv
  <2>3. WorldInv'
    BY <2>1, <2>2, SameWorld
  <2>4. kind' = kind /\ last' = last /\ owed' = owed /\ pid' = pid /\ quiet' = quiet
    BY <2>1 DEF world, history
  <2>5. ReqInv'
    BY <2>1, <2>2, <2>4, SameWorldAges, NoneMoves
  <2> QED
    BY <2>3, <2>5 DEF IInv
<1> QED
  BY <1>1, <1>2, <1>3, <1>4 DEF Next, Requests

\* The inductive invariant holds in every state.
LEMMA InvariantHolds == Spec => []IInv
  BY InitHolds, StepHolds, PTL DEF Spec

\* The invariant gives the types, and that a stop signals a known pid.
LEMMA IInvTypes == IInv => TypeOK
<1> SUFFICES ASSUME IInv
             PROVE  TypeOK
  OBVIOUS
<1>1. /\ kind \in Kinds /\ pid \in ProcMaps /\ last \in Pids /\ owed \in ProcMaps
      /\ cache \in [fresh : BOOLEAN, up : SUBSET Parts]
      /\ entry \in {NoEntry} \cup Entries /\ suppressed \in BOOLEAN /\ quiet \in BOOLEAN
      /\ left \in [Users -> 0 .. MaxReqs]
  BY DEF IInv, WorldInv, WorldType
<1>2. cache \in [fresh : BOOLEAN, up : SUBSET Targets]
  BY <1>1, PartsAreTargets
<1>3. ASSUME NEW p \in Procs
      PROVE  /\ req[p].view \in Views /\ req[p].held \in ProcMaps /\ req[p].saw \in BOOLEAN
             /\ Len(req[p].todo) <= 3
             /\ req[p].pc \in {"terminate", "wait"} => Victim(p) # 0
  <2>1. req[p] \in RequestType /\ Pending(req[p])
    BY ReqFacts
  <2>2. /\ req[p].view \in Views /\ req[p].held \in ProcMaps /\ req[p].saw \in BOOLEAN
        /\ Len(req[p].todo) <= 3 /\ req[p].todo \in Seq(Targets)
    BY <2>1 DEF RequestType, Pending
  <2>3. ASSUME req[p].pc \in {"terminate", "wait"}
        PROVE  Victim(p) # 0
    <3>1. req[p].todo # <<>> /\ \A i \in 1 .. Len(req[p].todo) : req[p].held[req[p].todo[i]] # 0
      BY <2>1, <2>3 DEF Pending, Signalling
    <3>2. Head(req[p].todo) = req[p].todo[1] /\ 1 \in 1 .. Len(req[p].todo)
      BY <2>2, <3>1, HeadAndTail
    <3> QED
      BY <3>1, <3>2 DEF Victim
  <2> QED
    BY <2>2, <2>3
<1> QED
  BY <1>1, <1>2, <1>3 DEF TypeOK, ProcMaps

\* The lifecycle manager keeps its types, and no stop signals pid 0, the
\* dashboard's own process group.
THEOREM TypesHold == Spec => []TypeOK
  BY InvariantHolds, IInvTypes, PTL

\* What a stop recorded stays recorded until it is launched again or dismissed,
\* but for a drop by a request that read before the stop.
THEOREM StopsStayRemembered == Spec => []StopRemembered
<1>1. IInv => StopRemembered
  BY DEF IInv, WorldInv, Remembered
<1> QED
  BY <1>1, InvariantHolds, PTL

\* An instance dismissed while nothing of it ran or was seen to run stays
\* dismissed until it runs again.
THEOREM DismissalsStick == Spec => []DismissSticks
<1>1. IInv => DismissSticks
  BY DEF IInv, WorldInv, Quiet, DismissSticks
<1> QED
  BY <1>1, InvariantHolds, PTL

-----------------------------------------------------------------------------
(* How requests end. *)

\* Where a request goes, and that the others stay where they are.
LEMMA GotoIs ==
  ASSUME IInv, NEW p \in Procs, NEW r, Goto(p, r)
  PROVE  req'[p] = r /\ \A q \in Procs \ {p} : req'[q] = req[q]
  BY DEF Goto, IInv, ReqInv

\* A request that returns has ended, with its result.
LEMMA ReturnsIs ==
  ASSUME IInv, NEW p \in Procs, NEW b \in BOOLEAN, Returns(p, b)
  PROVE  req'[p].ok = b /\ req'[p].pc = "done" /\ \A q \in Procs \ {p} : req'[q] = req[q]
<1> DEFINE r == [Idle EXCEPT !.ok = b]
<1>1. Goto(p, r)
  BY DEF Returns
<1>2. r.ok = b /\ r.pc = "done"
  BY DEF Idle
<1> HIDE DEF r
<1> QED
  BY <1>1, <1>2, GotoIs

\* A request with its instance in hand goes on.
LEMMA AppliedGoesOn ==
  ASSUME IInv, NEW p \in Procs, NEW in, NEW b
  PROVE  Applied(p, in).pc # "done" /\ [Applied(p, in) EXCEPT !.saw = b].pc # "done"
<1>1. req[p] \in RequestType
  BY ReqFacts
<1>2. CASE req[p].op \in Actions
  BY <1>1, <1>2 DEF Applied, RequestType
<1>3. CASE req[p].op \notin Actions
  BY <1>1, <1>3 DEF Applied, RequestType
<1> QED
  BY <1>2, <1>3

\* The steps that end no request.
LEMMA GoesOn ==
  ASSUME IInv, NEW p \in Procs,
         \/ ScanProcesses(p) \/ ScanContainers(p) \/ MetadataFails(p)
         \/ \E registered \in BOOLEAN : Enrich(p, registered)
         \/ ApplyEntry(p) \/ DropTarget(p) \/ Drop(p) \/ RecordStop(p)
  PROVE  req'[p].pc # "done" /\ \A q \in Procs \ {p} : req'[q] = req[q]
<1>1. req[p] \in RequestType
  BY ReqFacts
<1>3. CASE ScanProcesses(p)
  <2> DEFINE in == [NoView EXCEPT !.found = "live", !.daprd = pid["daprd"],
                                  !.daprdStatus = "running"]
             r1 == [req[p] EXCEPT !.pc = "lookup", !.view = NoView]
             r2 == [req[p] EXCEPT !.pc = "enrich", !.view = in]
  <2>1. Goto(p, r1) \/ Goto(p, r2)
    BY <1>3 DEF ScanProcesses, Seen
  <2> HIDE DEF in
  <2>2. r1.pc = "lookup" /\ r2.pc = "enrich"
    BY <1>1 DEF RequestType
  <2> HIDE DEF r1, r2
  <2> QED
    BY <2>1, <2>2, GotoIs
<1>4. CASE ScanContainers(p)
  <2> DEFINE up == IF cache.fresh THEN cache.up ELSE {t \in Parts : pid[t] # 0}
             in == [NoView EXCEPT !.found = "live", !.appStatus = composeStatus("app", up),
                                  !.daprdStatus = composeStatus("daprd", up)]
             b == "app" \in up
             r == [Applied(p, in) EXCEPT !.saw = b]
  <2>1. Goto(p, r)
    BY <1>4 DEF ScanContainers
  <2> HIDE DEF in, b
  <2>2. r.pc # "done"
    BY AppliedGoesOn
  <2> HIDE DEF r
  <2> QED
    BY <2>1, <2>2, GotoIs
<1>5. CASE MetadataFails(p)
  <2>1. PICK c : Seen(p, "apply", [req[p].view EXCEPT !.cli = c])
    BY <1>5 DEF MetadataFails
  <2> DEFINE in == [req[p].view EXCEPT !.cli = c]
             r == [req[p] EXCEPT !.pc = "apply", !.view = in]
  <2>2. Goto(p, r)
    BY <2>1 DEF Seen
  <2> HIDE DEF in
  <2>3. r.pc = "apply"
    BY <1>1 DEF RequestType
  <2> HIDE DEF r
  <2> QED
    BY <2>2, <2>3, GotoIs
<1>6. CASE \E registered \in BOOLEAN : Enrich(p, registered)
  <2>1. PICK registered \in BOOLEAN : Enrich(p, registered)
    BY <1>6
  <2> DEFINE launch == pid["daprd"]
             running == IF registered THEN Alive("app", launch) ELSE pid["app"] # 0
             cli == IF registered /\ Alive("all", launch) THEN launch ELSE 0
             aspire == kind = "aspire"
             saw == running /\ (registered \/ aspire)
             out == [req[p].view EXCEPT !.app = IF running /\ registered THEN launch ELSE 0,
                       !.appStatus = IF running THEN "running" ELSE "stopped", !.cli = cli,
                       !.aspire = aspire, !.orphan = ~aspire /\ cli = 0 /\ ~running]
  <2>2. Goto(p, [req[p] EXCEPT !.pc = "apply", !.saw = saw, !.view = out])
    BY <2>1 DEF Enrich
  <2> HIDE DEF saw, out
  <2>3. [req[p] EXCEPT !.pc = "apply", !.saw = saw, !.view = out].pc = "apply"
    BY <1>1 DEF RequestType
  <2> QED
    BY <2>2, <2>3, GotoIs
<1>7. CASE ApplyEntry(p)
  <2> DEFINE in == req[p].view
             procs == IF entry = NoEntry THEN NoProcs ELSE entry.procs
             drops == Drops(in, procs)
             appStopped == procs["app"] # 0 /\ ~Stale(in, procs, "app")
             out == IF appStopped THEN [in EXCEPT !.appStatus = "stopped", !.app = 0] ELSE in
             held == [req[p] EXCEPT !.pc = "droptarget", !.view = out, !.held = procs, !.todo = drops]
             next == IF drops = <<>> THEN Applied(p, out) ELSE held
             b == next.saw /\ (in.app # 0 => Alive("app", in.app) /\ owed["app"] # in.app)
  <2>1. Goto(p, [next EXCEPT !.saw = b])
    BY <1>7 DEF ApplyEntry
  <2> HIDE DEF b, out, drops, procs, appStopped
  <2>2. [held EXCEPT !.saw = b].pc = "droptarget"
    BY <1>1 DEF RequestType
  <2> HIDE DEF held
  <2>3. next = Applied(p, out) \/ next = held
    OBVIOUS
  <2> HIDE DEF next
  <2>4. [next EXCEPT !.saw = b].pc # "done"
    BY <2>2, <2>3, AppliedGoesOn
  <2> QED
    BY <2>1, <2>4, GotoIs
<1>8. CASE DropTarget(p)
  <2> DEFINE rest == Tail(req[p].todo)
             r1 == Applied(p, req[p].view)
             r2 == [req[p] EXCEPT !.todo = rest]
  <2>1. Goto(p, r1) \/ Goto(p, r2)
    BY <1>8 DEF DropTarget
  <2> HIDE DEF rest
  <2>2. r2.pc = "droptarget"
    BY <1>1, <1>8 DEF DropTarget, At, RequestType
  <2>3. r1.pc # "done"
    BY AppliedGoesOn
  <2> HIDE DEF r1, r2
  <2> QED
    BY <2>1, <2>2, <2>3, GotoIs
<1>9. CASE Drop(p)
  <2>1. Goto(p, [req[p] EXCEPT !.pc = "suppress"]) /\ [req[p] EXCEPT !.pc = "suppress"].pc = "suppress"
    BY <1>1, <1>9 DEF Drop, RequestType
  <2> QED
    BY <2>1, GotoIs
<1>10. CASE RecordStop(p)
  <2> DEFINE in == req[p].view
             todo == Signals(in, Effective(p))
             held == [t \in Targets |-> IF t \in Range(todo) THEN Observed(in, t) ELSE 0]
  <2>1. Goto(p, [Idle EXCEPT !.pc = "terminate", !.op = "stop", !.todo = todo, !.held = held])
    BY <1>10 DEF RecordStop
  <2> HIDE DEF todo, held
  <2>2. [Idle EXCEPT !.pc = "terminate", !.op = "stop", !.todo = todo, !.held = held].pc = "terminate"
    BY DEF Idle
  <2> QED
    BY <2>1, <2>2, GotoIs
<1> QED
  BY <1>3, <1>4, <1>5, <1>6, <1>7, <1>8, <1>9, <1>10

\* Who ends: a request that finds nothing, is filtered, served, suppressed,
\* refused, or has acted.
LEMMA Ending ==
  ASSUME IInv, Next, NEW q \in Procs, Ends(q)
  PROVE  \/ Lookup(q) /\ entry = NoEntry
         \/ Filter(q) \/ Unsuppress(q) \/ Suppress(q)
         \/ Refuse(q) \/ Terminate(q) \/ Cancelled(q)
         \/ Exited(q) \/ Kill(q)
         \/ DispatchCompose(q) \/ RunContainer(q) \/ RuntimeFails(q)
<1>1. req[q].pc # "done" /\ req'[q].pc = "done" /\ req'[q] # req[q]
  BY DEF Ends, At
<1>2. ASSUME NEW p \in Procs, Step(p)
      PROVE  p = q
  <2> SUFFICES \A o \in Procs \ {p} : req'[o] = req[o]
    BY <1>1
  <2>1. CASE \/ ScanProcesses(p) \/ ScanContainers(p) \/ MetadataFails(p)
             \/ \E registered \in BOOLEAN : Enrich(p, registered)
             \/ ApplyEntry(p) \/ DropTarget(p) \/ Drop(p) \/ RecordStop(p)
    BY <2>1, GoesOn
  <2>2. CASE \/ Lookup(p) \/ Filter(p) \/ Unsuppress(p) \/ Suppress(p)
             \/ Refuse(p) \/ Terminate(p) \/ Exited(p) \/ Cancelled(p) \/ Kill(p)
             \/ DispatchCompose(p) \/ RunContainer(p) \/ RuntimeFails(p)
    <3>1. \E r : Goto(p, r)
      BY <2>2 DEF Lookup, Filter, Unsuppress, Suppress, Refuse, Terminate, Exited, Cancelled, Kill,
                  DispatchCompose, RunContainer, RuntimeFails, Serve, Seen, NextPid, Returns
    <3> QED
      BY <3>1, GotoIs
  <2> QED
    BY <1>2, <2>1, <2>2 DEF Step
<1>3. ~\E p \in Procs, op \in Ops, t \in Targets : Begin(p, op, t)
  <2> SUFFICES ASSUME NEW p \in Procs, NEW op \in Ops, NEW t \in Targets, Begin(p, op, t)
               PROVE  FALSE
    OBVIOUS
  <2>1. p # q
    BY <1>1 DEF Begin, At
  <2>2. req'[q] = req[q]
    BY <2>1 DEF Begin, IInv, ReqInv
  <2> QED
    BY <1>1, <2>2
<1>4. ~(Launch \/ StartContainer \/ Exit \/ Expire)
  BY <1>1 DEF Launch, StartContainer, Exit, Expire, Starts
<1>5. Step(q)
  BY <1>2, <1>3, <1>4 DEF Next, Requests
<1>6. ASSUME Lookup(q), entry # NoEntry
      PROVE  FALSE
  <2> DEFINE r == Applied(q, synthesize(entry))
  <2>1. Goto(q, r)
    BY <1>6 DEF Lookup
  <2>2. r.pc # "done"
    BY AppliedGoesOn
  <2> HIDE DEF r
  <2> QED
    BY <1>1, <2>1, <2>2, GotoIs
<1> QED
  BY <1>1, <1>5, <1>6, GoesOn DEF Step

\* A stop that ends without error has seen every process it signalled go.
LEMMA StopsGo ==
  ASSUME IInv, Next, NEW q \in Procs, Ends(q), req[q].op = "stop", req'[q].ok,
         NEW t \in Targets, req[q].held[t] # 0
  PROVE  pid'[t] # req[q].held[t]
<1>1. req'[q].pc = "done" /\ "stop" \in Actions
  BY DEF Ends, Actions
<1>2. /\ Phase(req[q], kind) /\ pid \in ProcMaps /\ NoProcs[t] = 0
  BY ReqFacts, WorldFacts, ConstantsOK DEF IInv
<1>3. CASE Lookup(q) /\ entry = NoEntry
  <2>1. Returns(q, FALSE)
    BY <1>1, <1>3 DEF Lookup
  <2> QED
    BY <2>1, ReturnsIs
<1>4. CASE Filter(q) \/ Unsuppress(q) \/ Suppress(q)
  BY <1>1, <1>2, <1>4 DEF Filter, Unsuppress, Suppress, At, Phase
<1>5. CASE Refuse(q) \/ Cancelled(q) \/ RuntimeFails(q)
  <2>1. Returns(q, FALSE)
    BY <1>5 DEF Refuse, Cancelled, RuntimeFails
  <2> QED
    BY <2>1, ReturnsIs
<1>6. CASE Terminate(q)
  <2>1. CASE Returns(q, FALSE)
    BY <2>1, ReturnsIs
  <2>2. CASE Goto(q, [req[q] EXCEPT !.pc = "wait"])
    <3> DEFINE r == [req[q] EXCEPT !.pc = "wait"]
    <3>1. r.pc = "wait"
      BY ReqFacts DEF RequestType
    <3> HIDE DEF r
    <3> QED
      BY <1>1, <2>2, <3>1, GotoIs DEF r
  <2> QED
    BY <1>6, <2>1, <2>2 DEF Terminate
<1>7. CASE DispatchCompose(q)
  <2> DEFINE ids == composeTargets(req[q].target, req[q].op)
             r == [req[q] EXCEPT !.pc = "runtime", !.todo = ids]
  <2>1. Returns(q, FALSE) \/ Goto(q, r)
    BY <1>7 DEF DispatchCompose
  <2> HIDE DEF ids
  <2>2. r.pc = "runtime"
    BY ReqFacts DEF RequestType
  <2> HIDE DEF r
  <2>3. CASE Goto(q, r)
    BY <1>1, <2>2, <2>3, GotoIs
  <2>4. CASE Returns(q, FALSE)
    BY <2>4, ReturnsIs
  <2> QED
    BY <2>1, <2>3, <2>4
<1>8. CASE RunContainer(q)
  BY <1>2, <1>8 DEF RunContainer, At, Phase
<1>9. CASE Exited(q)
  <2>1. At(q, "wait") /\ NextPid(q) /\ ~Alive(Head(req[q].todo), Victim(q)) /\ pid' = pid
    BY <1>9 DEF Exited, world
  <2>2. Victim(q) # 0
    BY <2>1, IInvTypes DEF TypeOK, At
  <2>3. pid[Head(req[q].todo)] # Victim(q)
    BY <2>1, <2>2 DEF Alive
  <2>4. PICK r \in RequestType :
          /\ Goto(q, r)
          /\ r.pc = "done" => \A u \in Targets : req[q].held[u] # 0 => pid[u] # req[q].held[u]
    BY <1>2, <2>1, <2>3, NextPidGood
  <2>5. r.pc = "done"
    BY <1>1, <2>4, GotoIs
  <2> QED
    BY <2>1, <2>4, <2>5
<1>10. CASE Kill(q)
  <2> DEFINE u == Head(req[q].todo)
  <2>1. /\ At(q, "wait") /\ NextPid(q) /\ Victim(q) # 0 /\ pid[u] = Victim(q)
        /\ pid' = [pid EXCEPT ![u] = 0]
    BY <1>10 DEF Kill, Alive
  <2>2. u \in Targets
    BY <2>1, ReqFacts, HeadAndTail DEF At, Pending, RequestType
  <2> HIDE DEF u
  <2>3. pid' \in ProcMaps /\ pid'[u] # Victim(q) /\ \A o \in Targets : pid'[o] \in {0, pid[o]}
    BY <1>2, <2>1, <2>2, ConstantsOK DEF ProcMaps
  <2>4. PICK r \in RequestType :
          /\ Goto(q, r)
          /\ r.pc = "done" => \A o \in Targets : req[q].held[o] # 0 => pid'[o] # req[q].held[o]
    BY <2>1, <2>3, NextPidGood DEF u
  <2>5. r.pc = "done"
    BY <1>1, <2>4, GotoIs
  <2> QED
    BY <2>4, <2>5
<1> QED
  BY <1>3, <1>4, <1>5, <1>6, <1>7, <1>8, <1>9, <1>10, Ending

\* A list that ends with something running has served it, and shows its app as
\* running if it saw it so.
LEMMA ListsShow ==
  ASSUME IInv, Next, NEW q \in Procs, Ends(q), req[q].op = "list",
         "running" \in {req[q].view.appStatus, req[q].view.daprdStatus}
  PROVE  req'[q].ok /\ (req[q].saw => req[q].view.appStatus = "running")
<1>1. "list" \notin Actions /\ req[q].op \notin Actions /\ req[q].op # "clear"
  BY DEF Actions
<1>2. Phase(req[q], kind) /\ Sight(req[q], kind)
  BY ReqFacts
<1>3. NoView.appStatus = "" /\ NoView.daprdStatus = ""
  BY DEF NoView
<1>4. ~fullyStopped(req[q].view)
  BY DEF fullyStopped
<1>5. CASE Lookup(q)
  BY <1>2, <1>3, <1>5 DEF Lookup, At, Sight
<1>6. CASE Filter(q) \/ Unsuppress(q)
  <2>1. CASE Serve(q)
    <3>1. Returns(q, TRUE)
      BY <1>1, <2>1 DEF Serve
    <3>2. req[q].saw => req[q].view.appStatus = "running"
      BY <1>2, <1>6 DEF Filter, Unsuppress, At, Sight
    <3> QED
      BY <3>1, <3>2, ReturnsIs
  <2>2. CASE Seen(q, "unsuppress", req[q].view)
    <3> DEFINE r == [req[q] EXCEPT !.pc = "unsuppress", !.view = req[q].view]
    <3>1. Goto(q, r)
      BY <2>2 DEF Seen
    <3>2. r.pc = "unsuppress"
      BY ReqFacts DEF RequestType
    <3> HIDE DEF r
    <3> QED
      BY <3>1, <3>2, GotoIs DEF Ends
  <2> QED
    BY <1>4, <1>6, <2>1, <2>2 DEF Filter, Unsuppress
<1>7. CASE \/ Suppress(q) \/ Refuse(q) \/ Terminate(q) \/ Cancelled(q) \/ Exited(q) \/ Kill(q)
           \/ DispatchCompose(q) \/ RunContainer(q) \/ RuntimeFails(q)
  BY <1>1, <1>2, <1>7 DEF Suppress, Refuse, Terminate, Cancelled, Exited, Kill, DispatchCompose,
                          RunContainer, RuntimeFails, At, Phase, Signalling
<1> QED
  BY <1>5, <1>6, <1>7, Ending

\* A stop that reports success leaves none of the processes it signalled.
THEOREM StopsAreReported == Spec => StopReported
<1>1. IInv /\ [Next]_vars =>
        [\A p \in Procs : Ends(p) /\ req[p].op = "stop" /\ req'[p].ok =>
           \A t \in Targets : req[p].held[t] # 0 => pid'[t] # req[p].held[t]]_vars
  BY StopsGo
<1> QED
  BY <1>1, InvariantHolds, PTL DEF Spec, StopReported

\* A list whose scan found something running serves the instance, whatever was
\* dismissed before, with its app running unless it was asked to stop.
THEOREM RunningIsShown == Spec => RunningShown
<1>1. IInv /\ [Next]_vars =>
        [\A p \in Procs :
           LET in == req[p].view
           IN Ends(p) /\ req[p].op = "list" /\ "running" \in {in.appStatus, in.daprdStatus} =>
                req'[p].ok /\ (req[p].saw => in.appStatus = "running")]_vars
  BY ListsShow
<1> QED
  BY <1>1, InvariantHolds, PTL DEF Spec, RunningShown

=============================================================================
