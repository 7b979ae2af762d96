-------------------------- MODULE WorkflowDetailPage --------------------------
(***************************************************************************)
(* The page of one workflow execution (src/web/src/pages/WorkflowDetail    *)
(* .tsx) with the ordering and the pairing of its history events           *)
(* (lib/eventOrder.ts, lib/pairing.ts).  The history grows on the server   *)
(* while the page polls it; the user selects rows, follows anchors, opens  *)
(* a child workflow (the same component, its state kept) and removes the   *)
(* execution.                                                              *)
(***************************************************************************)
EXTENDS Naturals, Integers, Sequences, FiniteSets, SequencesExt, TLC

CONSTANTS None,       \* no value: null and undefined in the code
          Instances,  \* executions; opening a child goes from one to another
          Root,       \* the execution the page opens on
          EventPool,  \* [instance -> the events its history may grow by]
          MaxEvents,  \* [instance -> bound: events of its history]
          MaxActs     \* bound: user actions

VARIABLES d,      \* the page's state
          dcache, \* [instance -> the execution last fetched, or None]
          dreq,   \* the removal in flight, or None
          dsrv,   \* [instance -> its history on the server, None once removed]
          dg      \* history: whether the user dismissed a selection; actions

dvars == <<d, dcache, dreq, dsrv, dg>>

-----------------------------------------------------------------------------
(* eventOrder.ts: the canonical order of a history. *)

TERMINAL_EXEC_TYPES == {"ExecutionCompleted", "ExecutionFailed", "ExecutionTerminated"}

pinRank(e) ==
  CASE e.type = "ExecutionStarted" -> 0
    [] e.type \in TERMINAL_EXEC_TYPES -> 2
    [] OTHER -> 1

(* By rank, then timestamp, then the order received. *)
displayOrder(h) ==
  LET Before(i, j) == \/ pinRank(h[i]) < pinRank(h[j])
                      \/ /\ pinRank(h[i]) = pinRank(h[j])
                         /\ \/ h[i].timestamp < h[j].timestamp
                            \/ h[i].timestamp = h[j].timestamp /\ i < j
  IN  SortSeq([i \in DOMAIN h |-> i], Before)

sortHistoryForDisplay(h) == [n \in DOMAIN h |-> h[displayOrder(h)[n]]]

orderHistoryForDisplay(h, order) ==
  IF order = "desc" THEN Reverse(sortHistoryForDisplay(h)) ELSE sortHistoryForDisplay(h)

-----------------------------------------------------------------------------
(* pairing.ts: each completion is matched to the latest start of its id that *)
(* is still open.                                                            *)

START_TYPES == {"TaskScheduled", "TimerCreated", "SubOrchestrationCreated"}
END_TYPES == {"TaskCompleted", "TaskFailed", "TimerFired", "SubOrchestrationCompleted",
              "SubOrchestrationFailed"}

isStart(e) == e.type \in START_TYPES /\ e.sequenceId >= 0
isEnd(e) == e.type \in END_TYPES /\ e.scheduledId # None

PairInfo(id, role, partner, ms) ==
  [pairId |-> id, role |-> role, partnerIndex |-> partner, durationMs |-> ms]

Stack(open, id) == IF id \in DOMAIN open THEN open[id] ELSE <<>>

Put(map, key, value) ==
  [x \in DOMAIN map \cup {key} |-> IF x = key THEN value ELSE map[x]]

durationMs(from, to) == IF to.timestamp < from.timestamp THEN None
                        ELSE to.timestamp - from.timestamp

pushedFifo(open, id, i) == Put(open, id, <<i>> \o Stack(open, id))

pushed(open, id, i) == Put(open, id, Append(Stack(open, id), i))

(* The end at i closes the start at from. *)
closed(h, result, id, from, i) ==
  Put(Put(result, i, PairInfo(id, "end", from, durationMs(h[from], h[i]))),
      from, PairInfo(id, "start", i, None))

(* One event of the pass; acc holds the open starts per id and the result. *)
pairEvent(h, acc, i) ==
  IF isStart(h[i])
  THEN [open |-> pushed(acc.open, h[i].sequenceId, i), result |-> acc.result]
  ELSE IF ~isEnd(h[i]) THEN acc
  ELSE LET id == h[i].scheduledId
           stack == Stack(acc.open, id)
       IN  IF stack = <<>>
           THEN [open |-> acc.open, result |-> Put(acc.result, i, PairInfo(id, "end", None, None))]
           ELSE [open |-> Put(acc.open, id, Front(stack)),
                 result |-> closed(h, acc.result, id, Last(stack), i)]

(* What the pass holds after each number of events. *)
pairPass(h) ==
  LET pass[n \in 0..Len(h)] == IF n = 0 THEN [open |-> <<>>, result |-> <<>>]
                               ELSE pairEvent(h, pass[n - 1], n)
  IN  pass

(* Starts still open at the end run on. *)
buildPairIndex(h) ==
  LET last == pairPass(h)[Len(h)]
      running == UNION {Range(last.open[id]) : id \in DOMAIN last.open}
  IN  [i \in running \cup DOMAIN last.result |->
         IF i \in running THEN PairInfo(h[i].sequenceId, "start", None, None)
         ELSE last.result[i]]

-----------------------------------------------------------------------------
(* The page. *)

Mount(inst) ==
  [inst |-> inst, hash |-> None, lastAutoSelectedHash |-> None, selection |-> None,
   order |-> "asc", open |-> FALSE, force |-> FALSE, left |-> FALSE]

isTerminal(h) == \E i \in DOMAIN h : h[i].type \in TERMINAL_EXEC_TYPES

history == sortHistoryForDisplay(dcache[d.inst])
Loaded == ~d.left /\ dcache[d.inst] # None
Anchors == 1..Len(dcache[d.inst])

jumpEveryTime(p, h) ==
  LET pairs == buildPairIndex(sortHistoryForDisplay(h)) IN
  IF p.hash = None \/ p.hash \notin DOMAIN h THEN p
  ELSE [p EXCEPT !.lastAutoSelectedHash = p.hash,
                 !.selection = IF p.hash \in DOMAIN pairs
                               THEN [pairId |-> pairs[p.hash].pairId, index |-> p.hash]
                               ELSE @]

(* An anchor is followed once: to a row on screen, selected when paired. *)
jumpToHash(p, h) ==
  LET pairs == buildPairIndex(sortHistoryForDisplay(h)) IN
  IF p.hash = None THEN [p EXCEPT !.lastAutoSelectedHash = None]
  ELSE IF p.hash = p.lastAutoSelectedHash \/ p.hash \notin DOMAIN h THEN p
  ELSE [p EXCEPT !.lastAutoSelectedHash = p.hash,
                 !.selection = IF p.hash \in DOMAIN pairs
                               THEN [pairId |-> pairs[p.hash].pairId, index |-> p.hash]
                               ELSE @]

User == dg.acts < MaxActs /\ Loaded /\ ~d.open
Acted(dismissed) == [dismissed |-> dismissed, acts |-> dg.acts + 1]
UserSets(p, dismissed) == User /\ d' = p /\ dg' = Acted(dismissed)
                          /\ UNCHANGED <<dcache, dreq, dsrv>>

(* A click on a paired row selects it, or drops the selection it was. *)
togglePairSelection(i) ==
  LET pairs == buildPairIndex(history) IN
  /\ User /\ i \in DOMAIN pairs
  /\ LET sel == [pairId |-> pairs[i].pairId, index |-> i] IN
       UserSets([d EXCEPT !.selection = IF @ = sel THEN None ELSE sel], d.selection = sel)

(* A pair chip, the last-event link or a copied anchor. *)
followAnchor(i) ==
  /\ User /\ i \in Anchors /\ i # d.hash
  /\ UserSets(jumpToHash([d EXCEPT !.hash = i], dcache[d.inst]), FALSE)

setOrder == User /\ UserSets([d EXCEPT !.order = IF @ = "asc" THEN "desc" ELSE "asc"],
                             dg.dismissed)

(* The rows as rendered: each with its canonical index and pair. *)
timeline ==
  LET canonical == history
      n == Len(canonical)
  IN  [k \in 1..n |-> LET ci == IF d.order = "desc" THEN n + 1 - k ELSE k IN
         [event |-> orderHistoryForDisplay(dcache[d.inst], d.order)[k],
          anchor |-> ci,
          isActive |-> d.selection # None /\ d.selection.index = ci]]

(* A child's page is the same component: what is not in the URL stays. *)
openChild(inst) ==
  /\ inst # d.inst
  /\ UserSets([d EXCEPT !.inst = inst, !.hash = None], dg.dismissed)

openRemove(force) ==
  /\ User /\ (force \/ isTerminal(dcache[d.inst]))
  /\ UserSets([d EXCEPT !.open = TRUE, !.force = force], dg.dismissed)

cancelRemove == /\ d.open /\ dreq = None /\ Loaded
                /\ d' = [d EXCEPT !.open = FALSE]
                /\ UNCHANGED <<dcache, dreq, dsrv, dg>>

setForce == /\ d.open /\ dreq = None /\ Loaded /\ dg.acts < MaxActs
            /\ d' = [d EXCEPT !.force = ~@] /\ dg' = Acted(dg.dismissed)
            /\ UNCHANGED <<dcache, dreq, dsrv>>

onConfirmRemove ==
  /\ d.open /\ dreq = None /\ Loaded
  /\ dreq' = [inst |-> d.inst, force |-> d.force, done |-> FALSE]
  /\ UNCHANGED <<d, dcache, dsrv, dg>>

Purge ==
  /\ dreq # None /\ ~dreq.done
  /\ dsrv' \in {[dsrv EXCEPT ![dreq.inst] = None], dsrv}
  /\ dreq' = [dreq EXCEPT !.done = TRUE]
  /\ UNCHANGED <<d, dcache, dg>>

(* The answer closes the dialog and goes back to the list. *)
Removed ==
  /\ dreq # None /\ dreq.done
  /\ d' = [d EXCEPT !.open = FALSE, !.left = TRUE]
  /\ dreq' = None
  /\ UNCHANGED <<dcache, dsrv, dg>>

RemoveFailed ==
  /\ dreq # None
  /\ d' = [d EXCEPT !.open = FALSE]
  /\ dreq' = None
  /\ UNCHANGED <<dcache, dsrv, dg>>

(* From the list, an execution is opened anew. *)
openDetail(inst) ==
  /\ d.left /\ dg.acts < MaxActs
  /\ d' = [Mount(inst) EXCEPT !.order = d.order]
  /\ dg' = Acted(FALSE)
  /\ UNCHANGED <<dcache, dreq, dsrv>>

(* A poll lands: the pairs are built anew and a pending anchor is followed. *)
HistoryLands ==
  /\ ~d.left /\ dsrv[d.inst] # None /\ dcache[d.inst] # dsrv[d.inst]
  /\ dcache' = [dcache EXCEPT ![d.inst] = dsrv[d.inst]]
  /\ d' = jumpToHash(d, dsrv[d.inst])
  /\ UNCHANGED <<dreq, dsrv, dg>>

HistoryGrows(inst, e) ==
  /\ dsrv[inst] # None /\ Len(dsrv[inst]) < MaxEvents[inst]
  /\ dsrv' = [dsrv EXCEPT ![inst] = Append(@, e)]
  /\ UNCHANGED <<d, dcache, dreq, dg>>

-----------------------------------------------------------------------------
DInit ==
  /\ d = Mount(Root)
  /\ dcache = [inst \in Instances |-> None]
  /\ dreq = None
  /\ dsrv = [inst \in Instances |-> <<>>]
  /\ dg = [dismissed |-> FALSE, acts |-> 0]

DNext ==
  \/ \E i \in 1..MaxEvents[d.inst] : togglePairSelection(i)
  \/ \E i \in 1..MaxEvents[d.inst] : followAnchor(i)
  \/ setOrder
  \/ \E inst \in Instances : openChild(inst)
  \/ \E force \in BOOLEAN : openRemove(force)
  \/ cancelRemove
  \/ setForce
  \/ onConfirmRemove
  \/ Purge
  \/ Removed
  \/ RemoveFailed
  \/ \E inst \in Instances : openDetail(inst)
  \/ HistoryLands
  \/ \E inst \in Instances : \E e \in EventPool[inst] : HistoryGrows(inst, e)
-----------------------------------------------------------------------------
(* i and j are start and end of one another: the same task id, and between  *)
(* them that id's starts and ends match up among themselves.                *)
StartsIn(h, id, m, n) == {x \in m..n : isStart(h[x]) /\ h[x].sequenceId = id}
EndsIn(h, id, m, n) == {x \in m..n : isEnd(h[x]) /\ h[x].scheduledId = id}

Partners(h, i, j) ==
  LET id == h[i].sequenceId
      starts(n) == Cardinality(StartsIn(h, id, i + 1, n))
      ends(n) == Cardinality(EndsIn(h, id, i + 1, n))
  IN  /\ i < j /\ isStart(h[i]) /\ isEnd(h[j]) /\ h[j].scheduledId = id
      /\ starts(j - 1) = ends(j - 1)
      /\ \A n \in i..(j - 1) : ends(n) <= starts(n)

(* Whatever order events were recorded in and however often a task id comes *)
(* back, buildPairIndex joins each start with the end that closes it and    *)
(* nothing else, and every row of the timeline, in either order, carries    *)
(* the anchor of its own event.                                             *)
PairsMatch ==
  Loaded =>
    LET h == history
        pairs == buildPairIndex(h)
    IN  /\ DOMAIN pairs = {i \in DOMAIN h : isStart(h[i]) \/ isEnd(h[i])}
        /\ \A i \in DOMAIN pairs :
             LET partners == {j \in DOMAIN h : IF isStart(h[i]) THEN Partners(h, i, j)
                                               ELSE Partners(h, j, i)}
             IN  IF partners = {} THEN pairs[i].partnerIndex = None
                 ELSE partners = {pairs[i].partnerIndex}
        /\ \A k \in DOMAIN timeline : timeline[k].event = h[timeline[k].anchor]

(* A selection the user dismissed stays dismissed while the history is      *)
(* polled and grows: jumpToHash selects the URL's anchor once               *)
(* (WorkflowDetail.tsx lastAutoSelectedHash).                               *)
DismissedStaysDismissed == dg.dismissed => d.selection = None
=============================================================================
