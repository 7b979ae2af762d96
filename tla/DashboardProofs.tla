--------------------------- MODULE DashboardProofs ---------------------------
(***************************************************************************)
(* Proofs for the pages that show a list and change it, and for the        *)
(* wizards and the connection dialog.  A bulk removal names only what was  *)
(* checked in its store, and a page whose requests are over shows the      *)
(* server's answer - for any stores, keys, filters, page size and number   *)
(* of steps, and whatever the server's scan computes.  Whatever is         *)
(* renamed, removed, chosen again or typed in a wizard, and in whichever   *)
(* order, what it emits refers to what there is - for any catalogue, names *)
(* and number of edits.                                                    *)
(***************************************************************************)
EXTENDS Dashboard, TLAPS

-----------------------------------------------------------------------------
(* The query cache. *)

QueryFields == {"cache", "last", "fetching"}

\* A query's cache: answers of keys that name a store.
QueryOK(q) ==
  /\ DOMAIN q = QueryFields
  /\ q.fetching \in BOOLEAN
  /\ \A x \in DOMAIN q.cache : /\ x.store # None
                               /\ {"has", "error", "rows", "next"} \subseteq DOMAIN q.cache[x]

\* A query that shows an answer shows this one.
Shows(q, key, answer) ==
  entry(q, key).has /\ ~entry(q, key).error
    => [rows |-> entry(q, key).rows, next |-> entry(q, key).next] = answer

\* A key without a store has no answer.
LEMMA NoStoreNoAnswer ==
  ASSUME NEW q, QueryOK(q), NEW key, key.store = None
  PROVE  ~entry(q, key).has
  BY DEF QueryOK, entry, Nothing

\* A query that has just been mounted has none either.
LEMMA NoQueryOK == QueryOK(NoQuery) /\ ~NoQuery.fetching /\ \A key : ~entry(NoQuery, key).has
  BY DEF QueryOK, NoQuery, entry, Nothing, QueryFields

\* A fetch begins unless there is no store, and then there is no answer.
LEMMA StartFetch ==
  ASSUME NEW q, QueryOK(q), NEW key
  PROVE  LET new == startFetch(q, key) IN
         /\ QueryOK(new)
         /\ new.fetching => key.store # None
         /\ ~new.fetching => ~entry(new, key).has
<1>1. CASE key.store = None
  <2> DEFINE new == [q EXCEPT !.fetching = FALSE]
  <2>1. startFetch(q, key) = new
    BY <1>1 DEF startFetch
  <2>2. QueryOK(new) /\ ~new.fetching
    BY DEF QueryOK, QueryFields
  <2> HIDE DEF new
  <2> QED
    BY <1>1, <2>1, <2>2, NoStoreNoAnswer
<1>2. CASE key.store # None
  <2> DEFINE kept == {y \in DOMAIN q.cache : y # key \/ q.cache[y].has}
             last == IF entry(q, key).has THEN key ELSE q.last
             cache == [x \in kept |-> q.cache[x]]
             new == [q EXCEPT !.fetching = TRUE, !.last = last, !.cache = cache]
  <2>1. startFetch(q, key) = new
    BY <1>2 DEF startFetch
  <2>2. DOMAIN cache \subseteq DOMAIN q.cache /\ \A x \in DOMAIN cache : cache[x] = q.cache[x]
    OBVIOUS
  <2> HIDE DEF cache, last
  <2>3. DOMAIN new = QueryFields /\ new.fetching = TRUE /\ new.cache = cache
    BY DEF QueryOK, QueryFields
  <2> HIDE DEF new
  <2>4. QueryOK(new)
    BY <2>2, <2>3 DEF QueryOK
  <2> QED
    BY <1>2, <2>1, <2>3, <2>4
<1> QED
  BY <1>1, <1>2

\* An answer that lands is the one shown.
LEMMA Land ==
  ASSUME NEW q, QueryOK(q), NEW key, key.store # None, NEW found
  PROVE  LET new == land(q, key, found) IN
         /\ QueryOK(new) /\ ~new.fetching
         /\ Shows(new, key, [rows |-> found.rows, next |-> found.next])
<1> DEFINE answer == [has |-> TRUE, error |-> FALSE, rows |-> found.rows, next |-> found.next]
           cache == put(q, key, answer)
           new == land(q, key, found)
<1>1. /\ DOMAIN cache = DOMAIN q.cache \cup {key} /\ cache[key] = answer
      /\ \A x \in DOMAIN q.cache \ {key} : cache[x] = q.cache[x]
  BY DEF put
<1>2. new = [cache |-> cache, last |-> key, fetching |-> FALSE]
  BY DEF land
<1>3. {"has", "error", "rows", "next"} \subseteq DOMAIN answer
      /\ answer.rows = found.rows /\ answer.next = found.next
  OBVIOUS
<1> HIDE DEF answer, cache, new
<1>4. DOMAIN new = QueryFields /\ new.cache = cache /\ new.fetching = FALSE
  BY <1>2 DEF QueryFields
<1>5. QueryOK(new)
  BY <1>1, <1>3, <1>4 DEF QueryOK
<1>6. entry(new, key) = answer
  BY <1>1, <1>4 DEF entry
<1> QED
  BY <1>3, <1>4, <1>5, <1>6 DEF Shows, new

\* A failed fetch leaves its error.
LEMMA Fail ==
  ASSUME NEW q, QueryOK(q), NEW key, key.store # None
  PROVE  LET new == fail(q, key) IN
         QueryOK(new) /\ ~new.fetching /\ entry(new, key).error
<1> DEFINE answer == [entry(q, key) EXCEPT !.error = TRUE]
           cache == put(q, key, answer)
           new == fail(q, key)
<1>1. /\ DOMAIN cache = DOMAIN q.cache \cup {key} /\ cache[key] = answer
      /\ \A x \in DOMAIN q.cache \ {key} : cache[x] = q.cache[x]
  BY DEF put
<1>2. {"has", "error", "rows", "next"} \subseteq DOMAIN entry(q, key)
  BY DEF entry, Nothing, QueryOK
<1>3. {"has", "error", "rows", "next"} \subseteq DOMAIN answer /\ answer.error = TRUE
  BY <1>2
<1>4. new = [q EXCEPT !.cache = cache, !.fetching = FALSE]
  BY DEF fail
<1> HIDE DEF answer, cache, new
<1>5. DOMAIN new = QueryFields /\ new.cache = cache /\ new.fetching = FALSE
  BY <1>4 DEF QueryOK, QueryFields
<1>6. QueryOK(new)
  BY <1>1, <1>3, <1>5 DEF QueryOK
<1>7. entry(new, key) = answer
  BY <1>1, <1>5 DEF entry
<1> QED
  BY <1>3, <1>5, <1>6, <1>7 DEF new

\* Both pages use these operators.
LEMMA SharedOperators ==
  ASSUME NEW q, NEW key, NEW new, NEW found
  PROVE  /\ W!entry(q, key) = entry(q, key) /\ S!entry(q, key) = entry(q, key)
         /\ W!startFetch(q, key) = startFetch(q, key)
         /\ S!startFetch(q, key) = startFetch(q, key)
         /\ W!observe(q, key, new) = observe(q, key, new)
         /\ S!observe(q, key, new) = observe(q, key, new)
         /\ W!land(q, key, found) = land(q, key, found)
         /\ S!land(q, key, found) = land(q, key, found)
         /\ W!fail(q, key) = fail(q, key) /\ S!fail(q, key) = fail(q, key)
         /\ W!NoQuery = NoQuery /\ S!NoQuery = NoQuery
<1>1. W!entry(q, key) = entry(q, key) /\ S!entry(q, key) = entry(q, key)
  BY DEF entry, Nothing, W!entry, W!Nothing, S!entry, S!Nothing
<1>2. /\ W!startFetch(q, key) = startFetch(q, key)
      /\ S!startFetch(q, key) = startFetch(q, key)
  BY <1>1 DEF startFetch, W!startFetch, S!startFetch
<1>3. W!startFetch(q, new) = startFetch(q, new) /\ S!startFetch(q, new) = startFetch(q, new)
  BY DEF startFetch, W!startFetch, S!startFetch, entry, Nothing, W!entry, W!Nothing,
         S!entry, S!Nothing
<1>4. /\ W!observe(q, key, new) = observe(q, key, new)
      /\ S!observe(q, key, new) = observe(q, key, new)
  BY <1>3 DEF observe, W!observe, S!observe
<1>5. /\ W!land(q, key, found) = land(q, key, found)
      /\ S!land(q, key, found) = land(q, key, found)
  BY DEF land, W!land, S!land, put, W!put, S!put
<1>6. W!fail(q, key) = fail(q, key) /\ S!fail(q, key) = fail(q, key)
  BY <1>1 DEF fail, W!fail, S!fail, put, W!put, S!put
<1>7. W!NoQuery = NoQuery /\ S!NoQuery = NoQuery
  BY DEF NoQuery, W!NoQuery, S!NoQuery
<1> QED
  BY <1>1, <1>2, <1>4, <1>5, <1>6, <1>7

-----------------------------------------------------------------------------
(* The workflow list. *)

WorkflowFields ==
  {"store", "stores", "app", "defaulted", "status", "searchInput", "search", "children",
   "page", "history", "offset", "selected", "open", "initialForce", "force", "notice",
   "remembered", "paused"}

\* The page's records have their fields, and one removal is in flight at most.
WorkflowShape ==
  /\ DOMAIN w = WorkflowFields
  /\ DOMAIN wg = {"seen", "fell", "behind", "acts", "changes"} /\ wg.fell \in BOOLEAN
  /\ \A r \in wreq : DOMAIN r = {"ids", "force", "store", "fell", "done"}
  /\ \A r, other \in wreq : r = other

\* What is checked was checked in the store on screen, unless the page fell back
\* to another under the selection; so was what is being removed.
WorkflowChosen ==
  /\ ~wg.fell => \A i \in w.selected : <<w.store, i>> \in wg.seen
  /\ W!RemovalWasChosen

\* The list is fetched only for a store, and shows the server's answer unless it
\* is being fetched, something else changed it, or a removal has yet to be told.
WorkflowCaughtUp ==
  /\ QueryOK(wq)
  /\ wq.fetching => w.store # None
  /\ \/ wq.fetching
     \/ wg.behind
     \/ \E r \in wreq : r.done
     \/ Shows(wq, W!useWorkflows(w), W!Answer(wsrv.db, W!useWorkflows(w)))

WorkflowInv == WorkflowShape /\ WorkflowChosen /\ WorkflowCaughtUp

\* The list's key names the page's store.
LEMMA WorkflowKey == \A p : W!useWorkflows(p).store = p.store
  BY DEF W!useWorkflows

\* An answer is its rows and its next page.
LEMMA WorkflowAnswer ==
  ASSUME NEW db, NEW key
  PROVE  LET answer == W!Answer(db, key) IN
         [rows |-> answer.rows, next |-> answer.next] = answer
  BY DEF W!Answer

\* A step of the page that changes what it asks for starts a fetch of that.
LEMMA WorkflowPageStep ==
  ASSUME WorkflowCaughtUp, NEW p, W!Page(p), UNCHANGED <<wreq, wsrv>>, wg'.behind = wg.behind
  PROVE  WorkflowCaughtUp'
<1> DEFINE old == W!useWorkflows(w)
           new == W!useWorkflows(p)
<1>1. w' = p /\ wq' = observe(wq, old, new) /\ W!useWorkflows(w)' = new
  BY SharedOperators DEF W!Page, W!useWorkflows
<1>2. old.store = w.store /\ new.store = p.store
  BY WorkflowKey
<1>3. CASE old = new
  <2>1. wq' = wq /\ p.store = w.store
    BY <1>1, <1>2, <1>3 DEF observe
  <2> HIDE DEF old, new
  <2> QED
    BY <1>1, <1>3, <2>1 DEF WorkflowCaughtUp, old
<1>4. CASE old # new
  <2>1. wq' = startFetch(wq, new)
    BY <1>1, <1>4 DEF observe
  <2> HIDE DEF new, old
  <2>2. /\ QueryOK(wq') /\ (wq'.fetching => w'.store # None)
        /\ ~wq'.fetching => ~entry(wq', new).has
    BY <1>1, <1>2, <2>1, StartFetch DEF WorkflowCaughtUp
  <2> QED
    BY <1>1, <2>2 DEF WorkflowCaughtUp, Shows
<1> QED
  BY <1>3, <1>4

\* A step that leaves the store, the filters and the server alone keeps the list.
LEMMA WorkflowStill ==
  ASSUME WorkflowCaughtUp, UNCHANGED <<wq, wsrv>>, W!useWorkflows(w)' = W!useWorkflows(w),
         wg.behind => wg'.behind, (\E r \in wreq : r.done) => \E r \in wreq' : r.done
  PROVE  WorkflowCaughtUp'
<1>1. w'.store = w.store
  BY DEF W!useWorkflows
<1> QED
  BY <1>1 DEF WorkflowCaughtUp

\* A reset of the paging drops the selection.
LEMMA ResetPaging ==
  ASSUME NEW p, DOMAIN p = WorkflowFields
  PROVE  DOMAIN W!resetPaging(p) = WorkflowFields /\ W!resetPaging(p).selected = {}
  BY DEF W!resetPaging, WorkflowFields

\* What the user sets either drops the selection or stays in the store.
LEMMA WorkflowSets ==
  ASSUME WorkflowInv, NEW p, DOMAIN p = WorkflowFields, W!UserSets(p),
         p.selected = {} \/ (p.selected = w.selected /\ p.store = w.store)
  PROVE  WorkflowInv'
<1>1. /\ W!Page(p) /\ w' = p /\ UNCHANGED <<wreq, wsrv>>
      /\ wg' = [[wg EXCEPT !.acts = @ + 1] EXCEPT !.fell = @ /\ p.selected # {}]
  BY DEF W!UserSets, W!Page, W!Acted
<1>2. /\ DOMAIN wg' = DOMAIN wg /\ wg'.seen = wg.seen /\ wg'.behind = wg.behind
      /\ wg'.fell = (wg.fell /\ p.selected # {})
  BY <1>1 DEF WorkflowInv, WorkflowShape
<1>3. WorkflowShape'
  BY <1>1, <1>2 DEF WorkflowInv, WorkflowShape
<1>4. WorkflowChosen'
  BY <1>1, <1>2 DEF WorkflowInv, WorkflowShape, WorkflowChosen, W!RemovalWasChosen
<1>5. WorkflowCaughtUp'
  BY <1>1, <1>2, WorkflowPageStep DEF WorkflowInv
<1> QED
  BY <1>3, <1>4, <1>5 DEF WorkflowInv

\* What the user checks is on screen, in the store on screen.
LEMMA WorkflowCheck ==
  ASSUME WorkflowInv, NEW sel, sel \subseteq w.selected \cup W!items, W!Check(sel)
  PROVE  WorkflowInv'
<1> DEFINE seen == wg.seen \cup {<<w.store, i>> : i \in sel \cap W!items}
<1>1. /\ w' = [w EXCEPT !.selected = sel] /\ UNCHANGED <<wq, wreq, wsrv>>
      /\ wg' = [[wg EXCEPT !.acts = @ + 1] EXCEPT !.seen = seen, !.fell = @ /\ sel # {}]
  BY DEF W!Check, W!Acted
<1> HIDE DEF seen
<1>2. /\ DOMAIN wg' = DOMAIN wg /\ wg'.seen = seen /\ wg'.behind = wg.behind
      /\ wg'.fell = (wg.fell /\ sel # {})
  BY <1>1 DEF WorkflowInv, WorkflowShape
<1>3. /\ DOMAIN w' = WorkflowFields /\ w'.selected = sel /\ w'.store = w.store
      /\ W!useWorkflows(w)' = W!useWorkflows(w)
  BY <1>1 DEF WorkflowInv, WorkflowShape, WorkflowFields, W!useWorkflows
<1>4. WorkflowShape'
  BY <1>1, <1>2, <1>3 DEF WorkflowInv, WorkflowShape
<1>5. WorkflowChosen'
  BY <1>1, <1>2, <1>3 DEF WorkflowInv, WorkflowShape, WorkflowChosen, W!RemovalWasChosen, seen
<1>6. WorkflowCaughtUp'
  BY <1>1, <1>2, <1>3, WorkflowStill DEF WorkflowInv
<1> QED
  BY <1>4, <1>5, <1>6 DEF WorkflowInv

\* The dialog's flags matter to none of this.
LEMMA WorkflowDialog ==
  ASSUME WorkflowInv, NEW p, DOMAIN p = WorkflowFields, W!Dialog(p),
         p.selected \subseteq w.selected, W!useWorkflows(p) = W!useWorkflows(w),
         wg' \in {wg, W!Acted}
  PROVE  WorkflowInv'
<1>1. w' = p /\ UNCHANGED <<wq, wreq, wsrv>> /\ W!useWorkflows(w)' = W!useWorkflows(w)
  BY DEF W!Dialog, W!useWorkflows
<1>2. /\ DOMAIN wg' = DOMAIN wg /\ wg'.seen = wg.seen /\ wg'.behind = wg.behind
      /\ wg'.fell = wg.fell
  BY DEF WorkflowInv, WorkflowShape, W!Acted
<1>3. p.store = w.store
  BY DEF W!useWorkflows
<1>4. WorkflowShape'
  BY <1>1, <1>2 DEF WorkflowInv, WorkflowShape
<1>5. WorkflowChosen'
  BY <1>1, <1>2, <1>3 DEF WorkflowInv, WorkflowChosen, W!RemovalWasChosen
<1>6. WorkflowCaughtUp'
  BY <1>1, <1>2, WorkflowStill DEF WorkflowInv
<1> QED
  BY <1>4, <1>5, <1>6 DEF WorkflowInv

\* The user's steps keep the invariant.
LEMMA WorkflowUser ==
  ASSUME WorkflowInv,
         \/ \E st \in W!ALL_STATUSES \cup {W!AnyStatus} : W!setStatus(st)
         \/ \E id \in Stores : W!onStoreChange(id)
         \/ \E app \in W!Apps \cup {W!AnyApp} : W!selectApp(app)
         \/ \E txt \in W!Searches : W!search(txt)
         \/ W!toggleChildren \/ W!prevPage \/ W!nextPage \/ W!setPaused \/ W!dismiss
  PROVE  WorkflowInv'
<1> USE DEF WorkflowFields
<1>0. DOMAIN w = WorkflowFields
  BY DEF WorkflowInv, WorkflowShape
<1>1. ASSUME NEW st, W!setStatus(st) PROVE WorkflowInv'
  BY <1>0, <1>1, ResetPaging, WorkflowSets DEF W!setStatus
<1>2. ASSUME NEW id, W!onStoreChange(id) PROVE WorkflowInv'
  BY <1>0, <1>2, ResetPaging, WorkflowSets DEF W!onStoreChange
<1>3. ASSUME NEW app, W!selectApp(app) PROVE WorkflowInv'
  BY <1>0, <1>3, ResetPaging, WorkflowSets DEF W!selectApp
<1>4. ASSUME NEW txt, W!search(txt) PROVE WorkflowInv'
  BY <1>0, <1>4, ResetPaging, WorkflowSets DEF W!search
<1>5. ASSUME W!toggleChildren PROVE WorkflowInv'
  BY <1>0, <1>5, ResetPaging, WorkflowSets DEF W!toggleChildren
<1>6. ASSUME W!prevPage PROVE WorkflowInv'
  BY <1>0, <1>6, WorkflowSets DEF W!prevPage
<1>7. ASSUME W!nextPage PROVE WorkflowInv'
  BY <1>0, <1>7, WorkflowSets DEF W!nextPage
<1>8. ASSUME W!setPaused PROVE WorkflowInv'
  BY <1>0, <1>8, WorkflowSets DEF W!setPaused
<1>9. ASSUME W!dismiss PROVE WorkflowInv'
  BY <1>0, <1>9, WorkflowSets DEF W!dismiss
<1> QED
  BY <1>1, <1>2, <1>3, <1>4, <1>5, <1>6, <1>7, <1>8, <1>9

\* Checking rows and using the dialog keep the invariant.
LEMMA WorkflowSelects ==
  ASSUME WorkflowInv,
         \/ \E i \in W!Keys : W!toggleRow(i)
         \/ W!toggleAll
         \/ \E f \in BOOLEAN : W!bulkRemove(f)
         \/ W!setForce \/ W!cancelRemove
  PROVE  WorkflowInv'
<1>0. DOMAIN w = WorkflowFields
  BY DEF WorkflowInv, WorkflowShape
<1>1. ASSUME NEW i, W!toggleRow(i) PROVE WorkflowInv'
  BY <1>1, WorkflowCheck DEF W!toggleRow
<1>2. ASSUME W!toggleAll PROVE WorkflowInv'
  BY <1>2, WorkflowCheck DEF W!toggleAll
<1>3. ASSUME NEW f, W!bulkRemove(f) PROVE WorkflowInv'
  <2> DEFINE p == [w EXCEPT !.notice = FALSE, !.open = TRUE, !.initialForce = f, !.force = f]
  <2>1. W!Dialog(p) /\ wg' = W!Acted
    BY <1>3 DEF W!bulkRemove
  <2>2. /\ DOMAIN p = WorkflowFields /\ p.selected = w.selected
        /\ W!useWorkflows(p) = W!useWorkflows(w)
    BY <1>0 DEF WorkflowFields, W!useWorkflows
  <2> HIDE DEF p
  <2> QED
    BY <2>1, <2>2, WorkflowDialog
<1>4. ASSUME W!setForce PROVE WorkflowInv'
  <2> DEFINE p == [w EXCEPT !.force = ~@]
  <2>1. W!Dialog(p) /\ wg' = W!Acted
    BY <1>4 DEF W!setForce
  <2>2. /\ DOMAIN p = WorkflowFields /\ p.selected = w.selected
        /\ W!useWorkflows(p) = W!useWorkflows(w)
    BY <1>0 DEF WorkflowFields, W!useWorkflows
  <2> HIDE DEF p
  <2> QED
    BY <2>1, <2>2, WorkflowDialog
<1>5. ASSUME W!cancelRemove PROVE WorkflowInv'
  <2> DEFINE p == [w EXCEPT !.open = FALSE]
  <2>1. W!Dialog(p) /\ wg' = wg
    BY <1>5 DEF W!cancelRemove
  <2>2. /\ DOMAIN p = WorkflowFields /\ p.selected = w.selected
        /\ W!useWorkflows(p) = W!useWorkflows(w)
    BY <1>0 DEF WorkflowFields, W!useWorkflows
  <2> HIDE DEF p
  <2> QED
    BY <2>1, <2>2, WorkflowDialog
<1> QED
  BY <1>1, <1>2, <1>3, <1>4, <1>5

\* The removal keeps the invariant: its answer asks for the list again.
LEMMA WorkflowRemoves ==
  ASSUME WorkflowInv,
         \/ W!onConfirmRemove
         \/ \E r \in wreq : W!Purge(r) \/ W!Removed(r) \/ W!RemoveFailed(r)
  PROVE  WorkflowInv'
<1> DEFINE key == W!useWorkflows(w)
<1>0. DOMAIN w = WorkflowFields /\ QueryOK(wq) /\ key.store = w.store
  BY WorkflowKey DEF WorkflowInv, WorkflowShape, WorkflowCaughtUp
<1>1. ASSUME W!onConfirmRemove PROVE WorkflowInv'
  <2>1. /\ wreq = {} /\ UNCHANGED <<w, wq, wsrv, wg>>
        /\ wreq' = {[ids |-> w.selected, force |-> w.force, store |-> w.store,
                     fell |-> wg.fell, done |-> FALSE]}
    BY <1>1 DEF W!onConfirmRemove, W!InDialog
  <2>2. W!useWorkflows(w)' = key
    BY <2>1 DEF W!useWorkflows
  <2>3. WorkflowCaughtUp'
    BY <2>1, <2>2, WorkflowStill DEF WorkflowInv
  <2> QED
    BY <2>1, <2>3 DEF WorkflowInv, WorkflowShape, WorkflowChosen, W!RemovalWasChosen
<1>2. ASSUME NEW r \in wreq, W!Purge(r) PROVE WorkflowInv'
  <2> DEFINE new == [r EXCEPT !.done = TRUE]
  <2>1. wreq' = {new} /\ UNCHANGED <<w, wq, wg>>
    BY <1>2 DEF W!Purge
  <2>2. /\ DOMAIN new = DOMAIN r /\ new.done /\ new.ids = r.ids
        /\ new.store = r.store /\ new.fell = r.fell
    BY DEF WorkflowInv, WorkflowShape
  <2> HIDE DEF new
  <2> QED
    BY <2>1, <2>2 DEF WorkflowInv, WorkflowShape, WorkflowChosen, WorkflowCaughtUp,
                    W!RemovalWasChosen
<1>3. ASSUME NEW r \in wreq, W!Removed(r) PROVE WorkflowInv'
  <2>1. /\ w' = [w EXCEPT !.notice = TRUE, !.selected = {}, !.open = FALSE]
        /\ wq' = startFetch(wq, key) /\ wreq' = {} /\ UNCHANGED <<wsrv, wg>>
    BY <1>3, SharedOperators DEF W!Removed
  <2>2. /\ DOMAIN w' = WorkflowFields /\ w'.selected = {} /\ w'.store = w.store
        /\ W!useWorkflows(w)' = key
    BY <1>0, <2>1 DEF WorkflowFields, W!useWorkflows
  <2> HIDE DEF key
  <2>3. WorkflowCaughtUp'
    BY <1>0, <2>1, <2>2, StartFetch DEF WorkflowCaughtUp, Shows
  <2> QED
    BY <2>1, <2>2, <2>3 DEF WorkflowInv, WorkflowShape, WorkflowChosen, W!RemovalWasChosen
<1>4. ASSUME NEW r \in wreq, W!RemoveFailed(r) PROVE WorkflowInv'
  <2>1. /\ w' = [w EXCEPT !.open = FALSE] /\ wreq' = {} /\ UNCHANGED <<wq, wsrv>>
        /\ wg' = [wg EXCEPT !.behind = @ \/ r.done]
    BY <1>4 DEF W!RemoveFailed
  <2>2. /\ DOMAIN w' = WorkflowFields /\ w'.selected = w.selected /\ w'.store = w.store
        /\ W!useWorkflows(w)' = key
    BY <1>0, <2>1 DEF WorkflowFields, W!useWorkflows
  <2>3. /\ DOMAIN wg' = DOMAIN wg /\ wg'.seen = wg.seen /\ wg'.fell = wg.fell
        /\ wg'.behind = (wg.behind \/ r.done)
    BY <2>1 DEF WorkflowInv, WorkflowShape
  <2> HIDE DEF key
  <2>4. WorkflowCaughtUp'
    BY <2>1, <2>2, <2>3 DEF WorkflowInv, WorkflowShape, WorkflowCaughtUp, key
  <2> QED
    BY <2>1, <2>2, <2>3, <2>4 DEF WorkflowInv, WorkflowShape, WorkflowChosen, W!RemovalWasChosen
<1> QED
  BY <1>1, <1>2, <1>3, <1>4

\* What arrives on its own keeps the invariant.
LEMMA WorkflowArrives ==
  ASSUME WorkflowInv,
         W!StoresLand \/ W!DefaultApp \/ W!Debounce \/ W!ListLands \/ W!ListFails \/ W!Poll
  PROVE  WorkflowInv'
<1> DEFINE key == W!useWorkflows(w)
<1>0. /\ DOMAIN w = WorkflowFields /\ QueryOK(wq) /\ key.store = w.store
      /\ wq.fetching => w.store # None
      /\ WorkflowShape /\ WorkflowChosen /\ WorkflowCaughtUp
  BY WorkflowKey DEF WorkflowInv, WorkflowShape, WorkflowCaughtUp
<1>1. ASSUME W!StoresLand PROVE WorkflowInv'
  <2> DEFINE id == W!resolveStore(w.store, wsrv.stores, w.remembered)
             force == IF wsrv.stores.ids = <<>> THEN w.initialForce ELSE w.force
             p == [w EXCEPT !.stores = wsrv.stores, !.store = id, !.force = force]
  <2>1. /\ W!Page(p) /\ UNCHANGED <<wreq, wsrv>>
        /\ wg' = [wg EXCEPT !.fell = @ \/ (id # w.store /\ w.selected # {})]
    BY <1>1 DEF W!StoresLand
  <2> HIDE DEF id, force
  <2>2. DOMAIN p = WorkflowFields /\ p.selected = w.selected /\ p.store = id
    BY <1>0 DEF WorkflowFields
  <2>3. /\ DOMAIN wg' = DOMAIN wg /\ wg'.seen = wg.seen /\ wg'.behind = wg.behind
        /\ wg'.fell = (wg.fell \/ (id # w.store /\ w.selected # {}))
    BY <1>0, <2>1 DEF WorkflowShape
  <2> HIDE DEF p
  <2>4. w' = p
    BY <2>1 DEF W!Page
  <2>5. WorkflowCaughtUp'
    BY <1>0, <2>1, <2>3, WorkflowPageStep
  <2>6. WorkflowShape'
    BY <1>0, <2>1, <2>2, <2>3, <2>4 DEF WorkflowShape
  <2>7. WorkflowChosen'
    BY <1>0, <2>1, <2>2, <2>3, <2>4 DEF WorkflowChosen, WorkflowShape, W!RemovalWasChosen
  <2> QED
    BY <2>5, <2>6, <2>7 DEF WorkflowInv
<1>2. ASSUME NEW p, W!Page(p), UNCHANGED <<wreq, wsrv, wg>>, DOMAIN p = WorkflowFields,
             p.selected = w.selected, p.store = w.store
      PROVE  WorkflowInv'
  <2>1. w' = p
    BY <1>2 DEF W!Page
  <2>2. WorkflowCaughtUp'
    BY <1>0, <1>2, WorkflowPageStep
  <2> QED
    BY <1>0, <1>2, <2>1, <2>2 DEF WorkflowInv, WorkflowShape, WorkflowChosen, W!RemovalWasChosen
<1>3. ASSUME W!DefaultApp PROVE WorkflowInv'
  <2> DEFINE app == LoadedBy[W!activeStore(w.stores)]
             chosen == IF app # None /\ app \in W!appIds(w.store) THEN app ELSE w.app
             p == [w EXCEPT !.defaulted = TRUE, !.app = chosen]
  <2>1. W!Page(p) /\ UNCHANGED <<wreq, wsrv, wg>>
    BY <1>3 DEF W!DefaultApp
  <2> HIDE DEF chosen
  <2>2. DOMAIN p = WorkflowFields /\ p.selected = w.selected /\ p.store = w.store
    BY <1>0 DEF WorkflowFields
  <2> HIDE DEF p
  <2> QED
    BY <1>2, <2>1, <2>2
<1>4. ASSUME W!Debounce PROVE WorkflowInv'
  <2> DEFINE p == [w EXCEPT !.search = w.searchInput]
  <2>1. W!Page(p) /\ UNCHANGED <<wreq, wsrv, wg>>
    BY <1>4 DEF W!Debounce
  <2>2. DOMAIN p = WorkflowFields /\ p.selected = w.selected /\ p.store = w.store
    BY <1>0 DEF WorkflowFields
  <2> HIDE DEF p
  <2> QED
    BY <1>2, <2>1, <2>2
<1>5. ASSUME NEW changes, NEW behind, UNCHANGED <<w, wreq, wsrv>>, WorkflowCaughtUp',
             wg' = [wg EXCEPT !.changes = changes, !.behind = behind]
      PROVE  WorkflowInv'
  <2>1. DOMAIN wg' = DOMAIN wg /\ wg'.seen = wg.seen /\ wg'.fell = wg.fell
    BY <1>0, <1>5 DEF WorkflowShape
  <2> QED
    BY <1>0, <1>5, <2>1 DEF WorkflowInv, WorkflowShape, WorkflowChosen, W!RemovalWasChosen
<1>6. ASSUME W!ListLands PROVE WorkflowInv'
  <2> DEFINE answer == W!Answer(wsrv.db, key)
  <2>1. /\ wq.fetching /\ wq' = land(wq, key, answer) /\ UNCHANGED <<w, wreq, wsrv>>
        /\ wg' = [wg EXCEPT !.behind = FALSE]
    BY <1>6, SharedOperators DEF W!ListLands
  <2>2. [rows |-> answer.rows, next |-> answer.next] = answer
    BY WorkflowAnswer
  <2>3. W!useWorkflows(w)' = key /\ W!Answer(wsrv.db, W!useWorkflows(w))' = answer
    BY <2>1 DEF W!useWorkflows, W!Answer
  <2> HIDE DEF key, answer
  <2>4. QueryOK(wq') /\ ~wq'.fetching /\ Shows(wq', key, answer)
    BY <1>0, <2>1, <2>2, Land
  <2>5. WorkflowCaughtUp'
    BY <2>3, <2>4 DEF WorkflowCaughtUp
  <2>6. wg' = [wg EXCEPT !.changes = wg.changes, !.behind = FALSE]
    BY <1>0, <2>1 DEF WorkflowShape
  <2> QED
    BY <1>5, <2>1, <2>5, <2>6
<1>7. ASSUME W!ListFails PROVE WorkflowInv'
  <2>1. /\ wq.fetching /\ wq' = fail(wq, key) /\ UNCHANGED <<w, wreq, wsrv>>
        /\ wg' = [wg EXCEPT !.changes = @ + 1]
    BY <1>7, SharedOperators DEF W!ListFails
  <2>2. W!useWorkflows(w)' = key
    BY <2>1 DEF W!useWorkflows
  <2> HIDE DEF key
  <2>3. QueryOK(wq') /\ ~wq'.fetching /\ entry(wq', key).error
    BY <1>0, <2>1, Fail
  <2>4. WorkflowCaughtUp'
    BY <2>2, <2>3 DEF WorkflowCaughtUp, Shows
  <2>5. wg' = [wg EXCEPT !.changes = wg.changes + 1, !.behind = wg.behind]
    BY <1>0, <2>1 DEF WorkflowShape
  <2> QED
    BY <1>5, <2>1, <2>4, <2>5
<1>8. ASSUME W!Poll PROVE WorkflowInv'
  <2>1. wq' = startFetch(wq, key) /\ UNCHANGED <<w, wreq, wsrv, wg>>
    BY <1>8, SharedOperators DEF W!Poll
  <2>2. W!useWorkflows(w)' = key
    BY <2>1 DEF W!useWorkflows
  <2> HIDE DEF key
  <2>3. WorkflowCaughtUp'
    BY <1>0, <2>1, <2>2, StartFetch DEF WorkflowCaughtUp, Shows
  <2> QED
    BY <1>0, <2>1, <2>3 DEF WorkflowInv, WorkflowShape, WorkflowChosen, W!RemovalWasChosen
<1> QED
  BY <1>1, <1>3, <1>4, <1>6, <1>7, <1>8

\* A page just mounted has nothing selected and nothing cached.
LEMMA WorkflowMounts ==
  ASSUME NEW url, NEW remembered, NEW paused
  PROVE  LET p == W!Mount(url, remembered, paused) IN
         DOMAIN p = WorkflowFields /\ p.selected = {} /\ p.store = None
  BY DEF W!Mount, WorkflowFields

\* Loading the page again and changes at the server keep the invariant.
LEMMA WorkflowRestarts ==
  ASSUME WorkflowInv,
         \/ W!Reload
         \/ \E c \in WorkflowChurn : W!InstanceChanges(c)
         \/ \E list \in WorkflowLists : W!StoresChange(list)
  PROVE  WorkflowInv'
<1>0. WorkflowShape /\ WorkflowChosen /\ WorkflowCaughtUp
  BY DEF WorkflowInv
<1>1. ASSUME W!Reload PROVE WorkflowInv'
  <2> DEFINE behind == wg.behind \/ wreq # {}
  <2>1. /\ w' = W!Mount(W!urlOf(w), w.remembered, w.paused) /\ wq' = NoQuery /\ wreq' = {}
        /\ wg' = [[wg EXCEPT !.acts = @ + 1] EXCEPT !.seen = {}, !.fell = FALSE, !.behind = behind]
    BY <1>1, SharedOperators DEF W!Reload, W!Acted
  <2> HIDE DEF behind
  <2>2. DOMAIN wg' = DOMAIN wg /\ wg'.fell = FALSE
    BY <1>0, <2>1 DEF WorkflowShape
  <2>3. DOMAIN w' = WorkflowFields /\ w'.selected = {}
    BY <2>1, WorkflowMounts
  <2>4. WorkflowCaughtUp'
    BY <2>1, NoQueryOK DEF WorkflowCaughtUp, Shows
  <2> QED
    BY <1>0, <2>1, <2>2, <2>3, <2>4 DEF WorkflowInv, WorkflowShape, WorkflowChosen,
       W!RemovalWasChosen
<1>2. ASSUME W!Changed PROVE WorkflowInv'
  <2>1. /\ UNCHANGED <<w, wq, wreq>>
        /\ wg' = [wg EXCEPT !.changes = @ + 1, !.behind = TRUE]
    BY <1>2 DEF W!Changed
  <2>2. /\ DOMAIN wg' = DOMAIN wg /\ wg'.seen = wg.seen /\ wg'.fell = wg.fell
        /\ wg'.behind
    BY <1>0, <2>1 DEF WorkflowShape
  <2> QED
    BY <1>0, <2>1, <2>2 DEF WorkflowInv, WorkflowShape, WorkflowChosen, WorkflowCaughtUp,
       W!RemovalWasChosen
<1> QED
  BY <1>1, <1>2 DEF W!InstanceChanges, W!StoresChange

\* Every step of the workflow page keeps its invariant.
LEMMA WorkflowStep ==
  ASSUME WorkflowInv, W!WNext
  PROVE  WorkflowInv'
  BY WorkflowUser, WorkflowSelects, WorkflowRemoves, WorkflowArrives, WorkflowRestarts
     DEF W!WNext

\* The page mounts with the invariant.
LEMMA WorkflowInit ==
  ASSUME W!WInit(WorkflowDb, FirstList)
  PROVE  WorkflowInv
<1>1. /\ w = W!Mount(W!FrontPage, None, FALSE) /\ wq = NoQuery /\ wreq = {}
      /\ wg = [seen |-> {}, fell |-> FALSE, behind |-> FALSE, acts |-> 0, changes |-> 0]
  BY SharedOperators DEF W!WInit
<1>2. DOMAIN w = WorkflowFields /\ w.selected = {}
  BY <1>1, WorkflowMounts
<1>3. WorkflowCaughtUp
  BY <1>1, NoQueryOK DEF WorkflowCaughtUp, Shows
<1> QED
  BY <1>1, <1>2, <1>3 DEF WorkflowInv, WorkflowShape, WorkflowChosen, W!RemovalWasChosen

\* What the page promises follows.
LEMMA WorkflowPromise == WorkflowInv => W!RemovalWasChosen /\ W!ListCatchesUp
  BY SharedOperators DEF WorkflowInv, WorkflowChosen, WorkflowCaughtUp, Shows,
     W!ListCatchesUp, W!current, W!isError

-----------------------------------------------------------------------------
(* The state page. *)

StateFields ==
  {"store", "stores", "app", "searchInput", "search", "internal", "decode", "page", "history",
   "offset", "panel", "selected", "open", "form", "notice", "latest", "remembered"}
PanelFields == {"key", "value", "fetching"}

\* A table of every record for each identity.
Tables(db) == db = [x \in DOMAIN db |-> [key \in S!Keys |-> db[x][key]]]

RequestOK(r) == /\ r.kind \in {"delete", "write"}
                /\ {"n", "kind", "keys", "store", "answer"} \subseteq DOMAIN r
                /\ r.kind = "delete" => "fell" \in DOMAIN r

\* The page's records have their fields, and the server has its tables.
StateShape ==
  /\ DOMAIN s = StateFields /\ DOMAIN s.panel = PanelFields
  /\ DOMAIN sg = {"seen", "fell", "behind", "panelBehind", "acts", "changes", "sent"}
  /\ sg.fell \in BOOLEAN
  /\ \A r \in sreqs : RequestOK(r)
  /\ DOMAIN ssrv = {"stores", "db"}
  /\ Tables(ssrv.db)

\* What is checked was checked in the store on screen, unless the page fell back
\* to another under the selection; so was what is being deleted.
StateChosen ==
  /\ ~sg.fell => \A i \in s.selected : <<s.store, i>> \in sg.seen
  /\ S!RemovalWasChosen

\* A change the server made and the page has yet to be told of.
Untold == \E r \in sreqs : r.answer = "ok"

\* The list shows the server's answer, and the open row its value, unless they are
\* being fetched, something else changed them, or a change has yet to be told.
RecordsCaughtUp ==
  /\ QueryOK(sq)
  /\ sq.fetching => s.store # None
  /\ \/ sq.fetching
     \/ sg.behind
     \/ Untold
     \/ Shows(sq, S!useStateRecords(s), S!Answer(ssrv.db, S!useStateRecords(s)))

PanelCaughtUp ==
  \/ s.panel.key = None
  \/ s.panel.fetching
  \/ sg.panelBehind
  \/ Untold
  \/ s.panel.value = ssrv.db[Identity[s.store]][s.panel.key]

StateInv == StateShape /\ StateChosen /\ RecordsCaughtUp /\ PanelCaughtUp

\* The list's key names the page's store.
LEMMA StateKey == \A p : S!useStateRecords(p).store = p.store
  BY DEF S!useStateRecords

\* An answer is its rows and its next page.
LEMMA StateAnswer ==
  ASSUME NEW db, NEW key
  PROVE  LET answer == S!Answer(db, key) IN
         [rows |-> answer.rows, next |-> answer.next] = answer
  BY DEF S!Answer, S!ServerPage

\* A panel that leaves the screen or its store is fetched anew; another stays.
LEMMA PanelKept ==
  ASSUME NEW p, NEW q, DOMAIN p.panel = PanelFields
  PROVE  LET new == S!Panel(p, q) IN
         /\ DOMAIN new = PanelFields /\ new.key = p.panel.key
         /\ \/ new = p.panel /\ (p.panel.key = None \/ p.store = s.store)
            \/ new.fetching
  BY DEF S!Panel, PanelFields

\* A step of the page that changes what it asks for starts a fetch of that.
LEMMA StatePageStep ==
  ASSUME StateInv, NEW p, S!Page(p), UNCHANGED <<sreqs, ssrv>>,
         DOMAIN p = StateFields, DOMAIN p.panel = PanelFields,
         p.panel = s.panel \/ p.panel.key = None \/ p.panel.fetching,
         sg'.behind = sg.behind, sg'.panelBehind = sg.panelBehind
  PROVE  /\ RecordsCaughtUp' /\ PanelCaughtUp'
         /\ DOMAIN s' = StateFields /\ DOMAIN s'.panel = PanelFields
         /\ s'.selected = p.selected /\ s'.store = p.store
<1> DEFINE old == S!useStateRecords(s)
           new == S!useStateRecords(p)
           panel == S!Panel(p, observe(sq, old, new))
<1>1. s' = [p EXCEPT !.panel = panel] /\ sq' = observe(sq, old, new)
  BY SharedOperators DEF S!Page
<1>2. /\ DOMAIN panel = PanelFields /\ panel.key = p.panel.key
      /\ \/ panel = p.panel /\ (p.panel.key = None \/ p.store = s.store)
         \/ panel.fetching
  BY PanelKept
<1> HIDE DEF panel
<1>3. /\ DOMAIN s' = StateFields /\ s'.panel = panel
      /\ s'.selected = p.selected /\ s'.store = p.store /\ S!useStateRecords(s)' = new
  BY <1>1 DEF StateFields, S!useStateRecords
<1>4. old.store = s.store /\ new.store = p.store
  BY StateKey
<1>5. PanelCaughtUp'
  BY <1>2, <1>3 DEF StateInv, PanelCaughtUp, Untold
<1>6. RecordsCaughtUp'
  <2>1. CASE old = new
    <3>1. sq' = sq /\ p.store = s.store
      BY <1>1, <1>4, <2>1 DEF observe
    <3> HIDE DEF old, new
    <3> QED
      BY <1>3, <2>1, <3>1 DEF StateInv, RecordsCaughtUp, Untold, old
  <2>2. CASE old # new
    <3>1. sq' = startFetch(sq, new)
      BY <1>1, <2>2 DEF observe
    <3> HIDE DEF new, old
    <3>2. /\ QueryOK(sq') /\ (sq'.fetching => s'.store # None)
          /\ ~sq'.fetching => ~entry(sq', new).has
      BY <1>3, <1>4, <3>1, StartFetch DEF StateInv, RecordsCaughtUp
    <3> QED
      BY <1>3, <3>2 DEF RecordsCaughtUp, Shows
  <2> QED
    BY <2>1, <2>2
<1> QED
  BY <1>2, <1>3, <1>5, <1>6

\* A step that leaves the store, the filters, the panel and the server alone keeps
\* the list and the panel.
LEMMA StateStill ==
  ASSUME StateInv, UNCHANGED <<sq, ssrv>>, S!useStateRecords(s)' = S!useStateRecords(s),
         s'.panel = s.panel, sg.behind => sg'.behind, sg.panelBehind => sg'.panelBehind,
         Untold => Untold' \/ (sg'.behind /\ sg'.panelBehind)
  PROVE  RecordsCaughtUp' /\ PanelCaughtUp'
<1>1. s'.store = s.store
  BY DEF S!useStateRecords
<1>2. RecordsCaughtUp'
  BY <1>1 DEF StateInv, RecordsCaughtUp
<1> QED
  BY <1>1, <1>2 DEF StateInv, PanelCaughtUp

\* Replacing a table by a table leaves tables, and by itself changes nothing.
LEMMA TablePut ==
  ASSUME NEW db, Tables(db), NEW at, NEW table, table = [key \in S!Keys |-> table[key]]
  PROVE  /\ Tables([db EXCEPT ![at] = table])
         /\ (\A key \in S!Keys : table[key] = db[at][key]) => [db EXCEPT ![at] = table] = db
<1> DEFINE new == [db EXCEPT ![at] = table]
<1>1. /\ new = [x \in DOMAIN db |-> IF x = at THEN table ELSE db[x]]
      /\ DOMAIN new = DOMAIN db
  OBVIOUS
<1>2. \A x \in DOMAIN db : db[x] = [key \in S!Keys |-> db[x][key]]
  BY DEF Tables
<1> HIDE DEF new
<1>3. \A x \in DOMAIN new : new[x] = [key \in S!Keys |-> new[x][key]]
  BY <1>1, <1>2
<1>4. Tables(new)
  BY <1>1, <1>3 DEF Tables
<1>5. ASSUME \A key \in S!Keys : table[key] = db[at][key] PROVE new = db
  <2>1. at \in DOMAIN db => table = db[at]
    BY <1>2, <1>5
  <2>2. \A x \in DOMAIN db : new[x] = db[x]
    BY <1>1, <2>1
  <2>3. new = [x \in DOMAIN db |-> db[x]]
    BY <1>1, <2>2
  <2>4. db = [x \in DOMAIN db |-> db[x]]
    BY DEF Tables
  <2> QED
    BY <2>3, <2>4
<1> QED
  BY <1>4, <1>5 DEF new

\* A reset of the paging drops the selection and closes the panel.
LEMMA StateResetPaging ==
  ASSUME NEW p, DOMAIN p = StateFields
  PROVE  LET new == S!resetPaging(p) IN
         /\ DOMAIN new = StateFields /\ DOMAIN new.panel = PanelFields
         /\ new.selected = {} /\ new.panel.key = None
  BY DEF S!resetPaging, S!NoPanel, StateFields, PanelFields

\* What the user sets either drops the selection or stays in the store.
LEMMA StateSets ==
  ASSUME StateInv, NEW p, S!UserSets(p),
         DOMAIN p = StateFields, DOMAIN p.panel = PanelFields,
         p.panel = s.panel \/ p.panel.key = None \/ p.panel.fetching,
         p.selected = {} \/ (p.selected = s.selected /\ p.store = s.store)
  PROVE  StateInv'
<1>1. /\ S!Page(p) /\ UNCHANGED <<sreqs, ssrv>>
      /\ sg' = [[sg EXCEPT !.acts = @ + 1] EXCEPT !.fell = @ /\ p.selected # {}]
  BY DEF S!UserSets, S!Acted
<1>2. /\ DOMAIN sg' = DOMAIN sg /\ sg'.seen = sg.seen /\ sg'.behind = sg.behind
      /\ sg'.panelBehind = sg.panelBehind /\ sg'.fell = (sg.fell /\ p.selected # {})
  BY <1>1 DEF StateInv, StateShape
<1>3. /\ RecordsCaughtUp' /\ PanelCaughtUp'
      /\ DOMAIN s' = StateFields /\ DOMAIN s'.panel = PanelFields
      /\ s'.selected = p.selected /\ s'.store = p.store
  BY <1>1, <1>2, StatePageStep
<1>4. StateShape'
  BY <1>1, <1>2, <1>3 DEF StateInv, StateShape
<1>5. StateChosen'
  BY <1>1, <1>2, <1>3 DEF StateInv, StateShape, StateChosen, S!RemovalWasChosen
<1> QED
  BY <1>3, <1>4, <1>5 DEF StateInv

\* What the user checks is on screen, in the store on screen.
LEMMA StateCheck ==
  ASSUME StateInv, NEW sel, sel \subseteq s.selected \cup S!items, S!Check(sel)
  PROVE  StateInv'
<1> DEFINE seen == sg.seen \cup {<<s.store, i>> : i \in sel \cap S!items}
<1>1. /\ s' = [s EXCEPT !.selected = sel] /\ UNCHANGED <<sq, sreqs, ssrv>>
      /\ sg' = [[sg EXCEPT !.acts = @ + 1] EXCEPT !.seen = seen, !.fell = @ /\ sel # {}]
  BY DEF S!Check, S!Acted
<1> HIDE DEF seen
<1>2. /\ DOMAIN sg' = DOMAIN sg /\ sg'.seen = seen /\ sg'.behind = sg.behind
      /\ sg'.panelBehind = sg.panelBehind /\ sg'.fell = (sg.fell /\ sel # {})
  BY <1>1 DEF StateInv, StateShape
<1>3. /\ DOMAIN s' = StateFields /\ s'.selected = sel /\ s'.store = s.store
      /\ s'.panel = s.panel /\ S!useStateRecords(s)' = S!useStateRecords(s)
  BY <1>1 DEF StateInv, StateShape, StateFields, S!useStateRecords
<1>4. StateShape'
  BY <1>1, <1>2, <1>3 DEF StateInv, StateShape
<1>5. StateChosen'
  BY <1>1, <1>2, <1>3 DEF StateInv, StateShape, StateChosen, S!RemovalWasChosen, seen
<1>6. RecordsCaughtUp' /\ PanelCaughtUp'
  BY <1>1, <1>2, <1>3, StateStill DEF Untold
<1> QED
  BY <1>4, <1>5, <1>6 DEF StateInv

\* The user's steps keep the invariant.
LEMMA StateUser ==
  ASSUME StateInv,
         \/ \E id \in Stores : S!onStoreChange(id)
         \/ \E app \in S!Apps \cup {S!AnyApp} : S!selectApp(app)
         \/ \E txt \in S!Searches : S!search(txt)
         \/ S!toggleInternal \/ S!toggleDecode
         \/ \E r \in S!Keys : S!toggleRow(r)
         \/ S!toggleAll
         \/ \E r \in S!Keys : S!expandRow(r)
         \/ S!prevPage \/ S!nextPage \/ S!dismiss
  PROVE  StateInv'
<1> USE DEF StateFields
<1>0. DOMAIN s = StateFields /\ DOMAIN s.panel = PanelFields
  BY DEF StateInv, StateShape
<1>1. ASSUME NEW id, S!onStoreChange(id) PROVE StateInv'
  BY <1>0, <1>1, StateResetPaging, StateSets DEF S!onStoreChange
<1>2. ASSUME NEW app, S!selectApp(app) PROVE StateInv'
  BY <1>0, <1>2, StateResetPaging, StateSets DEF S!selectApp
<1>3. ASSUME NEW txt, S!search(txt) PROVE StateInv'
  BY <1>0, <1>3, StateResetPaging, StateSets DEF S!search
<1>4. ASSUME S!toggleInternal PROVE StateInv'
  BY <1>0, <1>4, StateResetPaging, StateSets DEF S!toggleInternal
<1>5. ASSUME S!toggleDecode PROVE StateInv'
  <2> DEFINE p == [s EXCEPT !.decode = ~@]
  <2>1. S!UserSets(p)
    BY <1>5 DEF S!toggleDecode
  <2>2. DOMAIN p = StateFields /\ p.panel = s.panel /\ p.selected = s.selected /\ p.store = s.store
    BY <1>0
  <2> HIDE DEF p
  <2> QED
    BY <1>0, <2>1, <2>2, StateSets
<1>6. ASSUME NEW r, S!toggleRow(r) PROVE StateInv'
  BY <1>6, StateCheck DEF S!toggleRow
<1>7. ASSUME S!toggleAll PROVE StateInv'
  BY <1>7, StateCheck DEF S!toggleAll
<1>8. ASSUME NEW r, S!expandRow(r) PROVE StateInv'
  <2> DEFINE panel == IF s.panel.key = r THEN S!NoPanel
                      ELSE [key |-> r, value |-> None, fetching |-> TRUE]
             p == [s EXCEPT !.panel = panel]
  <2>1. S!UserSets(p)
    BY <1>8 DEF S!expandRow
  <2>2. DOMAIN panel = PanelFields /\ (panel.key = None \/ panel.fetching)
    BY DEF S!NoPanel, PanelFields
  <2> HIDE DEF panel
  <2>3. DOMAIN p = StateFields /\ p.panel = panel /\ p.selected = s.selected /\ p.store = s.store
    BY <1>0
  <2> HIDE DEF p
  <2> QED
    BY <2>1, <2>2, <2>3, StateSets
<1>9. DOMAIN S!NoPanel = PanelFields /\ S!NoPanel.key = None
  BY DEF S!NoPanel, PanelFields
<1>10. ASSUME S!prevPage PROVE StateInv'
  <2> DEFINE from == S!Last(s.history)
             history == S!Front(s.history)
             p == [s EXCEPT !.page = from.token, !.offset = from.offset,
                            !.history = history, !.panel = S!NoPanel, !.selected = {}]
  <2>1. S!UserSets(p)
    BY <1>10 DEF S!prevPage
  <2> HIDE DEF from, history
  <2>2. DOMAIN p = StateFields /\ p.panel = S!NoPanel /\ p.selected = {}
    BY <1>0
  <2> HIDE DEF p
  <2> QED
    BY <1>9, <2>1, <2>2, StateSets
<1>11. ASSUME S!nextPage PROVE StateInv'
  <2> DEFINE history == Append(s.history, [token |-> s.page, offset |-> s.offset])
             p == [s EXCEPT !.history = history, !.offset = @ + S!Cardinality(S!items),
                            !.page = S!data.next, !.panel = S!NoPanel, !.selected = {}]
  <2>1. S!UserSets(p)
    BY <1>11 DEF S!nextPage
  <2> HIDE DEF history
  <2>2. DOMAIN p = StateFields /\ p.panel = S!NoPanel /\ p.selected = {}
    BY <1>0
  <2> HIDE DEF p
  <2> QED
    BY <1>9, <2>1, <2>2, StateSets
<1>12. ASSUME S!dismiss PROVE StateInv'
  <2> DEFINE p == [s EXCEPT !.notice = FALSE]
  <2>1. S!UserSets(p)
    BY <1>12 DEF S!dismiss
  <2>2. DOMAIN p = StateFields /\ p.panel = s.panel /\ p.selected = s.selected /\ p.store = s.store
    BY <1>0
  <2> HIDE DEF p
  <2> QED
    BY <1>0, <2>1, <2>2, StateSets
<1> QED
  BY <1>1, <1>2, <1>3, <1>4, <1>5, <1>6, <1>7, <1>8, <1>10, <1>11, <1>12

\* A request sent and what the dialogs hold matter to none of this, as long as a
\* delete names what is checked.
LEMMA StateDialog ==
  ASSUME StateInv, NEW p, S!Dialog(p), DOMAIN p = StateFields, p.panel = s.panel,
         p.selected = s.selected, S!useStateRecords(p) = S!useStateRecords(s),
         DOMAIN sg' = DOMAIN sg, sg'.seen = sg.seen, sg'.fell = sg.fell,
         sg'.behind = sg.behind, sg'.panelBehind = sg.panelBehind,
         sreqs \subseteq sreqs',
         \A r \in sreqs' \ sreqs :
           /\ RequestOK(r)
           /\ r.kind = "delete" => r.keys = s.selected /\ r.store = s.store /\ r.fell = sg.fell
  PROVE  StateInv'
<1>1. s' = p /\ UNCHANGED <<sq, ssrv>> /\ S!useStateRecords(s)' = S!useStateRecords(s)
  BY DEF S!Dialog, S!useStateRecords
<1>2. p.store = s.store
  BY DEF S!useStateRecords
<1>3. StateShape'
  BY <1>1 DEF StateInv, StateShape
<1>4. StateChosen'
  BY <1>1, <1>2 DEF StateInv, StateChosen, S!RemovalWasChosen
<1>5. Untold => Untold'
  BY DEF Untold
<1>6. RecordsCaughtUp' /\ PanelCaughtUp'
  BY <1>1, <1>5, StateStill
<1> QED
  BY <1>3, <1>4, <1>6 DEF StateInv

\* The user's steps in the dialogs keep the invariant.
LEMMA StateDialogs ==
  ASSUME StateInv,
         \/ S!bulkDelete \/ S!cancelDelete \/ S!onConfirmDelete \/ S!newRecord \/ S!closeForm
         \/ \E key \in S!Keys : S!editKeyPart(key)
         \/ S!setValue
         \/ \E overwrite \in BOOLEAN : S!submit(overwrite)
  PROVE  StateInv'
<1>0. /\ DOMAIN s = StateFields
      /\ DOMAIN sg = {"seen", "fell", "behind", "panelBehind", "acts", "changes", "sent"}
  BY DEF StateInv, StateShape
<1>1. ASSUME NEW p, S!Dialog(p), DOMAIN p = StateFields, p.panel = s.panel,
             p.selected = s.selected, S!useStateRecords(p) = S!useStateRecords(s),
             sg' = sg \/ sg' = S!Acted \/ sg' = [sg EXCEPT !.sent = @ + 1],
             sreqs \subseteq sreqs',
             \A r \in sreqs' \ sreqs :
               /\ RequestOK(r)
               /\ r.kind = "delete" => r.keys = s.selected /\ r.store = s.store
                                       /\ r.fell = sg.fell
      PROVE  StateInv'
  <2>1. /\ DOMAIN sg' = DOMAIN sg /\ sg'.seen = sg.seen /\ sg'.fell = sg.fell
        /\ sg'.behind = sg.behind /\ sg'.panelBehind = sg.panelBehind
    BY <1>0, <1>1 DEF S!Acted
  <2> QED
    BY <1>1, <2>1, StateDialog
<1> DEFINE Same(p) == /\ DOMAIN p = StateFields /\ p.panel = s.panel /\ p.selected = s.selected
                      /\ S!useStateRecords(p) = S!useStateRecords(s)
<1>2. ASSUME S!bulkDelete PROVE StateInv'
  <2> DEFINE p == [s EXCEPT !.notice = FALSE, !.open = TRUE]
  <2>1. S!Dialog(p) /\ sg' = S!Acted /\ sreqs' = sreqs
    BY <1>2 DEF S!bulkDelete
  <2>2. Same(p)
    BY <1>0 DEF StateFields, S!useStateRecords
  <2> HIDE DEF p
  <2> QED
    BY <1>1, <2>1, <2>2
<1>3. ASSUME S!cancelDelete PROVE StateInv'
  <2> DEFINE p == [s EXCEPT !.open = FALSE]
  <2>1. S!Dialog(p) /\ sg' = sg /\ sreqs' = sreqs
    BY <1>3 DEF S!cancelDelete
  <2>2. Same(p)
    BY <1>0 DEF StateFields, S!useStateRecords
  <2> HIDE DEF p
  <2> QED
    BY <1>1, <2>1, <2>2
<1>4. ASSUME S!onConfirmDelete PROVE StateInv'
  <2> DEFINE p == [s EXCEPT !.latest = sg.sent + 1]
             r == [n |-> sg.sent + 1, kind |-> "delete", keys |-> s.selected,
                   store |-> s.store, fell |-> sg.fell, answer |-> None]
  <2>1. S!Dialog(p) /\ sg' = [sg EXCEPT !.sent = @ + 1] /\ sreqs' = sreqs \cup {r}
    BY <1>4 DEF S!onConfirmDelete, S!Send
  <2>2. Same(p)
    BY <1>0 DEF StateFields, S!useStateRecords
  <2>3. RequestOK(r) /\ r.keys = s.selected /\ r.store = s.store /\ r.fell = sg.fell
    BY DEF RequestOK
  <2> HIDE DEF p, r
  <2> QED
    BY <1>1, <2>1, <2>2, <2>3
<1>5. ASSUME S!newRecord PROVE StateInv'
  <2> DEFINE form == [S!NoForm EXCEPT !.open = TRUE]
             p == [s EXCEPT !.form = form]
  <2>1. S!Dialog(p) /\ sg' = S!Acted /\ sreqs' = sreqs
    BY <1>5 DEF S!newRecord
  <2> HIDE DEF form
  <2>2. Same(p)
    BY <1>0 DEF StateFields, S!useStateRecords
  <2> HIDE DEF p
  <2> QED
    BY <1>1, <2>1, <2>2
<1>6. ASSUME S!closeForm PROVE StateInv'
  <2> DEFINE p == [s EXCEPT !.form.open = FALSE]
  <2>1. S!Dialog(p) /\ sg' = sg /\ sreqs' = sreqs
    BY <1>6 DEF S!closeForm
  <2>2. Same(p)
    BY <1>0 DEF StateFields, S!useStateRecords
  <2> HIDE DEF p
  <2> QED
    BY <1>1, <2>1, <2>2
<1>7. ASSUME NEW key, S!editKeyPart(key) PROVE StateInv'
  <2> DEFINE p == [s EXCEPT !.form.key = key,
                            !.form.status = IF @ \in {"conflict", "error"} THEN "idle" ELSE @]
  <2>1. S!Dialog(p) /\ sg' = S!Acted /\ sreqs' = sreqs
    BY <1>7 DEF S!editKeyPart
  <2>2. Same(p)
    BY <1>0 DEF StateFields, S!useStateRecords
  <2> HIDE DEF p
  <2> QED
    BY <1>1, <2>1, <2>2
<1>8. ASSUME S!setValue PROVE StateInv'
  <2> DEFINE p == [s EXCEPT !.form.value = ~@]
  <2>1. S!Dialog(p) /\ sg' = sg /\ sreqs' = sreqs
    BY <1>8 DEF S!setValue
  <2>2. Same(p)
    BY <1>0 DEF StateFields, S!useStateRecords
  <2> HIDE DEF p
  <2> QED
    BY <1>1, <2>1, <2>2
<1>9. ASSUME NEW overwrite, S!submit(overwrite) PROVE StateInv'
  <2> DEFINE form == [s.form EXCEPT !.req = sg.sent + 1, !.status = "pending"]
             p == [s EXCEPT !.form = form]
             r == [n |-> sg.sent + 1, kind |-> "write", keys |-> {s.form.key},
                   store |-> s.store, overwrite |-> overwrite, answer |-> None]
  <2>1. S!Dialog(p) /\ sg' = [sg EXCEPT !.sent = @ + 1] /\ sreqs' = sreqs \cup {r}
    BY <1>9 DEF S!submit, S!Send
  <2> HIDE DEF form
  <2>2. Same(p)
    BY <1>0 DEF StateFields, S!useStateRecords
  <2>3. RequestOK(r) /\ r.kind = "write"
    BY DEF RequestOK
  <2> HIDE DEF p, r
  <2> QED
    BY <1>1, <2>1, <2>2, <2>3
<1> QED
  BY <1>2, <1>3, <1>4, <1>5, <1>6, <1>7, <1>8, <1>9

\* What the page hears of an answer leaves what it shows alone.
LEMMA HeardOfIt ==
  ASSUME StateInv, NEW r, NEW status
  PROVE  LET p == S!Hears(r, status) IN
         /\ DOMAIN p = StateFields /\ p.panel = s.panel
         /\ p.selected \subseteq s.selected /\ S!useStateRecords(p) = S!useStateRecords(s)
<1>0. DOMAIN s = StateFields
  BY DEF StateInv, StateShape
<1> DEFINE heard == [s EXCEPT !.notice = TRUE, !.selected = {}, !.open = FALSE]
           closed == [s EXCEPT !.open = FALSE]
           form == [s.form EXCEPT !.status = status, !.of = <<r.store, r.keys>>]
           told == [s EXCEPT !.form = form]
<1>1. S!Hears(r, status) \in {s, heard, closed, told}
  BY DEF S!Hears
<1> HIDE DEF form
<1>2. \A p \in {s, heard, closed, told} :
         /\ DOMAIN p = StateFields /\ p.panel = s.panel
         /\ p.selected \subseteq s.selected /\ S!useStateRecords(p) = S!useStateRecords(s)
  BY <1>0 DEF StateFields, S!useStateRecords
<1> HIDE DEF heard, closed, told
<1> QED
  BY <1>1, <1>2

\* Requests and their answers keep the invariant: a success asks for everything
\* again, a refusal changed nothing.
LEMMA StateRequests ==
  ASSUME StateInv, NEW r \in sreqs,
         S!Serve(r) \/ S!Answered(r) \/ S!Conflicts(r) \/ S!RequestFails(r)
  PROVE  StateInv'
<1>0. /\ DOMAIN s = StateFields /\ StateShape /\ StateChosen /\ RecordsCaughtUp
      /\ PanelCaughtUp /\ RequestOK(r)
  BY DEF StateInv, StateShape
<1>1. ASSUME S!Serve(r) PROVE StateInv'
  <2>1. PICK ok \in SUBSET r.keys, answer \in {"ok", "conflict"} :
          /\ r.kind = "write" => ok = IF answer = "ok" THEN r.keys ELSE {}
          /\ r.kind = "delete" => answer = "ok"
          /\ ssrv' = [ssrv EXCEPT !.db[Identity[r.store]] =
                     [key \in S!Keys |-> IF key \notin ok THEN @[key]
                                     ELSE IF r.kind = "write" THEN "new" ELSE None]]
          /\ sreqs' = (sreqs \ {r}) \cup {[r EXCEPT !.answer = answer]}
    BY <1>1 DEF S!Serve
  <2>2. UNCHANGED <<s, sq, sg>>
    BY <1>1 DEF S!Serve
  <2> DEFINE at == Identity[r.store]
             table == [key \in S!Keys |-> IF key \notin ok THEN ssrv.db[at][key]
                                          ELSE IF r.kind = "write" THEN "new" ELSE None]
             db == [ssrv.db EXCEPT ![at] = table]
             new == [r EXCEPT !.answer = answer]
  <2>3. /\ DOMAIN ssrv' = {"stores", "db"} /\ ssrv' = [ssrv EXCEPT !.db = db]
        /\ ssrv'.db = db /\ ssrv'.stores = ssrv.stores
    BY <1>0, <2>1 DEF StateShape
  <2>4. /\ RequestOK(new) /\ new.answer = answer /\ new.kind = r.kind /\ new.keys = r.keys
        /\ new.store = r.store /\ (r.kind = "delete" => new.fell = r.fell)
    BY <1>0 DEF RequestOK
  <2>5. table = [key \in S!Keys |-> table[key]]
    OBVIOUS
  <2>6. answer = "conflict" => \A key \in S!Keys : table[key] = ssrv.db[at][key]
    BY <1>0, <2>1 DEF RequestOK
  <2> HIDE DEF table, new, at
  <2>7. Tables(db) /\ (answer = "conflict" => db = ssrv.db)
    BY <1>0, <2>5, <2>6, TablePut DEF StateShape
  <2> HIDE DEF db
  <2>8. StateShape'
    BY <1>0, <2>1, <2>2, <2>3, <2>4, <2>7 DEF StateShape, new
  <2>9. StateChosen'
    BY <1>0, <2>1, <2>2, <2>4 DEF StateChosen, S!RemovalWasChosen, new
  <2>10. CASE answer = "ok"
    <3>1. Untold'
      BY <2>1, <2>4, <2>10 DEF Untold, new
    <3> QED
      BY <1>0, <2>2, <2>8, <2>9, <3>1 DEF StateInv, RecordsCaughtUp, PanelCaughtUp
  <2>11. CASE answer = "conflict"
    <3>1. ssrv'.db = ssrv.db
      BY <2>3, <2>7, <2>11
    <3>2. S!useStateRecords(s)' = S!useStateRecords(s)
      BY <2>2 DEF S!useStateRecords
    <3>3. S!Answer(ssrv.db, S!useStateRecords(s))' = S!Answer(ssrv.db, S!useStateRecords(s))
      BY <3>1, <3>2
    <3>4. Untold => Untold'
      BY <1>1, <2>1, RecordsAssumption DEF Untold, S!Serve
    <3> QED
      BY <1>0, <2>2, <2>8, <2>9, <3>1, <3>2, <3>3, <3>4
         DEF StateInv, RecordsCaughtUp, PanelCaughtUp
  <2> QED
    BY <2>10, <2>11
<1>2. ASSUME S!Answered(r) PROVE StateInv'
  <2> DEFINE p == S!Hears(r, "success")
             key == S!useStateRecords(s)
  <2>1. /\ DOMAIN p = StateFields /\ p.panel = s.panel
        /\ p.selected \subseteq s.selected /\ S!useStateRecords(p) = key
    BY HeardOfIt
  <2>2. /\ sq' = startFetch(sq, S!useStateRecords(p))
        /\ s' = [p EXCEPT !.panel.fetching = p.panel.key # None]
        /\ sreqs' = sreqs \ {r} /\ UNCHANGED <<ssrv, sg>>
    BY <1>2, SharedOperators DEF S!Answered, S!invalidateKeyspace
  <2> HIDE DEF p
  <2>3. /\ DOMAIN s' = StateFields /\ s'.selected = p.selected /\ s'.store = p.store
        /\ DOMAIN s'.panel = PanelFields /\ s'.panel.key = s.panel.key
        /\ s'.panel.fetching = (s.panel.key # None)
        /\ S!useStateRecords(s)' = S!useStateRecords(p)
    BY <1>0, <2>1, <2>2 DEF StateShape, StateFields, PanelFields, S!useStateRecords
  <2>4. key.store = s.store /\ p.store = s.store
    BY <2>1, StateKey
  <2> HIDE DEF key
  <2>5. RecordsCaughtUp'
    BY <1>0, <2>1, <2>2, <2>3, <2>4, StartFetch DEF RecordsCaughtUp, Shows
  <2>6. PanelCaughtUp'
    BY <2>3 DEF PanelCaughtUp
  <2>7. StateShape'
    BY <1>0, <2>2, <2>3 DEF StateShape
  <2>8. StateChosen'
    BY <1>0, <2>1, <2>2, <2>3, <2>4 DEF StateChosen, S!RemovalWasChosen
  <2> QED
    BY <2>5, <2>6, <2>7, <2>8 DEF StateInv
<1>3. ASSUME NEW status, s' = S!Hears(r, status), sreqs' = sreqs \ {r}, UNCHANGED <<sq, ssrv>>,
             DOMAIN sg' = DOMAIN sg, sg'.seen = sg.seen, sg'.fell = sg.fell,
             sg.behind => sg'.behind, sg.panelBehind => sg'.panelBehind,
             r.answer = "ok" => sg'.behind /\ sg'.panelBehind
      PROVE  StateInv'
  <2>1. /\ DOMAIN s' = StateFields /\ s'.panel = s.panel /\ s'.selected \subseteq s.selected
        /\ S!useStateRecords(s') = S!useStateRecords(s)
    BY <1>3, HeardOfIt
  <2>2. S!useStateRecords(s)' = S!useStateRecords(s) /\ s'.store = s.store
    BY <2>1, StateKey DEF S!useStateRecords
  <2>3. StateShape'
    BY <1>0, <1>3, <2>1 DEF StateShape
  <2>4. StateChosen'
    BY <1>0, <1>3, <2>1, <2>2 DEF StateChosen, S!RemovalWasChosen
  <2>5. Untold => Untold' \/ (sg'.behind /\ sg'.panelBehind)
    BY <1>3 DEF Untold
  <2>6. RecordsCaughtUp' /\ PanelCaughtUp'
    BY <1>3, <2>1, <2>2, <2>5, StateStill
  <2> QED
    BY <2>3, <2>4, <2>6 DEF StateInv
<1>4. ASSUME S!Conflicts(r) PROVE StateInv'
  BY <1>3, <1>4 DEF S!Conflicts
<1>5. ASSUME S!RequestFails(r) PROVE StateInv'
  <2>1. /\ s' = S!Hears(r, "error") /\ sreqs' = sreqs \ {r} /\ UNCHANGED <<sq, ssrv>>
        /\ sg' = [sg EXCEPT !.behind = @ \/ r.answer = "ok",
                            !.panelBehind = @ \/ r.answer = "ok"]
    BY <1>5 DEF S!RequestFails
  <2>2. /\ DOMAIN sg' = DOMAIN sg /\ sg'.seen = sg.seen /\ sg'.fell = sg.fell
        /\ sg'.behind = (sg.behind \/ r.answer = "ok")
        /\ sg'.panelBehind = (sg.panelBehind \/ r.answer = "ok")
    BY <1>0, <2>1 DEF StateShape
  <2> QED
    BY <1>3, <2>1, <2>2
<1> QED
  BY <1>1, <1>2, <1>4, <1>5

\* What arrives on its own keeps the invariant.
LEMMA StateArrives ==
  ASSUME StateInv,
         \/ S!StoresLand \/ S!Debounce \/ S!ListLands \/ S!ListFails \/ S!Poll \/ S!PanelLands
  PROVE  StateInv'
<1> DEFINE key == S!useStateRecords(s)
<1>0. /\ DOMAIN s = StateFields /\ DOMAIN s.panel = PanelFields /\ QueryOK(sq)
      /\ key.store = s.store /\ (sq.fetching => s.store # None)
      /\ StateShape /\ StateChosen /\ RecordsCaughtUp /\ PanelCaughtUp
  BY StateKey DEF StateInv, StateShape, RecordsCaughtUp
<1>1. ASSUME S!StoresLand PROVE StateInv'
  <2> DEFINE id == S!resolveStore(s.store, ssrv.stores, s.remembered)
             form == IF ssrv.stores.ids = <<>> THEN [S!NoForm EXCEPT !.open = s.form.open]
                     ELSE s.form
             p == [s EXCEPT !.stores = ssrv.stores, !.store = id, !.form = form]
  <2>1. /\ S!Page(p) /\ UNCHANGED <<sreqs, ssrv>>
        /\ sg' = [sg EXCEPT !.fell = @ \/ (id # s.store /\ s.selected # {})]
    BY <1>1 DEF S!StoresLand
  <2> HIDE DEF id, form
  <2>2. DOMAIN p = StateFields /\ p.panel = s.panel /\ p.selected = s.selected /\ p.store = id
    BY <1>0 DEF StateFields
  <2>3. /\ DOMAIN sg' = DOMAIN sg /\ sg'.seen = sg.seen /\ sg'.behind = sg.behind
        /\ sg'.panelBehind = sg.panelBehind
        /\ sg'.fell = (sg.fell \/ (id # s.store /\ s.selected # {}))
    BY <1>0, <2>1 DEF StateShape
  <2> HIDE DEF p
  <2>4. /\ RecordsCaughtUp' /\ PanelCaughtUp'
        /\ DOMAIN s' = StateFields /\ DOMAIN s'.panel = PanelFields
        /\ s'.selected = s.selected /\ s'.store = id
    BY <1>0, <2>1, <2>2, <2>3, StatePageStep
  <2>5. StateShape'
    BY <1>0, <2>1, <2>3, <2>4 DEF StateShape
  <2>6. StateChosen'
    BY <1>0, <2>1, <2>3, <2>4 DEF StateShape, StateChosen, S!RemovalWasChosen
  <2> QED
    BY <2>4, <2>5, <2>6 DEF StateInv
<1>2. ASSUME S!Debounce PROVE StateInv'
  <2> DEFINE p == [s EXCEPT !.search = s.searchInput]
  <2>1. S!Page(p) /\ UNCHANGED <<sreqs, ssrv, sg>>
    BY <1>2 DEF S!Debounce
  <2>2. DOMAIN p = StateFields /\ p.panel = s.panel /\ p.selected = s.selected
        /\ p.store = s.store
    BY <1>0 DEF StateFields
  <2> HIDE DEF p
  <2>3. /\ RecordsCaughtUp' /\ PanelCaughtUp'
        /\ DOMAIN s' = StateFields /\ DOMAIN s'.panel = PanelFields
        /\ s'.selected = s.selected /\ s'.store = s.store
    BY <1>0, <2>1, <2>2, StatePageStep
  <2> QED
    BY <1>0, <2>1, <2>3 DEF StateInv, StateShape, StateChosen, S!RemovalWasChosen
<1>3. ASSUME NEW q, s' = [s EXCEPT !.panel = S!Panel(s, q)], UNCHANGED <<sreqs, ssrv>>,
             RecordsCaughtUp',
             DOMAIN sg' = DOMAIN sg, sg'.seen = sg.seen, sg'.fell = sg.fell,
             sg'.panelBehind = sg.panelBehind
      PROVE  StateInv'
  <2> DEFINE panel == S!Panel(s, q)
  <2>1. /\ DOMAIN panel = PanelFields /\ panel.key = s.panel.key
        /\ panel = s.panel \/ panel.fetching
    BY <1>0, PanelKept
  <2> HIDE DEF panel
  <2>2. /\ DOMAIN s' = StateFields /\ s'.panel = panel /\ s'.selected = s.selected
        /\ s'.store = s.store
    BY <1>0, <1>3 DEF StateFields, panel
  <2>3. PanelCaughtUp'
    BY <1>0, <1>3, <2>1, <2>2 DEF PanelCaughtUp, Untold
  <2> QED
    BY <1>0, <1>3, <2>1, <2>2, <2>3 DEF StateInv, StateShape, StateChosen, S!RemovalWasChosen
<1>4. ASSUME NEW panel, s' = [s EXCEPT !.panel = panel]
      PROVE  S!useStateRecords(s)' = key
  BY <1>0, <1>4 DEF StateFields, S!useStateRecords
<1>5. ASSUME S!ListLands PROVE StateInv'
  <2> DEFINE answer == S!Answer(ssrv.db, key)
             q == land(sq, key, answer)
  <2>1. /\ sq.fetching /\ sq' = q /\ UNCHANGED <<sreqs, ssrv>>
        /\ s' = [s EXCEPT !.panel = S!Panel(s, q)]
        /\ sg' = [sg EXCEPT !.behind = FALSE]
    BY <1>5, SharedOperators DEF S!ListLands
  <2>2. [rows |-> answer.rows, next |-> answer.next] = answer
    BY StateAnswer
  <2>3. S!useStateRecords(s)' = key
    BY <1>4, <2>1
  <2>4. S!Answer(ssrv.db, S!useStateRecords(s))' = answer
    BY <2>1, <2>3
  <2> HIDE DEF key, answer
  <2>5. QueryOK(sq') /\ ~sq'.fetching /\ Shows(sq', key, answer)
    BY <1>0, <2>1, <2>2, Land
  <2>6. RecordsCaughtUp'
    BY <2>3, <2>4, <2>5 DEF RecordsCaughtUp
  <2>7. /\ DOMAIN sg' = DOMAIN sg /\ sg'.seen = sg.seen /\ sg'.fell = sg.fell
        /\ sg'.panelBehind = sg.panelBehind
    BY <1>0, <2>1 DEF StateShape
  <2> HIDE DEF q
  <2> QED
    BY <1>3, <2>1, <2>6, <2>7
<1>6. ASSUME S!ListFails PROVE StateInv'
  <2> DEFINE q == fail(sq, key)
  <2>1. /\ sq.fetching /\ sq' = q /\ UNCHANGED <<sreqs, ssrv>>
        /\ s' = [s EXCEPT !.panel = S!Panel(s, q)]
        /\ sg' = [sg EXCEPT !.changes = @ + 1]
    BY <1>6, SharedOperators DEF S!ListFails
  <2>2. S!useStateRecords(s)' = key
    BY <1>4, <2>1
  <2> HIDE DEF key
  <2>3. QueryOK(sq') /\ ~sq'.fetching /\ entry(sq', key).error
    BY <1>0, <2>1, Fail
  <2>4. RecordsCaughtUp'
    BY <2>2, <2>3 DEF RecordsCaughtUp, Shows
  <2>5. /\ DOMAIN sg' = DOMAIN sg /\ sg'.seen = sg.seen /\ sg'.fell = sg.fell
        /\ sg'.panelBehind = sg.panelBehind
    BY <1>0, <2>1 DEF StateShape
  <2> HIDE DEF q
  <2> QED
    BY <1>3, <2>1, <2>4, <2>5
<1>7. ASSUME S!Poll PROVE StateInv'
  <2>1. sq' = startFetch(sq, key) /\ UNCHANGED <<s, sreqs, ssrv, sg>>
    BY <1>7, SharedOperators DEF S!Poll
  <2>2. S!useStateRecords(s)' = key
    BY <2>1 DEF S!useStateRecords
  <2> HIDE DEF key
  <2>3. RecordsCaughtUp'
    BY <1>0, <2>1, <2>2, StartFetch DEF RecordsCaughtUp, Shows
  <2> QED
    BY <1>0, <2>1, <2>3 DEF StateInv, StateShape, StateChosen, PanelCaughtUp, Untold,
       S!RemovalWasChosen
<1>8. ASSUME S!PanelLands PROVE StateInv'
  <2> DEFINE value == ssrv.db[Identity[s.store]][s.panel.key]
             panel == [s.panel EXCEPT !.value = value, !.fetching = FALSE]
  <2>1. /\ s' = [s EXCEPT !.panel = panel] /\ UNCHANGED <<sq, sreqs, ssrv>>
        /\ sg' = [sg EXCEPT !.panelBehind = FALSE]
    BY <1>8 DEF S!PanelLands
  <2>2. DOMAIN panel = PanelFields /\ panel.key = s.panel.key /\ panel.value = value
    BY <1>0 DEF PanelFields
  <2> HIDE DEF panel
  <2>3. /\ DOMAIN s' = StateFields /\ s'.panel = panel /\ s'.selected = s.selected
        /\ s'.store = s.store /\ S!useStateRecords(s)' = key
    BY <1>0, <1>4, <2>1 DEF StateFields
  <2>4. /\ DOMAIN sg' = DOMAIN sg /\ sg'.seen = sg.seen /\ sg'.fell = sg.fell
        /\ sg'.behind = sg.behind
    BY <1>0, <2>1 DEF StateShape
  <2>5. PanelCaughtUp'
    BY <2>1, <2>2, <2>3 DEF PanelCaughtUp
  <2>6. StateShape' /\ StateChosen'
    BY <1>0, <2>1, <2>2, <2>3, <2>4 DEF StateShape, StateChosen, S!RemovalWasChosen
  <2>7. RecordsCaughtUp'
    BY <1>0, <2>1, <2>3, <2>4 DEF RecordsCaughtUp, Untold
  <2> QED
    BY <2>5, <2>6, <2>7 DEF StateInv
<1> QED
  BY <1>1, <1>2, <1>5, <1>6, <1>7, <1>8

\* A page just mounted has nothing selected, opened or cached.
LEMMA StateMounts ==
  ASSUME NEW url, NEW remembered
  PROVE  LET p == S!Mount(url, remembered) IN
         /\ DOMAIN p = StateFields /\ DOMAIN p.panel = PanelFields
         /\ p.panel.key = None /\ p.selected = {}
  BY DEF S!Mount, S!NoPanel, StateFields, PanelFields

\* Loading the page again and changes at the server keep the invariant.
LEMMA StateRestarts ==
  ASSUME StateInv,
         \/ S!Reload
         \/ \E c \in RecordChurn : S!RecordChanges(c)
         \/ \E list \in StoreLists : S!StoresChange(list)
  PROVE  StateInv'
<1>0. StateShape /\ StateChosen /\ RecordsCaughtUp /\ PanelCaughtUp
  BY DEF StateInv
<1>1. ASSUME S!Reload PROVE StateInv'
  <2> DEFINE behind == sg.behind \/ sreqs # {}
  <2>1. /\ s' = S!Mount(S!urlOf(s), s.remembered) /\ sq' = NoQuery /\ sreqs' = {}
        /\ sg' = [[sg EXCEPT !.acts = @ + 1] EXCEPT !.seen = {}, !.fell = FALSE,
                                                    !.behind = behind]
        /\ UNCHANGED ssrv
    BY <1>1, SharedOperators DEF S!Reload, S!Acted
  <2> HIDE DEF behind
  <2>2. DOMAIN sg' = DOMAIN sg /\ sg'.fell = FALSE
    BY <1>0, <2>1 DEF StateShape
  <2>3. /\ DOMAIN s' = StateFields /\ DOMAIN s'.panel = PanelFields
        /\ s'.panel.key = None /\ s'.selected = {}
    BY <2>1, StateMounts
  <2>4. RecordsCaughtUp' /\ PanelCaughtUp'
    BY <2>1, <2>3, NoQueryOK DEF RecordsCaughtUp, PanelCaughtUp, Shows
  <2> QED
    BY <1>0, <2>1, <2>2, <2>3, <2>4 DEF StateInv, StateShape, StateChosen, S!RemovalWasChosen
<1>2. ASSUME S!Changed, DOMAIN ssrv' = {"stores", "db"}, Tables(ssrv'.db) PROVE StateInv'
  <2>1. /\ UNCHANGED <<s, sq, sreqs>>
        /\ sg' = [sg EXCEPT !.changes = @ + 1, !.behind = TRUE, !.panelBehind = TRUE]
    BY <1>2 DEF S!Changed
  <2>2. /\ DOMAIN sg' = DOMAIN sg /\ sg'.seen = sg.seen /\ sg'.fell = sg.fell
        /\ sg'.behind /\ sg'.panelBehind
    BY <1>0, <2>1 DEF StateShape
  <2>3. StateShape'
    BY <1>0, <1>2, <2>1, <2>2 DEF StateShape
  <2> QED
    BY <1>0, <2>1, <2>2, <2>3 DEF StateInv, StateChosen, RecordsCaughtUp, PanelCaughtUp,
       S!RemovalWasChosen
<1>3. ASSUME NEW c, S!RecordChanges(c) PROVE StateInv'
  <2> DEFINE table == [key \in S!Keys |-> IF key = c.id THEN c.to ELSE ssrv.db[c.at][key]]
             db == [ssrv.db EXCEPT ![c.at] = table]
  <2>1. S!Changed /\ ssrv' = [ssrv EXCEPT !.db[c.at][c.id] = c.to]
    BY <1>3 DEF S!RecordChanges
  <2>2. c.at \in DOMAIN ssrv.db => [ssrv.db[c.at] EXCEPT ![c.id] = c.to] = table
    <3>1. SUFFICES ASSUME c.at \in DOMAIN ssrv.db
                   PROVE  [ssrv.db[c.at] EXCEPT ![c.id] = c.to] = table
      OBVIOUS
    <3>2. ssrv.db[c.at] = [key \in S!Keys |-> ssrv.db[c.at][key]]
      BY <1>0, <3>1 DEF StateShape, Tables
    <3> QED
      BY <3>2
  <2>3. table = [key \in S!Keys |-> table[key]]
    OBVIOUS
  <2> HIDE DEF table
  <2>4. [ssrv.db EXCEPT ![c.at][c.id] = c.to] = db
    BY <2>2
  <2>5. Tables(db)
    BY <1>0, <2>3, TablePut DEF StateShape
  <2> HIDE DEF db
  <2>6. DOMAIN ssrv' = {"stores", "db"} /\ ssrv'.db = db
    BY <1>0, <2>1, <2>4 DEF StateShape
  <2> QED
    BY <1>2, <2>1, <2>5, <2>6
<1>4. ASSUME NEW list, S!StoresChange(list) PROVE StateInv'
  <2>1. S!Changed /\ DOMAIN ssrv' = {"stores", "db"} /\ ssrv'.db = ssrv.db
    BY <1>0, <1>4 DEF S!StoresChange, StateShape
  <2> QED
    BY <1>0, <1>2, <2>1 DEF StateShape
<1> QED
  BY <1>1, <1>3, <1>4

\* Every step of the state page keeps its invariant.
LEMMA StateStep ==
  ASSUME StateInv, S!SNext
  PROVE  StateInv'
  BY StateUser, StateDialogs, StateRequests, StateArrives, StateRestarts DEF S!SNext

\* The page mounts with the invariant.
LEMMA StateInit ==
  ASSUME S!SInit(RecordDb, FirstList)
  PROVE  StateInv
<1>1. /\ s = S!Mount(S!FrontPage, None) /\ sq = NoQuery /\ sreqs = {}
      /\ ssrv = [stores |-> FirstList, db |-> RecordDb]
      /\ sg = [seen |-> {}, fell |-> FALSE, behind |-> FALSE, panelBehind |-> FALSE,
               acts |-> 0, changes |-> 0, sent |-> 0]
  BY SharedOperators DEF S!SInit
<1>2. /\ DOMAIN s = StateFields /\ DOMAIN s.panel = PanelFields
      /\ s.panel.key = None /\ s.selected = {}
  BY <1>1, StateMounts
<1>3. S!Keys = Keys
  BY DEF Keys, S!Keys, Range, S!Range
<1>4. Tables(RecordDb)
  BY <1>3, RecordsAssumption DEF Tables
<1>5. StateShape
  BY <1>1, <1>2, <1>4 DEF StateShape
<1>6. RecordsCaughtUp /\ PanelCaughtUp
  BY <1>1, <1>2, NoQueryOK DEF RecordsCaughtUp, PanelCaughtUp, Shows
<1> QED
  BY <1>1, <1>2, <1>5, <1>6 DEF StateInv, StateChosen, S!RemovalWasChosen

\* What the page promises follows.
LEMMA StatePromise == StateInv => S!RemovalWasChosen /\ S!ListCatchesUp
<1> SUFFICES ASSUME StateInv PROVE S!RemovalWasChosen /\ S!ListCatchesUp
  OBVIOUS
<1>1. S!RemovalWasChosen
  BY DEF StateInv, StateChosen
<1>2. sreqs = {} => ~Untold
  BY DEF Untold
<1> QED
  BY <1>1, <1>2, SharedOperators DEF StateInv, RecordsCaughtUp, PanelCaughtUp, Shows,
     S!ListCatchesUp, S!data, S!isError

-----------------------------------------------------------------------------
(* The panel of connections. *)

\* The panel's records have their fields; a request whose list is being fetched
\* has been served.
PanelShape ==
  /\ DOMAIN k = {"stores", "fetching", "catalog", "form", "pendingDelete"}
  /\ DOMAIN kg = {"behind", "acts", "changes", "sent"}
  /\ \A r \in kreqs : {"done", "awaits"} \subseteq DOMAIN r /\ (r.awaits => r.done)

\* The panel lists the server's connections, unless they are being fetched, an
\* election or a loss came since, or a change has yet to be told.
ConnectionsCaughtUp ==
  \/ k.fetching
  \/ kg.behind
  \/ \E r \in kreqs : r.done /\ ~r.awaits
  \/ k.stores = ksrv

PanelInv == PanelShape /\ ConnectionsCaughtUp

\* The dialogs' steps change neither the list nor a request.
LEMMA PanelEnters ==
  ASSUME PanelInv, NEW p, K!Enters(p), DOMAIN p = DOMAIN k, p.stores = k.stores,
         p.fetching = k.fetching
  PROVE  PanelInv'
<1>1. k' = p /\ UNCHANGED <<kreqs, ksrv>> /\ kg' = [kg EXCEPT !.acts = @ + 1]
  BY DEF K!Enters
<1>2. DOMAIN kg' = DOMAIN kg /\ kg'.behind = kg.behind
  BY <1>1 DEF PanelInv, PanelShape
<1> QED
  BY <1>1, <1>2 DEF PanelInv, PanelShape, ConnectionsCaughtUp

\* What the user enters and sends keeps the invariant.
LEMMA PanelUser ==
  ASSUME PanelInv,
         \/ K!addConnection \/ K!setName
         \/ \E t \in StoreTypes : K!setType(t)
         \/ \E f \in K!Fields, v \in {None, k.form.type, K!Invalid} : K!setValue(f, v)
         \/ \E f \in K!Fields : K!addOptional(f)
         \/ \E f \in K!Fields : K!removeOptional(f)
         \/ K!closeForm
         \/ \E id \in Connections : K!openDeleteConfirm(id)
         \/ K!closeDeleteConfirm \/ K!handleSave \/ K!handleConfirmDelete
  PROVE  PanelInv'
<1>0. DOMAIN k = {"stores", "fetching", "catalog", "form", "pendingDelete"}
  BY DEF PanelInv, PanelShape
<1>1. ASSUME NEW form, K!Enters([k EXCEPT !.form = form]) PROVE PanelInv'
  <2> DEFINE p == [k EXCEPT !.form = form]
  <2>1. DOMAIN p = DOMAIN k /\ p.stores = k.stores /\ p.fetching = k.fetching
    BY <1>0
  <2>2. K!Enters(p)
    BY <1>1
  <2> HIDE DEF p
  <2> QED
    BY <2>1, <2>2, PanelEnters
<1>2. ASSUME NEW id, K!Enters([k EXCEPT !.pendingDelete = id]) PROVE PanelInv'
  <2> DEFINE p == [k EXCEPT !.pendingDelete = id]
  <2>1. DOMAIN p = DOMAIN k /\ p.stores = k.stores /\ p.fetching = k.fetching
    BY <1>0
  <2>2. K!Enters(p)
    BY <1>2
  <2> HIDE DEF p
  <2> QED
    BY <2>1, <2>2, PanelEnters
<1>3. ASSUME NEW kind, NEW id, NEW body, K!Send(kind, id, body) PROVE PanelInv'
  <2> DEFINE r == [kind |-> kind, id |-> id, body |-> body, n |-> kg.sent + 1,
                   done |-> FALSE, awaits |-> FALSE]
  <2>1. /\ kreqs' = kreqs \cup {r} /\ UNCHANGED <<k, ksrv>>
        /\ kg' = [kg EXCEPT !.sent = @ + 1]
    BY <1>3 DEF K!Send
  <2>2. {"done", "awaits"} \subseteq DOMAIN r /\ ~r.awaits
    OBVIOUS
  <2>3. DOMAIN kg' = DOMAIN kg /\ kg'.behind = kg.behind
    BY <2>1 DEF PanelInv, PanelShape
  <2> HIDE DEF r
  <2> QED
    BY <2>1, <2>2, <2>3 DEF PanelInv, PanelShape, ConnectionsCaughtUp
<1>4. ASSUME NEW form, K!InForm(form) PROVE PanelInv'
  BY <1>1, <1>4 DEF K!InForm
<1>5. K!addConnection => PanelInv'
  BY <1>1 DEF K!addConnection
<1>6. K!setName => PanelInv'
  BY <1>4 DEF K!setName
<1>7. ASSUME NEW t, K!setType(t) PROVE PanelInv'
  BY <1>4, <1>7 DEF K!setType
<1>8. ASSUME NEW f, NEW v, K!setValue(f, v) PROVE PanelInv'
  BY <1>4, <1>8 DEF K!setValue
<1>9. ASSUME NEW f, K!addOptional(f) \/ K!removeOptional(f) PROVE PanelInv'
  BY <1>4, <1>9 DEF K!addOptional, K!removeOptional
<1>10. K!closeForm => PanelInv'
  BY <1>4 DEF K!closeForm
<1>11. ASSUME NEW id, K!openDeleteConfirm(id) PROVE PanelInv'
  BY <1>2, <1>11 DEF K!openDeleteConfirm
<1>12. K!closeDeleteConfirm => PanelInv'
  BY <1>2 DEF K!closeDeleteConfirm
<1>13. K!handleSave \/ K!handleConfirmDelete => PanelInv'
  BY <1>3 DEF K!handleSave, K!handleConfirmDelete
<1> QED
  BY <1>5, <1>6, <1>7, <1>8, <1>9, <1>10, <1>11, <1>12, <1>13

\* Closing the dialogs of settled requests leaves the list as it is.
LEMMA PanelCloses ==
  ASSUME NEW p, DOMAIN p = {"stores", "fetching", "catalog", "form", "pendingDelete"}, NEW rs
  PROVE  LET new == K!Closed(p, rs) IN DOMAIN new = DOMAIN p /\ new.stores = p.stores
  BY DEF K!Closed

\* Requests, their answers and the list's arrival keep the invariant.
LEMMA PanelRequests ==
  ASSUME PanelInv,
         \/ \E r \in kreqs : K!Serve(r) \/ K!Answered(r) \/ K!RequestFails(r)
         \/ K!ListLands \/ K!ListFails \/ K!CatalogLands
         \/ \E id \in Connections : K!Elected(id)
  PROVE  PanelInv'
<1> DEFINE PanelFieldsOf == {"stores", "fetching", "catalog", "form", "pendingDelete"}
<1>0. /\ PanelShape /\ ConnectionsCaughtUp /\ DOMAIN k = PanelFieldsOf
      /\ DOMAIN kg = {"behind", "acts", "changes", "sent"}
  BY DEF PanelInv, PanelShape
<1>1. ASSUME NEW r \in kreqs, K!Serve(r) PROVE PanelInv'
  <2> DEFINE new == [r EXCEPT !.done = TRUE]
  <2>1. ~r.done /\ kreqs' = (kreqs \ {r}) \cup {new} /\ UNCHANGED <<k, kg>>
    BY <1>1 DEF K!Serve
  <2>2. {"done", "awaits"} \subseteq DOMAIN new /\ new.done /\ new.awaits = r.awaits
    BY <1>0 DEF PanelShape
  <2> HIDE DEF new
  <2> QED
    BY <1>0, <2>1, <2>2 DEF PanelInv, PanelShape, ConnectionsCaughtUp
<1>2. ASSUME NEW r \in kreqs, K!Answered(r) PROVE PanelInv'
  <2> DEFINE new == [r EXCEPT !.awaits = TRUE]
             p == K!Closed(k, K!Waiting)
  <2>1. /\ r.done /\ kreqs' = (kreqs \ (K!Waiting \cup {r})) \cup {new} /\ UNCHANGED kg
        /\ k' = [p EXCEPT !.fetching = TRUE]
    BY <1>2 DEF K!Answered
  <2>2. {"done", "awaits"} \subseteq DOMAIN new /\ new.done
    BY <1>0, <2>1 DEF PanelShape
  <2>3. DOMAIN p = PanelFieldsOf
    BY <1>0, PanelCloses
  <2> HIDE DEF new, p
  <2>4. DOMAIN k' = PanelFieldsOf /\ k'.fetching
    BY <2>1, <2>3
  <2> QED
    BY <1>0, <2>1, <2>2, <2>4 DEF PanelInv, PanelShape, ConnectionsCaughtUp
<1>3. ASSUME NEW r \in kreqs, K!RequestFails(r) PROVE PanelInv'
  <2>1. /\ kreqs' = kreqs \ {r} /\ UNCHANGED <<k, ksrv>>
        /\ kg' = [kg EXCEPT !.behind = @ \/ r.done]
    BY <1>3 DEF K!RequestFails
  <2>2. DOMAIN kg' = DOMAIN kg /\ kg'.behind = (kg.behind \/ r.done)
    BY <1>0, <2>1
  <2> QED
    BY <1>0, <2>1, <2>2 DEF PanelInv, PanelShape, ConnectionsCaughtUp
<1>4. ASSUME K!ListLands PROVE PanelInv'
  <2> DEFINE p == K!Closed(k, K!Waiting)
  <2>1. /\ kreqs' \subseteq kreqs /\ UNCHANGED ksrv /\ kg' = [kg EXCEPT !.behind = FALSE]
        /\ k' = [p EXCEPT !.stores = ksrv, !.fetching = FALSE]
    BY <1>4 DEF K!ListLands
  <2>2. DOMAIN p = PanelFieldsOf
    BY <1>0, PanelCloses
  <2> HIDE DEF p
  <2>3. DOMAIN k' = PanelFieldsOf /\ k'.stores = ksrv' /\ DOMAIN kg' = DOMAIN kg
    BY <1>0, <2>1, <2>2
  <2> QED
    BY <1>0, <2>1, <2>3 DEF PanelInv, PanelShape, ConnectionsCaughtUp
<1>5. ASSUME K!ListFails PROVE PanelInv'
  <2> DEFINE p == K!Closed(k, K!Waiting)
  <2>1. /\ kreqs' \subseteq kreqs /\ kg' = [kg EXCEPT !.behind = TRUE, !.changes = @ + 1]
        /\ k' = [p EXCEPT !.fetching = FALSE]
    BY <1>5 DEF K!ListFails
  <2>2. DOMAIN p = PanelFieldsOf
    BY <1>0, PanelCloses
  <2> HIDE DEF p
  <2>3. DOMAIN k' = PanelFieldsOf /\ DOMAIN kg' = DOMAIN kg /\ kg'.behind
    BY <1>0, <2>1, <2>2
  <2> QED
    BY <1>0, <2>1, <2>3 DEF PanelInv, PanelShape, ConnectionsCaughtUp
<1>6. ASSUME K!CatalogLands PROVE PanelInv'
  <2>1. k' = [k EXCEPT !.catalog = TRUE] /\ UNCHANGED <<kreqs, ksrv, kg>>
    BY <1>6 DEF K!CatalogLands
  <2>2. DOMAIN k' = DOMAIN k /\ k'.fetching = k.fetching /\ k'.stores = k.stores
    BY <1>0, <2>1
  <2> QED
    BY <1>0, <2>1, <2>2 DEF PanelInv, PanelShape, ConnectionsCaughtUp
<1>7. ASSUME NEW id, K!Elected(id) PROVE PanelInv'
  <2>1. UNCHANGED <<k, kreqs>> /\ kg' = [kg EXCEPT !.behind = TRUE, !.changes = @ + 1]
    BY <1>7 DEF K!Elected
  <2>2. DOMAIN kg' = DOMAIN kg /\ kg'.behind
    BY <1>0, <2>1
  <2> QED
    BY <1>0, <2>1, <2>2 DEF PanelInv, PanelShape, ConnectionsCaughtUp
<1> QED
  BY <1>1, <1>2, <1>3, <1>4, <1>5, <1>6, <1>7

\* Every step of the panel keeps its invariant.
LEMMA PanelStep ==
  ASSUME PanelInv, K!KNext
  PROVE  PanelInv'
  BY PanelUser, PanelRequests DEF K!KNext

\* The panel mounts with the invariant.
LEMMA PanelInit == K!KInit => PanelInv
  BY DEF K!KInit, PanelInv, PanelShape, ConnectionsCaughtUp

\* What the panel promises follows.
LEMMA PanelPromise == PanelInv => K!ListCatchesUp
  BY DEF PanelInv, ConnectionsCaughtUp, K!ListCatchesUp

-----------------------------------------------------------------------------
(* The applications pages. *)

QueriesOK(q) == DOMAIN q = {"data", "error", "fetching"} /\ DOMAIN q.data = A!QueryKeys

\* The page's records have their fields, the server lists what it may, and a
\* request that waits for fetches has been served.
AppsShape ==
  /\ DOMAIN a = {"at", "confirm", "hears"} /\ a.at \in A!QueryKeys
  /\ QueriesOK(aq)
  /\ DOMAIN ag = {"behind", "acts", "changes", "sent"}
  /\ \A r \in areqs : {"done", "awaits"} \subseteq DOMAIN r /\ (r.awaits # None => r.done)
  /\ asrv \in A!Listings

\* These queries hold what the server lists there.
Right(q, at) ==
  IF at = "list" THEN q.data["list"] = asrv
  ELSE /\ at \in q.error <=> asrv[at] = None
       /\ at \notin q.error => q.data[at] = asrv[at]

\* The page shows what the server lists, unless it is being fetched, something else
\* changed it, or a request that was served has yet to be told.
AppsCaughtUp ==
  \/ \E r \in areqs : r.done /\ r.awaits = None
  \/ a.at \in ag.behind \cup aq.fetching
  \/ Right(aq, a.at)

AppsInv == AppsShape /\ AppsCaughtUp

\* A fetch that starts changes nothing for the other keys.
LEMMA AppsStartFetch ==
  ASSUME NEW q, QueriesOK(q), NEW keys
  PROVE  LET new == A!startFetch(q, keys) IN
         /\ QueriesOK(new) /\ new.data = q.data
         /\ new.fetching = q.fetching \cup keys
         /\ \A key : key \notin keys => (key \in new.error <=> key \in q.error)
  BY DEF A!startFetch, QueriesOK

\* An answer that lands is the one shown; it changes nothing for the other keys.
LEMMA AppsLand ==
  ASSUME NEW q, QueriesOK(q), NEW key \in A!QueryKeys, NEW answer
  PROVE  LET new == A!land(q, key, answer) IN
         /\ QueriesOK(new) /\ new.fetching = q.fetching \ {key}
         /\ key \in new.error <=> answer = None
         /\ answer # None => new.data[key] = answer
         /\ \A other \in A!QueryKeys \ {key} :
              new.data[other] = q.data[other] /\ (other \in new.error <=> other \in q.error)
<1> DEFINE data == [q.data EXCEPT ![key] = IF answer = None THEN @ ELSE answer]
           error == IF answer = None THEN q.error \cup {key} ELSE q.error \ {key}
           new == [q EXCEPT !.fetching = @ \ {key}, !.data = data, !.error = error]
<1>1. A!land(q, key, answer) = new
  BY DEF A!land, QueriesOK
<1>2. /\ DOMAIN data = A!QueryKeys /\ (answer # None => data[key] = answer)
      /\ \A other \in A!QueryKeys \ {key} : data[other] = q.data[other]
  BY DEF QueriesOK
<1> HIDE DEF data
<1>3. /\ DOMAIN new = {"data", "error", "fetching"} /\ new.data = data
      /\ new.error = error /\ new.fetching = q.fetching \ {key}
  BY DEF QueriesOK
<1> HIDE DEF new
<1> QED
  BY <1>1, <1>2, <1>3 DEF QueriesOK

\* What is rendered stays at its page.
LEMMA AppsRendered ==
  ASSUME NEW p, DOMAIN p = {"at", "confirm", "hears"}, NEW q
  PROVE  DOMAIN A!Rendered(p, q) = {"at", "confirm", "hears"} /\ A!Rendered(p, q).at = p.at
  BY DEF A!Rendered, A!NoPage

\* The end of fetches leaves requests that were not told alone.
LEMMA AppsOver ==
  ASSUME NEW rs, NEW keys,
         \A r \in rs : {"done", "awaits"} \subseteq DOMAIN r /\ (r.awaits # None => r.done)
  PROVE  LET new == A!Over(keys, rs) IN
         /\ \A r \in new : {"done", "awaits"} \subseteq DOMAIN r /\ (r.awaits # None => r.done)
         /\ \A r \in rs : r.awaits = None => r \in new
  BY DEF A!Over, A!Waits

\* Requests settle on the page as it was, or on the list, which is then fetched.
LEMMA AppsSettle ==
  ASSUME AppsShape, NEW q, QueriesOK(q), NEW keys, A!Settles(q, keys)
  PROVE  /\ DOMAIN a' = {"at", "confirm", "hears"} /\ QueriesOK(aq')
         /\ \/ a'.at = a.at /\ aq' = q
            \/ a'.at = "list" /\ "list" \in aq'.fetching /\ q.fetching \subseteq aq'.fetching
<1>1. CASE a' = A!NoPage("list") /\ aq' = A!startFetch(q, {"list"})
  <2>1. DOMAIN a' = {"at", "confirm", "hears"} /\ a'.at = "list"
    BY <1>1 DEF A!NoPage
  <2> QED
    BY <1>1, <2>1, AppsStartFetch
<1>2. CASE a' = A!Rendered(a, q) /\ aq' = q
  BY <1>2, AppsRendered DEF AppsShape
<1> QED
  BY <1>1, <1>2 DEF A!Settles

\* A step of the dialogs leaves the page where it is.
LEMMA AppsDialog ==
  ASSUME AppsInv, DOMAIN a' = DOMAIN a, a'.at = a.at,
         UNCHANGED <<aq, asrv>>, areqs \subseteq areqs',
         \A r \in areqs' \ areqs : {"done", "awaits"} \subseteq DOMAIN r /\ r.awaits = None,
         DOMAIN ag' = DOMAIN ag, ag'.behind = ag.behind
  PROVE  AppsInv'
<1>1. AppsShape'
  BY DEF AppsInv, AppsShape, QueriesOK, A!QueryKeys
<1>2. AppsCaughtUp'
  BY DEF AppsInv, AppsCaughtUp, Right
<1> QED
  BY <1>1, <1>2 DEF AppsInv

\* What the user does keeps the invariant: a page that is visited is fetched.
LEMMA AppsUser ==
  ASSUME AppsInv,
         \/ \E key \in AppKeys : A!openDetail(key) \/ A!askForget(key) \/ A!removeFromList(key)
         \/ A!back \/ A!askClear
         \/ \E key \in AppKeys, target \in {"app", "daprd", "all"},
               act \in {"start", "stop", "restart"} : A!runAction(key, <<target, act>>)
         \/ A!cancel \/ A!onConfirm \/ A!Reload
  PROVE  AppsInv'
<1>0. /\ DOMAIN a = {"at", "confirm", "hears"} /\ a.at \in A!QueryKeys /\ QueriesOK(aq)
      /\ DOMAIN ag = {"behind", "acts", "changes", "sent"} /\ AppsShape /\ asrv \in A!Listings
  BY DEF AppsInv, AppsShape
<1>1. ASSUME NEW key \in A!QueryKeys, A!visit(key) PROVE AppsInv'
  <2>1. /\ a' = A!NoPage(key) /\ aq' = A!startFetch(aq, {key}) /\ UNCHANGED <<areqs, asrv>>
        /\ ag' = [ag EXCEPT !.acts = @ + 1]
    BY <1>1 DEF A!visit, A!Acts
  <2>2. DOMAIN a' = {"at", "confirm", "hears"} /\ a'.at = key
    BY <2>1 DEF A!NoPage
  <2>3. QueriesOK(aq') /\ key \in aq'.fetching
    BY <1>0, <2>1, AppsStartFetch
  <2>4. DOMAIN ag' = DOMAIN ag
    BY <1>0, <2>1
  <2>5. AppsShape'
    BY <1>0, <2>1, <2>2, <2>3, <2>4 DEF AppsShape, QueriesOK, A!QueryKeys
  <2> QED
    BY <2>2, <2>3, <2>5 DEF AppsInv, AppsCaughtUp
<1>2. ASSUME NEW key \in AppKeys, A!openDetail(key) PROVE AppsInv'
  BY <1>1, <1>2 DEF A!openDetail, A!QueryKeys
<1>3. A!back => AppsInv'
  BY <1>1 DEF A!back, A!QueryKeys
<1>4. ASSUME NEW kind, NEW key, NEW what, NEW home, A!Ask(kind, key, what, home) PROVE AppsInv'
  <2> DEFINE confirm == [kind |-> kind, key |-> key, what |-> what, home |-> home]
  <2>1. /\ a' = [a EXCEPT !.confirm = confirm] /\ UNCHANGED <<aq, areqs, asrv>>
        /\ ag' = [ag EXCEPT !.acts = @ + 1]
    BY <1>4 DEF A!Ask, A!Acts
  <2> HIDE DEF confirm
  <2>2. /\ DOMAIN a' = DOMAIN a /\ a'.at = a.at
        /\ DOMAIN ag' = DOMAIN ag /\ ag'.behind = ag.behind
    BY <1>0, <2>1
  <2> QED
    BY <2>1, <2>2, AppsDialog
<1>5. A!askClear => AppsInv'
  BY <1>4 DEF A!askClear
<1>6. ASSUME NEW key, A!askForget(key) \/ A!removeFromList(key) PROVE AppsInv'
  BY <1>4, <1>6 DEF A!askForget, A!removeFromList
<1>7. ASSUME NEW key, NEW what, A!runAction(key, what) PROVE AppsInv'
  BY <1>4, <1>7 DEF A!runAction
<1>8. ASSUME A!cancel PROVE AppsInv'
  <2>1. a' = [a EXCEPT !.confirm = None] /\ UNCHANGED <<aq, areqs, asrv, ag>>
    BY <1>8 DEF A!cancel
  <2>2. DOMAIN a' = DOMAIN a /\ a'.at = a.at
    BY <1>0, <2>1
  <2> QED
    BY <2>1, <2>2, AppsDialog
<1>9. ASSUME A!onConfirm PROVE AppsInv'
  <2> DEFINE n == ag.sent + 1
             r == [n |-> n, kind |-> a.confirm.kind, key |-> a.confirm.key,
                   what |-> a.confirm.what, home |-> a.confirm.home,
                   done |-> FALSE, awaits |-> None]
  <2>1. /\ areqs' = areqs \cup {r} /\ UNCHANGED <<aq, asrv>>
        /\ a' = [a EXCEPT !.confirm = None, !.hears = @ \cup {n}]
        /\ ag' = [ag EXCEPT !.sent = @ + 1]
    BY <1>9 DEF A!onConfirm
  <2>2. {"done", "awaits"} \subseteq DOMAIN r /\ r.awaits = None
    OBVIOUS
  <2> HIDE DEF r, n
  <2>3. /\ DOMAIN a' = DOMAIN a /\ a'.at = a.at
        /\ DOMAIN ag' = DOMAIN ag /\ ag'.behind = ag.behind
    BY <1>0, <2>1
  <2>4. areqs \subseteq areqs' /\ \A q \in areqs' \ areqs : {"done", "awaits"} \subseteq DOMAIN q /\ q.awaits = None
    BY <2>1, <2>2
  <2> QED
    BY <2>1, <2>3, <2>4, AppsDialog
<1>10. ASSUME A!Reload PROVE AppsInv'
  <2> DEFINE behind == IF areqs = {} THEN ag.behind ELSE A!QueryKeys
  <2>1. /\ a' = A!NoPage(a.at) /\ areqs' = {} /\ UNCHANGED asrv
        /\ aq' = [data |-> [key \in A!QueryKeys |-> None], error |-> {},
                  fetching |-> A!ActiveKeys]
        /\ ag' = [ag EXCEPT !.acts = @ + 1, !.behind = behind]
    BY <1>10 DEF A!Reload
  <2> HIDE DEF behind
  <2>2. DOMAIN a' = {"at", "confirm", "hears"} /\ a'.at = a.at
    BY <2>1 DEF A!NoPage
  <2>3. QueriesOK(aq') /\ a.at \in aq'.fetching
    BY <2>1 DEF QueriesOK, A!ActiveKeys
  <2>4. DOMAIN ag' = DOMAIN ag
    BY <1>0, <2>1
  <2>5. AppsShape'
    BY <1>0, <2>1, <2>2, <2>3, <2>4 DEF AppsShape, QueriesOK, A!QueryKeys
  <2> QED
    BY <2>2, <2>3, <2>5 DEF AppsInv, AppsCaughtUp
<1> QED
  BY <1>2, <1>3, <1>5, <1>6, <1>7, <1>8, <1>9, <1>10

\* What the server lists stays one of its lists.
LEMMA AppsServed ==
  ASSUME AppsShape, NEW r, A!Serve(r)
  PROVE  asrv' \in A!Listings
<1>1. ASSUME NEW st \in A!States, NEW what PROVE A!Acted(st, what) \in A!States \cup {None}
  <2> DEFINE to == IF what[2] = "stop" THEN "stopped" ELSE "running"
             Half(h) == IF h \in A!Halves(what[1]) THEN to ELSE st[h]
  <2>0. st.app \in A!ProcStatus /\ st.daprd \in A!ProcStatus /\ to \in A!ProcStatus
    BY DEF A!States, A!ProcStatus
  <2> HIDE DEF to
  <2>1. Half("app") \in A!ProcStatus /\ Half("daprd") \in A!ProcStatus
    BY <2>0
  <2> HIDE DEF Half
  <2>2. [st EXCEPT !.app = Half("app"), !.daprd = Half("daprd")] \in A!States
    BY <2>1 DEF A!States
  <2>3. A!Acted(st, what) \in {None, [st EXCEPT !.app = Half("app"), !.daprd = Half("daprd")]}
    BY DEF A!Acted, Half, to
  <2> QED
    BY <2>2, <2>3
<1>2. asrv' = [key \in AppKeys |->
                CASE asrv[key] = None \/ r.key \notin {key, "list"} -> asrv[key]
                  [] r.kind = "action" /\ asrv[key] # None /\ r.key = key
                       -> A!Acted(asrv[key], r.what)
                  [] OTHER -> IF A!isStopped(asrv[key]) THEN None ELSE asrv[key]]
  BY DEF A!Serve
<1>3. \A key \in AppKeys : asrv[key] \in A!States \cup {None}
  BY DEF AppsShape, A!Listings
<1>4. \A key \in AppKeys : asrv[key] # None => A!Acted(asrv[key], r.what) \in A!States \cup {None}
  BY <1>1, <1>3
<1>5. ASSUME NEW key \in AppKeys
      PROVE  (CASE asrv[key] = None \/ r.key \notin {key, "list"} -> asrv[key]
                [] r.kind = "action" /\ asrv[key] # None /\ r.key = key
                     -> A!Acted(asrv[key], r.what)
                [] OTHER -> IF A!isStopped(asrv[key]) THEN None ELSE asrv[key])
             \in A!States \cup {None}
  BY <1>3, <1>4
<1> QED
  BY <1>2, <1>5 DEF A!Listings

\* Requests and their answers keep the invariant: a success fetches the page again.
LEMMA AppsRequests ==
  ASSUME AppsInv, NEW r \in areqs, A!Serve(r) \/ A!Answered(r) \/ A!RequestFails(r)
  PROVE  AppsInv'
<1>0. /\ DOMAIN a = {"at", "confirm", "hears"} /\ a.at \in A!QueryKeys /\ QueriesOK(aq)
      /\ DOMAIN ag = {"behind", "acts", "changes", "sent"} /\ AppsShape /\ asrv \in A!Listings
      /\ \A x \in areqs : {"done", "awaits"} \subseteq DOMAIN x /\ (x.awaits # None => x.done)
  BY DEF AppsInv, AppsShape
<1>1. ASSUME A!Serve(r) PROVE AppsInv'
  <2> DEFINE new == [r EXCEPT !.done = TRUE]
  <2>1. ~r.done /\ areqs' = (areqs \ {r}) \cup {new} /\ UNCHANGED <<a, aq, ag>>
    BY <1>1 DEF A!Serve
  <2>2. {"done", "awaits"} \subseteq DOMAIN new /\ new.done /\ new.awaits = r.awaits
    BY <1>0
  <2> HIDE DEF new
  <2>3. AppsShape'
    BY <1>0, <1>1, <2>1, <2>2, AppsServed DEF AppsShape, QueriesOK, A!QueryKeys
  <2>4. \E x \in areqs' : x.done /\ x.awaits = None
    BY <1>0, <2>1, <2>2
  <2> QED
    BY <2>3, <2>4 DEF AppsInv, AppsCaughtUp
<1>2. ASSUME A!Answered(r) PROVE AppsInv'
  <2> DEFINE q == A!startFetch(aq, A!ActiveKeys)
             new == [r EXCEPT !.awaits = A!ActiveKeys]
             over == A!Over(A!ActiveKeys, areqs \ {r})
  <2>1. /\ r.done /\ A!Settles(q, A!ActiveKeys) /\ areqs' = over \cup {new}
        /\ UNCHANGED <<asrv, ag>>
    BY <1>2 DEF A!Answered
  <2>2. QueriesOK(q) /\ a.at \in q.fetching
    BY <1>0, AppsStartFetch DEF A!ActiveKeys
  <2>3. {"done", "awaits"} \subseteq DOMAIN new /\ new.done
    BY <1>0, <2>1
  <2>4. \A x \in over : {"done", "awaits"} \subseteq DOMAIN x /\ (x.awaits # None => x.done)
    BY <1>0, AppsOver
  <2> HIDE DEF q, new, over
  <2>5. /\ DOMAIN a' = {"at", "confirm", "hears"} /\ QueriesOK(aq')
        /\ a'.at \in {a.at, "list"} /\ a'.at \in aq'.fetching
    BY <1>0, <2>1, <2>2, AppsSettle
  <2>6. a'.at \in A!QueryKeys
    BY <1>0, <2>5 DEF A!QueryKeys
  <2>7. AppsShape'
    BY <1>0, <2>1, <2>3, <2>4, <2>5, <2>6 DEF AppsShape, QueriesOK, A!QueryKeys
  <2> QED
    BY <2>5, <2>7 DEF AppsInv, AppsCaughtUp
<1>3. ASSUME A!RequestFails(r) PROVE AppsInv'
  <2> DEFINE behind == IF r.done THEN A!QueryKeys ELSE ag.behind
  <2>1. /\ areqs' = areqs \ {r} /\ UNCHANGED <<a, aq, asrv>>
        /\ ag' = [ag EXCEPT !.behind = behind]
    BY <1>3 DEF A!RequestFails
  <2> HIDE DEF behind
  <2>2. DOMAIN ag' = DOMAIN ag /\ ag'.behind = behind
    BY <1>0, <2>1
  <2>3. AppsShape'
    BY <1>0, <2>1, <2>2 DEF AppsShape, QueriesOK, A!QueryKeys
  <2>4. AppsCaughtUp'
    BY <1>0, <2>1, <2>2 DEF AppsInv, AppsCaughtUp, Right, behind
  <2> QED
    BY <2>3, <2>4 DEF AppsInv
<1> QED
  BY <1>1, <1>2, <1>3

\* What arrives on its own keeps the invariant.
LEMMA AppsArrives ==
  ASSUME AppsInv,
         \/ A!ListLands
         \/ \E key \in AppKeys : A!DetailLands(key)
         \/ \E key \in A!QueryKeys : A!FetchFails(key) \/ A!Poll(key)
         \/ \E c \in AppChurn : A!AppChanges(c)
  PROVE  AppsInv'
<1>0. /\ DOMAIN a = {"at", "confirm", "hears"} /\ a.at \in A!QueryKeys /\ QueriesOK(aq)
      /\ DOMAIN ag = {"behind", "acts", "changes", "sent"} /\ AppsShape /\ asrv \in A!Listings
      /\ \A x \in areqs : {"done", "awaits"} \subseteq DOMAIN x /\ (x.awaits # None => x.done)
  BY DEF AppsInv, AppsShape
<1>1. ASSUME NEW key \in A!QueryKeys, NEW answer, A!Fetched(key, answer), DOMAIN ag' = DOMAIN ag,
             \A other \in A!QueryKeys \ {key} : other \in ag.behind => other \in ag'.behind,
             \/ key \in ag'.behind
             \/ key = "list" /\ answer = asrv
             \/ key # "list" /\ answer = asrv[key]
      PROVE  AppsInv'
  <2> DEFINE q == A!land(aq, key, answer)
             over == A!Over({key}, areqs)
  <2>1. A!Settles(q, {key}) /\ areqs' = over /\ UNCHANGED asrv
    BY <1>1 DEF A!Fetched
  <2>2. /\ QueriesOK(q) /\ q.fetching = aq.fetching \ {key}
        /\ key \in q.error <=> answer = None
        /\ answer # None => q.data[key] = answer
        /\ \A other \in A!QueryKeys \ {key} :
             q.data[other] = aq.data[other] /\ (other \in q.error <=> other \in aq.error)
    BY <1>0, AppsLand
  <2>3. /\ \A x \in over : {"done", "awaits"} \subseteq DOMAIN x /\ (x.awaits # None => x.done)
        /\ \A x \in areqs : x.awaits = None => x \in over
    BY <1>0, AppsOver
  <2> HIDE DEF q, over
  <2>4. /\ DOMAIN a' = {"at", "confirm", "hears"} /\ QueriesOK(aq')
        /\ \/ a'.at = a.at /\ aq' = q
           \/ a'.at = "list" /\ "list" \in aq'.fetching
    BY <1>0, <2>1, <2>2, AppsSettle
  <2>5. AppsShape'
    BY <1>0, <1>1, <2>1, <2>3, <2>4 DEF AppsShape, QueriesOK, A!QueryKeys
  <2>6. CASE a'.at = "list" /\ "list" \in aq'.fetching
    BY <2>5, <2>6 DEF AppsInv, AppsCaughtUp
  <2>7. CASE a'.at = a.at /\ aq' = q
    <3>1. CASE a.at = key
      <4>1. key \in ag'.behind \/ Right(aq, a.at)'
        <5>1. asrv # None
          BY <1>0, AppsAssumption
        <5> QED
          BY <1>1, <2>1, <2>2, <2>7, <3>1, <5>1 DEF Right
      <4> QED
        BY <2>5, <2>7, <3>1, <4>1 DEF AppsInv, AppsCaughtUp
    <3>2. CASE a.at # key
      <4>1. Right(aq, a.at) => Right(aq, a.at)'
        BY <1>0, <2>1, <2>2, <2>7, <3>2 DEF Right
      <4>2. a.at \in ag.behind \cup aq.fetching => a'.at \in ag'.behind \cup aq'.fetching
        BY <1>0, <1>1, <2>2, <2>7, <3>2
      <4>3. (\E x \in areqs : x.done /\ x.awaits = None)
              => \E x \in areqs' : x.done /\ x.awaits = None
        BY <2>1, <2>3
      <4> QED
        BY <2>5, <4>1, <4>2, <4>3 DEF AppsInv, AppsCaughtUp
    <3> QED
      BY <3>1, <3>2
  <2> QED
    BY <2>4, <2>6, <2>7
<1>2. ASSUME A!ListLands PROVE AppsInv'
  <2>1. A!Fetched("list", asrv) /\ ag' = [ag EXCEPT !.behind = @ \ {"list"}]
    BY <1>2 DEF A!ListLands
  <2>2. DOMAIN ag' = DOMAIN ag /\ ag'.behind = ag.behind \ {"list"} /\ "list" \in A!QueryKeys
    BY <1>0, <2>1 DEF A!QueryKeys
  <2> QED
    BY <1>1, <2>1, <2>2
<1>3. ASSUME NEW key \in AppKeys, A!DetailLands(key) PROVE AppsInv'
  <2>1. A!Fetched(key, asrv[key]) /\ ag' = [ag EXCEPT !.behind = @ \ {key}]
    BY <1>3 DEF A!DetailLands
  <2>2. /\ DOMAIN ag' = DOMAIN ag /\ ag'.behind = ag.behind \ {key}
        /\ key \in A!QueryKeys /\ key # "list"
    BY <1>0, <2>1, AppsAssumption DEF A!QueryKeys
  <2> QED
    BY <1>1, <2>1, <2>2
<1>4. ASSUME NEW key \in A!QueryKeys, A!FetchFails(key) PROVE AppsInv'
  <2>1. A!Fetched(key, None) /\ ag' = [ag EXCEPT !.changes = @ + 1, !.behind = @ \cup {key}]
    BY <1>4 DEF A!FetchFails
  <2>2. DOMAIN ag' = DOMAIN ag /\ ag'.behind = ag.behind \cup {key}
    BY <1>0, <2>1
  <2> QED
    BY <1>1, <2>1, <2>2
<1>5. ASSUME NEW key \in A!QueryKeys, A!Poll(key) PROVE AppsInv'
  <2>1. aq' = A!startFetch(aq, {key}) /\ UNCHANGED <<a, areqs, asrv, ag>>
    BY <1>5 DEF A!Poll
  <2>2. /\ QueriesOK(aq') /\ aq'.data = aq.data /\ aq'.fetching = aq.fetching \cup {key}
        /\ \A other : other # key => (other \in aq'.error <=> other \in aq.error)
    BY <1>0, <2>1, AppsStartFetch
  <2>3. AppsShape'
    BY <1>0, <2>1, <2>2 DEF AppsShape, QueriesOK, A!QueryKeys
  <2>4. AppsCaughtUp'
    BY <2>1, <2>2 DEF AppsInv, AppsCaughtUp, Right
  <2> QED
    BY <2>3, <2>4 DEF AppsInv
<1>6. ASSUME NEW c \in AppChurn, A!AppChanges(c) PROVE AppsInv'
  <2>1. /\ UNCHANGED <<a, aq, areqs>> /\ asrv' = [asrv EXCEPT ![c.key] = c.to]
        /\ ag' = [ag EXCEPT !.changes = @ + 1, !.behind = A!QueryKeys]
    BY <1>6 DEF A!AppChanges
  <2>2. DOMAIN ag' = DOMAIN ag /\ ag'.behind = A!QueryKeys
    BY <1>0, <2>1
  <2>3. asrv' \in A!Listings
    BY <1>0, <2>1, AppsAssumption DEF A!Listings
  <2>4. AppsShape'
    BY <1>0, <2>1, <2>2, <2>3 DEF AppsShape, QueriesOK, A!QueryKeys
  <2> QED
    BY <1>0, <2>1, <2>2, <2>4 DEF AppsInv, AppsCaughtUp
<1> QED
  BY <1>2, <1>3, <1>4, <1>5, <1>6

\* Every step of the applications pages keeps their invariant.
LEMMA AppsStep ==
  ASSUME AppsInv, A!ANext
  PROVE  AppsInv'
  BY AppsUser, AppsRequests, AppsArrives DEF A!ANext

\* The pages mount with the invariant.
LEMMA AppsInit == A!AInit => AppsInv
<1> SUFFICES ASSUME A!AInit PROVE AppsInv
  OBVIOUS
<1>1. /\ a = [at |-> "list", confirm |-> None, hears |-> {}]
      /\ aq = [data |-> [key \in A!QueryKeys |-> None], error |-> {}, fetching |-> {"list"}]
      /\ areqs = {} /\ asrv = FirstApps
      /\ ag = [behind |-> {}, acts |-> 0, changes |-> 0, sent |-> 0]
  BY DEF A!AInit, A!NoPage
<1>2. "list" \in A!QueryKeys
  BY DEF A!QueryKeys
<1>3. QueriesOK(aq)
  BY <1>1 DEF QueriesOK
<1> QED
  BY <1>1, <1>2, <1>3, AppsAssumption DEF AppsInv, AppsShape, AppsCaughtUp

\* What the pages promise follows.
LEMMA AppsPromise == AppsInv => A!ListCatchesUp
  BY DEF AppsInv, AppsCaughtUp, Right, A!ListCatchesUp

-----------------------------------------------------------------------------
(* The pages under the router: a step of one leaves the others alone. *)

ListInv == WorkflowInv /\ StateInv /\ PanelInv /\ AppsInv

\* Every step of the application keeps the pages' invariants.
LEMMA ListStep == ListInv /\ [Next]_vars => ListInv'
<1> SUFFICES ASSUME ListInv, [Next]_vars PROVE ListInv'
  OBVIOUS
<1>1. UNCHANGED wvars => WorkflowInv'
  BY DEF ListInv, wvars, WorkflowInv, WorkflowShape, WorkflowChosen, WorkflowCaughtUp,
     W!RemovalWasChosen, W!useWorkflows, W!Answer
<1>2. UNCHANGED svars => StateInv'
  BY DEF ListInv, svars, StateInv, StateShape, StateChosen, RecordsCaughtUp, PanelCaughtUp,
     Untold, S!RemovalWasChosen, S!useStateRecords
<1>3. UNCHANGED kvars => PanelInv'
  BY DEF ListInv, kvars, PanelInv, PanelShape, ConnectionsCaughtUp
<1>4. UNCHANGED avars => AppsInv'
  BY DEF ListInv, avars, AppsInv, AppsShape, AppsCaughtUp, Right
<1>5. /\ W!WNext \/ UNCHANGED wvars
      /\ S!SNext \/ UNCHANGED svars
      /\ K!KNext \/ UNCHANGED kvars
      /\ A!ANext \/ UNCHANGED avars
  BY DEF Next, Workflows, State, WorkflowDetail, Logs, BuildComponent, BuildResiliency,
     Applications, StoreConnections, vars
<1> QED
  BY <1>1, <1>2, <1>3, <1>4, <1>5, WorkflowStep, StateStep, PanelStep, AppsStep DEF ListInv

\* The pages' invariants hold at first.
LEMMA ListInit == Init => ListInv
  BY WorkflowInit, StateInit, PanelInit, AppsInit DEF Init, ListInv

\* A bulk removal of workflows or a bulk delete of records names only what the user
\* checked in the store it is sent to, unless the store vanished from the list under
\* the selection (Workflows.tsx onConfirmRemove, State.tsx onConfirmDelete).
THEOREM RemovalsAreChosen == Spec => []RemovalWasChosen
<1>1. ListInv => RemovalWasChosen
  BY WorkflowPromise, StatePromise DEF ListInv, RemovalWasChosen
<1> QED
  BY <1>1, ListInit, ListStep, PTL DEF Spec

\* When no request is in flight and no answer awaited, the list pages, the open
\* record, the applications pages and the connections panel show what the server
\* has, unless something else changed it or an answer was lost (the invalidations of
\* useWorkflowRemoval.ts, useStateRecords.ts, useAppAction.ts, useStoreMutations.ts).
THEOREM ListsCatchUp == Spec => []ListCatchesUp
<1>1. ListInv => ListCatchesUp
  BY WorkflowPromise, StatePromise, PanelPromise, AppsPromise DEF ListInv, ListCatchesUp
<1> QED
  BY <1>1, ListInit, ListStep, PTL DEF Spec


-----------------------------------------------------------------------------
(* The resiliency wizard. *)

Policies == [PolicyFields -> [PolicyNames -> {Unset, "given", "blank"}]]
Targets == [legs: [Legs -> Refs \cup {Unset}], scope: BOOLEAN]
TargetTable == [TargetKinds -> [TargetNames -> Targets]]

\* Every reference of a target names a policy there is.
Resolved(pol, target) ==
  \A leg \in Legs, field \in PolicyFields :
    target.legs[leg] # Unset /\ target.legs[leg][field] # Unset
      => pol[field][target.legs[leg][field]] # Unset

\* A breaker's scope comes with its breaker.
Scoped(target) ==
  target.scope => target.legs["own"] # Unset /\ target.legs["own"]["circuitBreaker"] # Unset

\* The references and scopes of a configuration are right, and only a circuit
\* breaker is blank.
Sound(cfg) ==
  /\ cfg \in [pol: Policies, tgt: TargetTable]
  /\ \A field \in PolicyFields, n \in PolicyNames :
       cfg.pol[field][n] = "blank" => field = "circuitBreaker"
  /\ \A kind \in TargetKinds, t \in TargetNames :
       Resolved(cfg.pol, cfg.tgt[kind][t]) /\ Scoped(cfg.tgt[kind][t])

\* The dialogs that can be open, each with the name it edits.
Dialogs == [kind: PolicyFields, editName: PolicyNames \cup {Unset}]
           \cup [kind: {"override"}, editName: BuiltIn]
           \cup [kind: TargetKinds, editName: TargetNames \cup {Unset}]

ResiliencyInv == Sound(rcfg) /\ ropen \in Dialogs \cup {Unset}

\* Remapping a reference changes that reference and no other.
LEMMA RemapRef ==
  ASSUME NEW leg \in Refs \cup {Unset}, NEW field \in PolicyFields,
         NEW from \in PolicyNames, NEW to \in PolicyNames \cup {Unset}
  PROVE  LET new == remapRef(leg, field, from, to) IN
         /\ new \in Refs \cup {Unset}
         /\ new = Unset <=> leg = Unset
         /\ leg # Unset => \A f \in PolicyFields :
              new[f] = IF f = field /\ leg[f] = from THEN to ELSE leg[f]
  BY ResiliencyAssumption DEF remapRef, Refs

\* A remapped target is a target, and each of its legs is remapped.
LEMMA RemapTarget ==
  ASSUME NEW target \in Targets, NEW field \in PolicyFields,
         NEW from \in PolicyNames, NEW to \in PolicyNames \cup {Unset}
  PROVE  LET new == remapTarget(target, field, from, to) IN
         /\ new \in Targets
         /\ \A leg \in Legs : new.legs[leg] = remapRef(target.legs[leg], field, from, to)
         /\ new.scope => target.scope
<1>1. \A leg \in Legs : remapRef(target.legs[leg], field, from, to) \in Refs \cup {Unset}
  BY RemapRef DEF Targets
<1> QED
  BY <1>1 DEF remapTarget, Targets

\* Pointing the references of a sound configuration at a policy there is keeps it
\* sound; so does clearing them, with the policy or without.
LEMMA RemapSound ==
  ASSUME NEW cfg, Sound(cfg), NEW field \in PolicyFields, NEW from \in PolicyNames,
         NEW to \in PolicyNames \cup {Unset}, NEW pol \in Policies,
         \A f \in PolicyFields, n \in PolicyNames :
           pol[f][n] = "blank" => f = "circuitBreaker",
         to # Unset => pol[field][to] # Unset,
         \A f \in PolicyFields, n \in PolicyNames :
           cfg.pol[f][n] # Unset /\ ~ (f = field /\ n = from) => pol[f][n] # Unset
  PROVE  Sound([pol |-> pol, tgt |-> remapPolicyRefs(cfg.tgt, field, from, to)])
<1> DEFINE new == remapPolicyRefs(cfg.tgt, field, from, to)
<1>1. ASSUME NEW kind \in TargetKinds, NEW t \in TargetNames
      PROVE  /\ new[kind][t] \in Targets
             /\ Resolved(pol, new[kind][t])
             /\ Scoped(new[kind][t])
  <2> DEFINE target == cfg.tgt[kind][t]
             res == remapTarget(target, field, from, to)
  <2>1. target \in Targets /\ Resolved(cfg.pol, target) /\ Scoped(target)
    BY DEF Sound, TargetTable
  <2>2. new[kind][t] = res
    BY DEF remapPolicyRefs
  <2>3. /\ res \in Targets
        /\ \A leg \in Legs : res.legs[leg] = remapRef(target.legs[leg], field, from, to)
        /\ res.scope => target.scope
    BY <2>1, RemapTarget
  <2>4. \A leg \in Legs : target.legs[leg] \in Refs \cup {Unset}
    BY <2>1 DEF Targets
  <2>5. Resolved(pol, res)
    <3> SUFFICES ASSUME NEW leg \in Legs, NEW f \in PolicyFields,
                        res.legs[leg] # Unset, res.legs[leg][f] # Unset
                 PROVE  pol[f][res.legs[leg][f]] # Unset
      BY DEF Resolved
    <3> DEFINE old == target.legs[leg]
    <3>1. /\ old # Unset
          /\ res.legs[leg][f] = IF f = field /\ old[f] = from THEN to ELSE old[f]
      <4>1. old \in Refs \cup {Unset} /\ res.legs[leg] = remapRef(old, field, from, to)
        BY <2>3, <2>4
      <4> HIDE DEF old, res
      <4> QED
        BY <4>1, RemapRef
    <3>2. CASE f = field /\ old[f] = from
      BY <3>1, <3>2
    <3>3. CASE ~ (f = field /\ old[f] = from)
      <4>1. old[f] # Unset /\ old[f] \in PolicyNames
        BY <3>1, <3>3, <2>4 DEF Refs
      <4>2. cfg.pol[f][old[f]] # Unset
        BY <2>1, <3>1, <4>1 DEF Resolved
      <4> QED
        BY <3>1, <3>3, <4>1, <4>2
    <3> QED
      BY <3>2, <3>3
  <2>6. Scoped(res)
    <3> SUFFICES ASSUME res.scope
                 PROVE  res.legs["own"] # Unset /\ res.legs["own"]["circuitBreaker"] # Unset
      BY DEF Scoped
    <3> DEFINE own == target.legs["own"]
    <3>1. own # Unset /\ own["circuitBreaker"] # Unset
      BY <2>1, <2>3 DEF Scoped
    <3>2. ~ (field = "circuitBreaker" /\ to = Unset /\ own[field] = from)
      BY DEF remapTarget
    <3>3. "own" \in Legs /\ "circuitBreaker" \in PolicyFields
      BY DEF Legs, PolicyFields
    <3>4. /\ res.legs["own"] # Unset
          /\ res.legs["own"]["circuitBreaker"]
               = IF "circuitBreaker" = field /\ own["circuitBreaker"] = from
                 THEN to ELSE own["circuitBreaker"]
      BY <2>3, <2>4, <3>1, <3>3, RemapRef
    <3> QED
      BY <3>1, <3>2, <3>4
  <2> QED
    BY <2>2, <2>3, <2>5, <2>6
<1>2. new \in TargetTable
  BY <1>1 DEF remapPolicyRefs, TargetTable
<1> QED
  BY <1>1, <1>2 DEF Sound

\* The configuration the wizard starts from is sound.
LEMMA DefaultSound == Sound(defaultResiliencyConfig)
  BY ResiliencyAssumption DEF Sound, defaultResiliencyConfig, NoTarget, Policies,
     TargetTable, Targets, Resolved, Scoped

\* Defining a policy keeps a configuration sound.
LEMMA UpsertSound ==
  ASSUME NEW cfg, Sound(cfg), NEW field \in PolicyFields, NEW name \in PolicyNames,
         NEW settings \in Settings(field)
  PROVE  Sound(UPSERT_POLICY(cfg, field, name, settings))
<1> DEFINE new == UPSERT_POLICY(cfg, field, name, settings)
<1>1. settings \in {"given", "blank"} /\ (settings = "blank" => field = "circuitBreaker")
  BY DEF Settings
<1>2. /\ new \in [pol: Policies, tgt: TargetTable] /\ new.tgt = cfg.tgt
      /\ \A f \in PolicyFields, n \in PolicyNames :
           new.pol[f][n] = IF f = field /\ n = name THEN settings ELSE cfg.pol[f][n]
  BY <1>1 DEF UPSERT_POLICY, Sound, Policies
<1>3. ASSUME NEW kind \in TargetKinds, NEW t \in TargetNames
      PROVE  Resolved(new.pol, new.tgt[kind][t])
  <2>1. cfg.tgt[kind][t] \in Targets /\ Resolved(cfg.pol, cfg.tgt[kind][t])
    BY DEF Sound, TargetTable
  <2> QED
    BY <2>1, <1>1, <1>2, ResiliencyAssumption DEF Resolved, Targets, Refs
<1> QED
  BY <1>1, <1>2, <1>3 DEF Sound

\* Giving a target references the pickers offer keeps a configuration sound.
LEMMA TargetSound ==
  ASSUME NEW cfg, Sound(cfg), NEW kind \in TargetKinds, NEW name \in TargetNames,
         NEW target \in Targets, Resolved(cfg.pol, target), Scoped(target)
  PROVE  Sound(UPSERT_TARGET(cfg, kind, name, target))
<1> DEFINE new == UPSERT_TARGET(cfg, kind, name, target)
<1>1. /\ new \in [pol: Policies, tgt: TargetTable] /\ new.pol = cfg.pol
      /\ \A c \in TargetKinds, t \in TargetNames :
           new.tgt[c][t] = IF c = kind /\ t = name THEN target ELSE cfg.tgt[c][t]
  BY DEF UPSERT_TARGET, Sound, TargetTable
<1> QED
  BY <1>1 DEF Sound

\* Removing a target is giving it no references.
LEMMA RemoveTargetSound ==
  ASSUME NEW cfg, Sound(cfg), NEW kind \in TargetKinds, NEW name \in TargetNames
  PROVE  Sound(REMOVE_TARGET(cfg, kind, name)) /\ REMOVE_TARGET(cfg, kind, name).pol = cfg.pol
<1>1. NoTarget \in Targets /\ Resolved(cfg.pol, NoTarget) /\ Scoped(NoTarget)
  BY DEF NoTarget, Targets, Resolved, Scoped
<1>2. REMOVE_TARGET(cfg, kind, name) = UPSERT_TARGET(cfg, kind, name, NoTarget)
  BY DEF REMOVE_TARGET, UPSERT_TARGET
<1>3. REMOVE_TARGET(cfg, kind, name).pol = cfg.pol
  BY DEF REMOVE_TARGET, Sound
<1> QED
  BY <1>1, <1>2, <1>3, TargetSound

\* Removing a policy clears every reference to it.
LEMMA RemovePolicySound ==
  ASSUME NEW cfg, Sound(cfg), NEW field \in PolicyFields, NEW name \in PolicyNames
  PROVE  Sound(REMOVE_POLICY(cfg, field, name))
<1> DEFINE pol == [cfg.pol EXCEPT ![field][name] = Unset]
<1>1. cfg.pol \in Policies
  BY DEF Sound
<1>2. /\ pol \in Policies
      /\ \A f \in PolicyFields, n \in PolicyNames :
           pol[f][n] = IF f = field /\ n = name THEN Unset ELSE cfg.pol[f][n]
  BY <1>1 DEF Policies
<1>3. \A f \in PolicyFields, n \in PolicyNames : pol[f][n] = "blank" => f = "circuitBreaker"
  BY <1>2, ResiliencyAssumption DEF Sound
<1> HIDE DEF pol
<1>4. Sound([pol |-> pol, tgt |-> remapPolicyRefs(cfg.tgt, field, name, Unset)])
  BY <1>2, <1>3, RemapSound
<1> QED
  BY <1>4 DEF REMOVE_POLICY, pol

\* Saving a policy under a new name carries its references along.
LEMMA RenameSound ==
  ASSUME NEW cfg, Sound(cfg), NEW field \in PolicyFields,
         NEW from \in PolicyNames, NEW to \in PolicyNames, from # to,
         NEW settings \in Settings(field)
  PROVE  Sound(UPSERT_POLICY(RENAME_POLICY(cfg, field, from, to), field, to, settings))
<1> DEFINE moved == RENAME_POLICY(cfg, field, from, to).pol
           pol == [moved EXCEPT ![field][to] = settings]
<1>1. cfg.pol \in Policies
  BY DEF Sound
<1>2. settings \in {"given", "blank"} /\ (settings = "blank" => field = "circuitBreaker")
  BY DEF Settings
<1>3. /\ moved \in Policies
      /\ \A f \in PolicyFields, n \in PolicyNames :
           \/ moved[f][n] = cfg.pol[f][n]
           \/ f = field /\ n = from /\ moved[f][n] = Unset
           \/ f = field /\ n = to /\ moved[f][n] = cfg.pol[f][from]
  BY <1>1 DEF RENAME_POLICY, Policies
<1>4. /\ pol \in Policies
      /\ \A f \in PolicyFields, n \in PolicyNames :
           pol[f][n] = IF f = field /\ n = to THEN settings ELSE moved[f][n]
  <2> HIDE DEF moved
  <2> QED
    BY <1>2, <1>3 DEF Policies
<1>5. UPSERT_POLICY(RENAME_POLICY(cfg, field, from, to), field, to, settings)
        = [pol |-> pol, tgt |-> remapPolicyRefs(cfg.tgt, field, from, to)]
  BY DEF UPSERT_POLICY, RENAME_POLICY
<1> HIDE DEF moved, pol
<1>6. \A f \in PolicyFields, n \in PolicyNames : pol[f][n] = "blank" => f = "circuitBreaker"
  BY <1>2, <1>3, <1>4, ResiliencyAssumption DEF Sound
<1>7. \A f \in PolicyFields, n \in PolicyNames :
        cfg.pol[f][n] # Unset /\ ~ (f = field /\ n = from) => pol[f][n] # Unset
  BY <1>2, <1>3, <1>4, ResiliencyAssumption
<1>8. pol[field][to] # Unset
  BY <1>2, <1>4, ResiliencyAssumption
<1> QED
  BY <1>4, <1>5, <1>6, <1>7, <1>8, RemapSound

\* A target the dialog saves holds only references the pickers offer.
LEMMA PickedSound ==
  ASSUME ResiliencyInv, NEW kind \in TargetKinds, NEW refs \in Pickable,
         NEW direction \in SUBSET {"outbound", "inbound"}, NEW scope \in BOOLEAN
  PROVE  LET target == Target(kind, refs, direction, scope) IN
         target \in Targets /\ Resolved(rcfg.pol, target) /\ Scoped(target)
  BY ResiliencyAssumption DEF Target, Pickable, Targets, Resolved, Scoped, Legs

\* The wizard starts sound, with no dialog open.
LEMMA ResiliencyInit == RInit => ResiliencyInv
  BY DefaultSound DEF RInit, ResiliencyInv

\* Every step of the wizard keeps its configuration sound.
LEMMA ResiliencyStep ==
  ASSUME ResiliencyInv, RNext
  PROVE  ResiliencyInv'
<1> USE DEF ResiliencyInv
<1>1. ASSUME NEW value \in BOOLEAN, SET_NAME(value) \/ SET_NAMESPACE(value)
      PROVE  ResiliencyInv'
  BY <1>1 DEF SET_NAME, SET_NAMESPACE, SetMeta, Sound
<1>2. ASSUME NEW field \in PolicyFields, NEW editName \in PolicyNames \cup {Unset},
             openPolicy(field, editName)
      PROVE  ResiliencyInv'
  BY <1>2 DEF openPolicy, Open, Dialogs, Sound
<1>3. ASSUME NEW label \in BuiltIn, openOverride(label)
      PROVE  ResiliencyInv'
  BY <1>3 DEF openOverride, Open, Dialogs, Sound
<1>4. ASSUME NEW field \in PolicyFields, NEW name \in PolicyNames, removePolicy(field, name)
      PROVE  ResiliencyInv'
  BY <1>4, RemovePolicySound DEF removePolicy
<1>5. ASSUME NEW field \in PolicyFields, NEW name \in PolicyNames,
             NEW settings \in Settings(field), savePolicy(field, name, settings)
      PROVE  ResiliencyInv'
  <2>1. ropen.editName \in PolicyNames \cup {Unset} /\ ropen' = Unset
    BY <1>5 DEF savePolicy, Close, Dialogs, PolicyFields, TargetKinds
  <2>2. CASE ropen.editName \notin {Unset, name}
    BY <1>5, <2>1, <2>2, RenameSound DEF savePolicy, upsertWithRename
  <2>3. CASE ropen.editName \in {Unset, name}
    BY <1>5, <2>1, <2>3, UpsertSound DEF savePolicy, upsertWithRename
  <2> QED
    BY <2>2, <2>3
<1>6. ASSUME saveOverride
      PROVE  ResiliencyInv'
  <2>1. ropen.editName \in PolicyNames /\ ropen' = Unset
    BY <1>6, ResiliencyAssumption DEF saveOverride, Close, Dialogs, PolicyFields, TargetKinds
  <2>2. "retry" \in PolicyFields /\ "given" \in Settings("retry")
    BY DEF PolicyFields, Settings
  <2> QED
    BY <1>6, <2>1, <2>2, UpsertSound DEF saveOverride
<1>7. ASSUME NEW kind \in TargetKinds, NEW editName \in TargetNames \cup {Unset},
             openTarget(kind, editName)
      PROVE  ResiliencyInv'
  BY <1>7 DEF openTarget, Open, Dialogs, Sound
<1>8. ASSUME NEW kind \in TargetKinds, NEW name \in TargetNames, removeTarget(kind, name)
      PROVE  ResiliencyInv'
  BY <1>8, RemoveTargetSound DEF removeTarget
<1>9. ASSUME NEW kind \in TargetKinds, NEW name \in TargetNames, NEW refs \in Pickable,
             NEW direction \in {{"outbound"}, {"inbound"}, {"outbound", "inbound"}},
             NEW scope \in BOOLEAN, saveTarget(kind, name, refs, direction, scope)
      PROVE  ResiliencyInv'
  <2> DEFINE target == Target(kind, refs, direction, scope)
             base == IF ropen.editName \notin {Unset, name}
                     THEN REMOVE_TARGET(rcfg, kind, ropen.editName) ELSE rcfg
  <2>1. ropen.editName \in TargetNames \cup {Unset} /\ ropen' = Unset
    BY <1>9 DEF saveTarget, Close, Dialogs, PolicyFields, TargetKinds
  <2>2. Sound(base) /\ base.pol = rcfg.pol
    BY <2>1, RemoveTargetSound
  <2>3. target \in Targets /\ Resolved(rcfg.pol, target) /\ Scoped(target)
    <3>1. direction \in SUBSET {"outbound", "inbound"}
      OBVIOUS
    <3> QED
      BY <3>1, PickedSound
  <2>4. rcfg' = UPSERT_TARGET(base, kind, name, target)
    BY <1>9 DEF saveTarget
  <2> HIDE DEF target, base
  <2> QED
    BY <2>1, <2>2, <2>3, <2>4, TargetSound
<1>10. ASSUME closeDialog \/ NEXT \/ BACK
       PROVE  ResiliencyInv'
  BY <1>10 DEF closeDialog, Close, NEXT, BACK, Sound
<1> QED
  BY <1>1, <1>2, <1>3, <1>4, <1>5, <1>6, <1>7, <1>8, <1>9, <1>10 DEF RNext

\* What ReferencesResolve says of the emitted YAML follows from soundness.
LEMMA ResiliencyPromise == ResiliencyInv => ReferencesResolve
<1> SUFFICES ASSUME ResiliencyInv PROVE ReferencesResolve
  OBVIOUS
<1>1. ASSUME NEW kind \in TargetKinds, NEW t \in TargetNames
      PROVE  Resolved(rcfg.pol, rcfg.tgt[kind][t]) /\ Scoped(rcfg.tgt[kind][t])
  BY DEF ResiliencyInv, Sound
<1>2. ASSUME NEW ref \in assembleResiliency.refs \ assembleResiliency.policies
      PROVE  ref[1] = "circuitBreaker" /\ rcfg.pol[ref[1]][ref[2]] = "blank"
  <2>1. /\ ref[1] \in PolicyFields /\ ref[2] \in PolicyNames
        /\ rcfg.pol[ref[1]][ref[2]] # "given"
    BY <1>2 DEF assembleResiliency
  <2>2. PICK kind \in TargetKinds, t \in TargetNames, leg \in Legs :
               /\ rcfg.tgt[kind][t].legs[leg] # Unset
               /\ rcfg.tgt[kind][t].legs[leg][ref[1]] = ref[2]
    BY <1>2 DEF assembleResiliency
  <2>3. rcfg.pol[ref[1]][ref[2]] # Unset
    BY <1>1, <2>1, <2>2, ResiliencyAssumption DEF Resolved
  <2>4. rcfg.pol[ref[1]][ref[2]] \in {Unset, "given", "blank"}
    BY <2>1 DEF ResiliencyInv, Sound, Policies
  <2> QED
    BY <2>1, <2>3, <2>4 DEF ResiliencyInv, Sound
<1> QED
  BY <1>1, <1>2 DEF ReferencesResolve, Resolved, Scoped

\* However policies and targets are edited, the references of the resiliency
\* configuration resolve (resiliency-builder/reducer.ts).
THEOREM ReferencesAlwaysResolve == Spec => []ReferencesResolve
<1>1. Init => ResiliencyInv
  BY ResiliencyInit DEF Init
<1>2. ResiliencyInv /\ [Next]_vars => ResiliencyInv'
  <2> SUFFICES ASSUME ResiliencyInv, [Next]_vars PROVE ResiliencyInv'
    OBVIOUS
  <2>1. CASE BuildResiliency
    BY <2>1, ResiliencyStep DEF BuildResiliency
  <2>2. CASE UNCHANGED rvars
    BY <2>2 DEF rvars, ResiliencyInv, Sound
  <2>3. BuildResiliency \/ UNCHANGED rvars
    BY DEF Next, vars, Workflows, State, WorkflowDetail, Logs, BuildComponent,
           Applications, StoreConnections
  <2> QED
    BY <2>1, <2>2, <2>3
<1> QED
  BY <1>1, <1>2, ResiliencyPromise, PTL DEF Spec

-----------------------------------------------------------------------------
(* The component wizard. *)

Entered == Schemas \cup {None}
EnteredFields ==
  [values: [C!FieldNames -> Entered], secretName: [C!FieldNames -> Entered],
   secretKey: [C!FieldNames -> Entered],
   useSecret: SUBSET C!FieldNames, optionalAdded: SUBSET C!FieldNames]

ComponentStates ==
  [activeStep: 0..3, category: C!Categories \cup {None}, schema: Entered,
   authProfile: {None} \cup UNION {ProfilesOf[schema] : schema \in Schemas},
   name: BOOLEAN, namespace: BOOLEAN, fields: EnteredFields]

\* What a reducer state holds was entered for its component, and the steps past
\* the first have one.
Belongs(state) ==
  /\ state \in ComponentStates
  /\ \A f \in C!FieldNames :
       /\ state.fields.values[f] \in {None, state.schema}
       /\ state.fields.secretName[f] \in {None, state.schema}
       /\ state.fields.secretKey[f] \in {None, state.schema}
  /\ state.authProfile # None => state.schema # None
                                 /\ state.authProfile \in ProfilesOf[state.schema]
  /\ state.activeStep > 0 => state.schema # None

ComponentInv ==
  /\ Belongs(cb)
  /\ cb.activeStep = 3 => \A f \in C!activeFields(Required) : C!fieldSatisfied(f)

\* Blank fields are fields, and belong to every component.
LEMMA BlankEntered ==
  /\ C!BlankFields \in EnteredFields
  /\ \A f \in C!FieldNames : /\ C!BlankFields.values[f] = None
                             /\ C!BlankFields.secretName[f] = None
                             /\ C!BlankFields.secretKey[f] = None
  BY DEF C!BlankFields, EnteredFields, Entered

\* Choosing a component keeps or clears what was entered.
LEMMA SelectSchemaBelongs ==
  ASSUME ComponentInv, NEW schema \in Schemas, C!selectSchema(schema)
  PROVE  ComponentInv'
<1> DEFINE new == C!SELECT_SCHEMA(schema)
<1>1. cb' = new
  BY DEF C!selectSchema, C!Enter
<1>2. /\ schema # None /\ schema \in Entered /\ CategoryOf[schema] \in C!Categories
      /\ 1 \in 0..3
  BY CatalogueAssumption DEF Entered, C!Categories
<1>3. CASE schema = cb.schema
  <2>1. new = [cb EXCEPT !.category = CategoryOf[schema], !.schema = schema, !.activeStep = 1]
    BY <1>3 DEF C!SELECT_SCHEMA, ComponentInv, Belongs, ComponentStates
  <2> HIDE DEF new
  <2>2. /\ new \in ComponentStates /\ new.schema = cb.schema /\ new.activeStep = 1
        /\ new.fields = cb.fields /\ new.authProfile = cb.authProfile
    BY <1>2, <1>3, <2>1 DEF ComponentInv, Belongs, ComponentStates
  <2> QED
    BY <1>1, <1>2, <1>3, <2>2 DEF ComponentInv, Belongs
<1>4. CASE schema # cb.schema
  <2>1. new = [cb EXCEPT !.category = CategoryOf[schema], !.schema = schema, !.activeStep = 1,
                         !.authProfile = None, !.fields = C!BlankFields]
    BY <1>4 DEF C!SELECT_SCHEMA
  <2> HIDE DEF new
  <2>2. /\ new \in ComponentStates /\ new.schema = schema /\ new.activeStep = 1
        /\ new.fields = C!BlankFields /\ new.authProfile = None
    BY <1>2, <2>1, BlankEntered DEF ComponentInv, Belongs, ComponentStates
  <2> QED
    BY <1>1, <1>2, <2>2, BlankEntered DEF ComponentInv, Belongs
<1> QED
  BY <1>3, <1>4

\* Choosing a category keeps or clears the component.
LEMMA SelectCategoryBelongs ==
  ASSUME ComponentInv, NEW category \in C!Categories, C!selectCategory(category)
  PROVE  ComponentInv'
<1>1. cb' = C!SELECT_CATEGORY(category) /\ cb.activeStep = 0
  BY DEF C!selectCategory, C!Enter
<1>2. CASE cb' = [cb EXCEPT !.category = category]
  BY <1>1, <1>2 DEF ComponentInv, Belongs, ComponentStates
<1>3. CASE cb' = [cb EXCEPT !.category = category, !.schema = None, !.authProfile = None,
                            !.fields = C!BlankFields]
  <2>1. /\ cb' \in ComponentStates /\ cb'.activeStep = 0
        /\ cb'.fields = C!BlankFields /\ cb'.authProfile = None
    BY <1>1, <1>3, BlankEntered DEF ComponentInv, Belongs, ComponentStates, Entered
  <2> QED
    BY <2>1, BlankEntered DEF ComponentInv, Belongs
<1> QED
  BY <1>1, <1>2, <1>3 DEF C!SELECT_CATEGORY

\* Filling in a field keeps every value with its component.
LEMMA FieldsBelong ==
  ASSUME ComponentInv, cb.activeStep = 2, NEW fields \in EnteredFields,
         cb' = [cb EXCEPT !.fields = fields],
         \A f \in C!FieldNames :
           /\ fields.values[f] \in {None, cb.schema}
           /\ fields.secretName[f] \in {None, cb.schema}
           /\ fields.secretKey[f] \in {None, cb.schema}
  PROVE  ComponentInv'
  BY DEF ComponentInv, Belongs, ComponentStates

\* Every step of the component wizard keeps the invariant.
LEMMA ComponentStep ==
  ASSUME ComponentInv, C!CNext
  PROVE  ComponentInv'
<1>0. /\ cb \in ComponentStates /\ cb.fields \in EnteredFields
      /\ cb.schema \in Entered /\ Belongs(cb)
  BY DEF ComponentInv, Belongs, ComponentStates
<1>1. ASSUME NEW category \in C!Categories, C!selectCategory(category) PROVE ComponentInv'
  BY <1>1, SelectCategoryBelongs
<1>2. ASSUME NEW schema \in Schemas, C!selectSchema(schema) PROVE ComponentInv'
  BY <1>2, SelectSchemaBelongs
<1>3. ASSUME NEW profile, C!selectProfile(profile) PROVE ComponentInv'
  <2>1. /\ cb.activeStep = 1 /\ cb.schema # None
        /\ profile \in ProfilesOf[cb.schema] \cup {None}
        /\ cb' = [cb EXCEPT !.authProfile = profile]
    BY <1>3 DEF C!selectProfile, C!Enter
  <2>2. profile \in {None} \cup UNION {ProfilesOf[schema] : schema \in Schemas}
    BY <1>0, <2>1 DEF Entered
  <2> QED
    BY <2>1, <2>2 DEF ComponentInv, Belongs, ComponentStates
<1>4. ASSUME NEW valid \in BOOLEAN, C!setName(valid) \/ C!setNamespace(valid) PROVE ComponentInv'
  BY <1>4 DEF C!setName, C!setNamespace, C!Enter, ComponentInv, Belongs, ComponentStates
<1>5. ASSUME NEW f \in C!FieldNames, NEW value \in {None, cb.schema}, C!setValue(f, value)
      PROVE  ComponentInv'
  <2> DEFINE fields == [cb.fields EXCEPT !.values[f] = value]
  <2>1. cb.activeStep = 2 /\ cb' = [cb EXCEPT !.fields = fields]
    BY <1>5, <1>0 DEF C!setValue, C!Enter
  <2>2. /\ fields \in EnteredFields
        /\ fields.secretName = cb.fields.secretName /\ fields.secretKey = cb.fields.secretKey
        /\ \A g \in C!FieldNames : fields.values[g] \in {cb.fields.values[g], value}
    BY <1>0 DEF EnteredFields, Entered
  <2> HIDE DEF fields
  <2> QED
    BY <1>0, <2>1, <2>2, FieldsBelong DEF Belongs
<1>6. ASSUME NEW f \in C!FieldNames, NEW v \in {None, cb.schema}, C!setSecretName(f, v)
      PROVE  ComponentInv'
  <2> DEFINE fields == [cb.fields EXCEPT !.secretName[f] = v]
  <2>1. cb.activeStep = 2 /\ cb' = [cb EXCEPT !.fields = fields]
    BY <1>6, <1>0 DEF C!setSecretName, C!SecretShown, C!Enter
  <2>2. /\ fields \in EnteredFields
        /\ fields.values = cb.fields.values /\ fields.secretKey = cb.fields.secretKey
        /\ \A g \in C!FieldNames : fields.secretName[g] \in {cb.fields.secretName[g], v}
    BY <1>0 DEF EnteredFields, Entered
  <2> HIDE DEF fields
  <2> QED
    BY <1>0, <2>1, <2>2, FieldsBelong DEF Belongs
<1>7. ASSUME NEW f \in C!FieldNames, NEW v \in {None, cb.schema}, C!setSecretKey(f, v)
      PROVE  ComponentInv'
  <2> DEFINE fields == [cb.fields EXCEPT !.secretKey[f] = v]
  <2>1. cb.activeStep = 2 /\ cb' = [cb EXCEPT !.fields = fields]
    BY <1>7, <1>0 DEF C!setSecretKey, C!SecretShown, C!Enter
  <2>2. /\ fields \in EnteredFields
        /\ fields.values = cb.fields.values /\ fields.secretName = cb.fields.secretName
        /\ \A g \in C!FieldNames : fields.secretKey[g] \in {cb.fields.secretKey[g], v}
    BY <1>0 DEF EnteredFields, Entered
  <2> HIDE DEF fields
  <2> QED
    BY <1>0, <2>1, <2>2, FieldsBelong DEF Belongs
<1>8. ASSUME NEW f \in C!FieldNames, C!toggleSecret(f) PROVE ComponentInv'
  <2> DEFINE fields == [cb.fields EXCEPT !.useSecret = IF f \in @ THEN @ \ {f} ELSE @ \cup {f}]
  <2>1. cb.activeStep = 2 /\ cb' = [cb EXCEPT !.fields = fields]
    BY <1>8, <1>0 DEF C!toggleSecret, C!Enter
  <2>2. /\ fields \in EnteredFields
        /\ fields.values = cb.fields.values
        /\ fields.secretName = cb.fields.secretName /\ fields.secretKey = cb.fields.secretKey
    BY <1>0 DEF EnteredFields
  <2> HIDE DEF fields
  <2> QED
    BY <1>0, <2>1, <2>2, FieldsBelong DEF Belongs
<1>9. ASSUME NEW f \in C!FieldNames, C!addOptional(f) PROVE ComponentInv'
  <2> DEFINE fields == [cb.fields EXCEPT !.optionalAdded = @ \cup {f}]
  <2>1. cb.activeStep = 2 /\ cb' = [cb EXCEPT !.fields = fields]
    BY <1>9, <1>0 DEF C!addOptional, C!ADD_OPTIONAL, C!Enter
  <2>2. /\ fields \in EnteredFields
        /\ fields.values = cb.fields.values
        /\ fields.secretName = cb.fields.secretName /\ fields.secretKey = cb.fields.secretKey
    BY <1>0 DEF EnteredFields
  <2> HIDE DEF fields
  <2> QED
    BY <1>0, <2>1, <2>2, FieldsBelong DEF Belongs
<1>10. ASSUME NEW f \in C!FieldNames, C!removeOptional(f) PROVE ComponentInv'
  <2> DEFINE fields == [values |-> [cb.fields.values EXCEPT ![f] = None],
                        secretName |-> [cb.fields.secretName EXCEPT ![f] = None],
                        secretKey |-> [cb.fields.secretKey EXCEPT ![f] = None],
                        useSecret |-> cb.fields.useSecret \ {f},
                        optionalAdded |-> cb.fields.optionalAdded \ {f}]
  <2>1. cb.activeStep = 2 /\ cb' = [cb EXCEPT !.fields = fields]
    BY <1>10, <1>0 DEF C!removeOptional, C!REMOVE_OPTIONAL, C!Enter
  <2>2. /\ fields \in EnteredFields
        /\ \A g \in C!FieldNames : /\ fields.values[g] \in {None, cb.fields.values[g]}
                                   /\ fields.secretName[g] \in {None, cb.fields.secretName[g]}
                                   /\ fields.secretKey[g] \in {None, cb.fields.secretKey[g]}
    BY <1>0 DEF EnteredFields, Entered
  <2> HIDE DEF fields
  <2> QED
    BY <1>0, <2>1, <2>2, FieldsBelong DEF Belongs
<1>11. ASSUME C!NEXT PROVE ComponentInv'
  <2>1. /\ cb.activeStep < 3 /\ C!canContinue
        /\ cb' = [cb EXCEPT !.activeStep = cb.activeStep + 1]
    BY <1>11 DEF C!NEXT, C!dispatch
  <2>2. /\ cb.activeStep = 0 => cb.schema # None
        /\ cb.activeStep = 2 => \A f \in C!activeFields(Required) : C!fieldSatisfied(f)
    BY <2>1 DEF C!canContinue
  <2>3. cb.activeStep \in 0..2 /\ cb.activeStep + 1 \in 0..3
    BY <1>0, <2>1 DEF ComponentStates
  <2>4. /\ cb' \in ComponentStates /\ cb'.activeStep = cb.activeStep + 1
        /\ cb'.schema = cb.schema /\ cb'.fields = cb.fields /\ cb'.authProfile = cb.authProfile
    BY <1>0, <2>1, <2>3 DEF ComponentStates
  <2>5. Belongs(cb')
    BY <1>0, <2>2, <2>3, <2>4 DEF Belongs
  <2> QED
    BY <2>2, <2>3, <2>4, <2>5 DEF ComponentInv, C!activeFields, C!fieldSatisfied
<1>12. ASSUME C!BACK PROVE ComponentInv'
  BY <1>0, <1>12 DEF C!BACK, C!dispatch, ComponentInv, Belongs, ComponentStates
<1> QED
  BY <1>1, <1>2, <1>3, <1>4, <1>5, <1>6, <1>7, <1>8, <1>9, <1>10, <1>11, <1>12 DEF C!CNext

\* The wizard starts with nothing chosen.
LEMMA ComponentInit == C!CInit => ComponentInv
  BY BlankEntered DEF C!CInit, C!initialState, ComponentInv, Belongs, ComponentStates, Entered

\* The invariant gives the promise about the YAML.
LEMMA ComponentPromise == ComponentInv => C!ConfigBelongs
<1> SUFFICES ASSUME ComponentInv, cb.activeStep = 3
             PROVE  /\ cb.schema # None
                    /\ cb.authProfile \in ProfilesOf[cb.schema] \cup {None}
                    /\ C!activeFields(Required) \subseteq DOMAIN C!assembleComponentSpec
                    /\ \A f \in DOMAIN C!assembleComponentSpec :
                         C!assembleComponentSpec[f] = {cb.schema}
  BY DEF C!ConfigBelongs
<1>1. /\ cb.schema \in Schemas /\ cb.schema # None
      /\ cb.authProfile \in ProfilesOf[cb.schema] \cup {None}
      /\ cb.fields \in EnteredFields
  BY DEF ComponentInv, Belongs, ComponentStates, Entered
<1>2. C!activeFields(Required) \subseteq C!FieldNames
  <2>1. cb.schema \in DOMAIN Required
        /\ (cb.authProfile # None => cb.authProfile \in DOMAIN Required)
    BY <1>1, CatalogueAssumption
  <2> QED
    BY <2>1 DEF C!activeFields, C!FieldNames
<1>3. C!configureFields \subseteq C!FieldNames
  BY <1>1, <1>2 DEF C!configureFields, EnteredFields
<1>4. C!activeFields(Required) \subseteq {g \in C!configureFields : C!fieldSatisfied(g)}
  BY <1>1 DEF C!configureFields, ComponentInv
<1>5. ASSUME NEW f \in {g \in C!configureFields : C!fieldSatisfied(g)}
      PROVE  (IF f \in cb.fields.useSecret THEN {cb.fields.secretName[f], cb.fields.secretKey[f]}
              ELSE {cb.fields.values[f]}) = {cb.schema}
  BY <1>3 DEF C!fieldSatisfied, ComponentInv, Belongs
<1> QED
  BY <1>1, <1>4, <1>5 DEF C!assembleComponentSpec

-----------------------------------------------------------------------------
(* The dialog for a new connection. *)

Forms == [open: BOOLEAN, name: BOOLEAN, type: StoreTypes,
          values: [K!Fields -> StoreTypes \cup {None, K!Invalid}], optional: SUBSET K!Fields]

Connected == [ids: SUBSET Connections, active: Connections \cup {None}]

Panels == [stores: Connected \cup {None}, fetching: BOOLEAN, catalog: BOOLEAN,
           form: Forms, pendingDelete: Connections \cup {None}]

\* What a form holds was typed for its type, in fields of that type.
TypedFor(form) ==
  /\ \A f \in K!Fields : form.values[f] \in {None, K!Invalid, form.type}
  /\ form.optional \subseteq OptionalOf[form.type]

\* What an added connection holds belongs to its type.
BodyBelongs(body) ==
  LET fields == DOMAIN body.metadata IN
  /\ fields \subseteq RequiredOf[body.type] \cup OptionalOf[body.type]
  /\ \A f \in fields : body.metadata[f] = body.type
  /\ body.catalog => RequiredOf[body.type] \subseteq fields

RequestBelongs(r) ==
  /\ {"kind", "id", "body"} \subseteq DOMAIN r
  /\ r.id \in Connections
  /\ r.kind = "add" => BodyBelongs(r.body)

\* An optional field can be added only once the catalogue is there.
DialogInv ==
  /\ k \in Panels
  /\ ksrv \in Connected
  /\ TypedFor(k.form)
  /\ ~k.catalog => k.form.optional = {}
  /\ \A r \in kreqs : RequestBelongs(r)

\* The fields of a type are fields.
LEMMA FieldsOfType ==
  ASSUME NEW t \in StoreTypes
  PROVE  /\ RequiredOf[t] \subseteq K!Fields /\ OptionalOf[t] \subseteq K!Fields
         /\ SyntheticOf[t] \subseteq RequiredOf[t]
  BY CatalogueAssumption DEF K!Fields

\* The form the dialog opens with is blank.
LEMMA BlankForm ==
  /\ K!NoForm \in Forms /\ TypedFor(K!NoForm) /\ K!NoForm.optional = {}
  /\ K!NoForm.values = [f \in K!Fields |-> None]
  BY CatalogueAssumption DEF K!NoForm, Forms, TypedFor

\* An edit of the form that keeps it in its type keeps the invariant.
LEMMA FormStep ==
  ASSUME DialogInv, NEW form \in Forms, TypedFor(form),
         ~k.catalog => form.optional = {}, K!InForm(form)
  PROVE  DialogInv'
<1>1. k' = [k EXCEPT !.form = form] /\ UNCHANGED <<kreqs, ksrv>>
  BY DEF K!InForm, K!Enters
<1>2. k' \in Panels /\ k'.form = form /\ k'.catalog = k.catalog
  BY <1>1 DEF DialogInv, Panels
<1> QED
  BY <1>1, <1>2 DEF DialogInv

\* A step that leaves the form's type, values and fields alone keeps the invariant.
LEMMA WizardStep ==
  ASSUME DialogInv, k' \in Panels, ksrv' \in Connected,
         k'.form.type = k.form.type, k'.form.values = k.form.values,
         k'.form.optional = k.form.optional, k.catalog => k'.catalog,
         \A r \in kreqs' : \E q \in kreqs :
           DOMAIN r = DOMAIN q /\ r.kind = q.kind /\ r.id = q.id /\ r.body = q.body
  PROVE  DialogInv'
<1>1. TypedFor(k'.form) /\ (~k'.catalog => k'.form.optional = {})
  BY DEF DialogInv, TypedFor, Panels
<1>2. ASSUME NEW r \in kreqs'
      PROVE  RequestBelongs(r)
  BY <1>2 DEF DialogInv, RequestBelongs
<1> QED
  BY <1>1, <1>2 DEF DialogInv

\* What the dialog sends holds the fields of its type, with values typed for it.
LEMMA SavedBelongs ==
  ASSUME DialogInv, K!handleSave
  PROVE  BodyBelongs([type |-> k.form.type, metadata |-> K!metadata, catalog |-> k.catalog])
<1> DEFINE type == k.form.type
<1>1. /\ k.form \in Forms /\ type \in StoreTypes /\ k.catalog \in BOOLEAN
      /\ k.form.values \in [K!Fields -> StoreTypes \cup {None, K!Invalid}]
      /\ TypedFor(k.form)
  BY DEF DialogInv, Panels, Forms
<1>2. /\ ~K!numberInvalid /\ \A f \in K!required : k.form.values[f] # None
  BY DEF K!handleSave, K!canSave
<1>3. /\ K!required \subseteq RequiredOf[type] /\ K!required \subseteq K!allFields
      /\ k.catalog => K!required = RequiredOf[type]
  BY <1>1, FieldsOfType DEF K!required, K!allFields
<1>4. k.form.optional \subseteq OptionalOf[type] /\ k.form.optional \subseteq K!allFields
  BY <1>1 DEF K!allFields, DialogInv, TypedFor
<1>5. DOMAIN K!metadata = K!required \cup {f \in k.form.optional : k.form.values[f] # None}
  BY DEF K!metadata
<1>6. ASSUME NEW f \in DOMAIN K!metadata
      PROVE  K!metadata[f] = type
  <2>1. K!metadata[f] = k.form.values[f]
    BY <1>5 DEF K!metadata
  <2>2. f \in K!Fields
    BY <1>1, <1>3, <1>4, <1>5, FieldsOfType
  <2>3. f \in K!allFields /\ k.form.values[f] # None
    BY <1>2, <1>3, <1>4, <1>5
  <2>4. k.form.values[f] # K!Invalid
    BY <1>2, <2>3 DEF K!numberInvalid
  <2> QED
    BY <1>1, <2>1, <2>2, <2>3, <2>4 DEF TypedFor
<1>7. DOMAIN K!metadata \subseteq RequiredOf[type] \cup OptionalOf[type]
  BY <1>3, <1>4, <1>5
<1>8. k.catalog => RequiredOf[type] \subseteq DOMAIN K!metadata
  BY <1>3, <1>5
<1> QED
  BY <1>6, <1>7, <1>8 DEF BodyBelongs

\* Closing dialogs leaves the rest of the panel and the form's contents alone.
LEMMA ClosedPanel ==
  ASSUME NEW p \in Panels, NEW rs
  PROVE  LET new == K!Closed(p, rs) IN
         /\ new \in Panels /\ new.catalog = p.catalog
         /\ new.form.type = p.form.type /\ new.form.values = p.form.values
         /\ new.form.optional = p.form.optional
<1> DEFINE new == K!Closed(p, rs)
           opened == p.form.open /\ \A r \in rs : r.kind # "add"
           pending == IF \E r \in rs : r.kind = "delete" THEN None ELSE p.pendingDelete
<1>1. opened \in BOOLEAN /\ pending \in Connections \cup {None}
  BY DEF Panels
<1>2. new = [p EXCEPT !.form.open = opened, !.pendingDelete = pending]
  BY DEF K!Closed
<1> HIDE DEF new, opened, pending
<1> QED
  BY <1>1, <1>2 DEF Panels, Forms, new

\* Every step of the panel keeps the invariant.
LEMMA DialogStep ==
  ASSUME DialogInv, K!KNext
  PROVE  DialogInv'
<1>0. /\ k \in Panels /\ k.form \in Forms /\ ksrv \in Connected /\ TypedFor(k.form)
      /\ k.form.type \in StoreTypes /\ k.form.optional \subseteq K!Fields
      /\ k.form.values \in [K!Fields -> StoreTypes \cup {None, K!Invalid}]
  BY DEF DialogInv, Panels, Forms
<1>1. ASSUME K!addConnection PROVE DialogInv'
  <2> DEFINE form == [K!NoForm EXCEPT !.open = TRUE]
  <2>1. k' = [k EXCEPT !.form = form] /\ UNCHANGED <<kreqs, ksrv>>
    BY <1>1 DEF K!addConnection, K!Enters
  <2>2. form \in Forms /\ TypedFor(form) /\ form.optional = {}
    BY BlankForm DEF Forms, TypedFor
  <2> HIDE DEF form
  <2>3. k' \in Panels /\ k'.form = form
    BY <1>0, <2>1, <2>2 DEF Panels
  <2> QED
    BY <2>1, <2>2, <2>3 DEF DialogInv
<1>2. ASSUME K!setName PROVE DialogInv'
  <2> DEFINE form == [k.form EXCEPT !.name = ~@]
  <2>1. form \in Forms /\ TypedFor(form) /\ form.optional = k.form.optional
    BY <1>0 DEF Forms, TypedFor
  <2>2. K!InForm(form)
    BY <1>2 DEF K!setName
  <2> HIDE DEF form
  <2> QED
    BY <2>1, <2>2, FormStep DEF DialogInv
<1>3. ASSUME NEW t \in StoreTypes, K!setType(t) PROVE DialogInv'
  <2> DEFINE form == [k.form EXCEPT !.type = t, !.values = K!NoForm.values, !.optional = {}]
  <2>1. form \in Forms /\ form.optional = {} /\ form.values = [f \in K!Fields |-> None]
    BY <1>0, BlankForm DEF Forms
  <2>2. K!InForm(form)
    BY <1>3 DEF K!setType
  <2> HIDE DEF form
  <2>3. TypedFor(form)
    BY <2>1 DEF TypedFor
  <2> QED
    BY <2>1, <2>2, <2>3, FormStep
<1>4. ASSUME NEW f \in K!Fields, NEW v \in {None, k.form.type, K!Invalid}, K!setValue(f, v)
      PROVE  DialogInv'
  <2> DEFINE form == [k.form EXCEPT !.values[f] = v]
  <2>1. /\ form \in Forms /\ form.optional = k.form.optional /\ form.type = k.form.type
        /\ \A g \in K!Fields : form.values[g] \in {k.form.values[g], v}
    BY <1>0 DEF Forms
  <2>2. K!InForm(form)
    BY <1>4 DEF K!setValue
  <2> HIDE DEF form
  <2>3. TypedFor(form)
    BY <1>0, <2>1 DEF TypedFor
  <2> QED
    BY <2>1, <2>2, <2>3, FormStep DEF DialogInv
<1>5. ASSUME NEW f \in K!Fields, K!addOptional(f) PROVE DialogInv'
  <2> DEFINE form == [k.form EXCEPT !.optional = @ \cup {f}]
  <2>1. k.catalog /\ f \in OptionalOf[k.form.type]
    BY <1>5 DEF K!addOptional, K!optionalPool
  <2>2. /\ form \in Forms /\ form.optional = k.form.optional \cup {f}
        /\ form.type = k.form.type /\ form.values = k.form.values
    BY <1>0 DEF Forms
  <2>3. K!InForm(form)
    BY <1>5 DEF K!addOptional
  <2> HIDE DEF form
  <2>4. TypedFor(form)
    BY <1>0, <2>1, <2>2 DEF TypedFor
  <2> QED
    BY <2>1, <2>2, <2>3, <2>4, FormStep
<1>6. ASSUME NEW f \in K!Fields, K!removeOptional(f) PROVE DialogInv'
  <2> DEFINE form == [k.form EXCEPT !.optional = @ \ {f}, !.values[f] = None]
  <2>1. /\ form \in Forms /\ form.optional = k.form.optional \ {f} /\ form.type = k.form.type
        /\ \A g \in K!Fields : form.values[g] \in {k.form.values[g], None}
    BY <1>0 DEF Forms
  <2>2. K!InForm(form)
    BY <1>6 DEF K!removeOptional
  <2> HIDE DEF form
  <2>3. TypedFor(form)
    BY <1>0, <2>1 DEF TypedFor
  <2> QED
    BY <2>1, <2>2, <2>3, FormStep DEF DialogInv
<1>7. ASSUME K!closeForm PROVE DialogInv'
  <2> DEFINE form == [k.form EXCEPT !.open = FALSE]
  <2>1. form \in Forms /\ TypedFor(form) /\ form.optional = k.form.optional
    BY <1>0 DEF Forms, TypedFor
  <2>2. K!InForm(form)
    BY <1>7 DEF K!closeForm
  <2> HIDE DEF form
  <2> QED
    BY <2>1, <2>2, FormStep DEF DialogInv
<1>8. ASSUME NEW id \in Connections, K!openDeleteConfirm(id) PROVE DialogInv'
  <2>1. k' = [k EXCEPT !.pendingDelete = id] /\ UNCHANGED <<kreqs, ksrv>>
    BY <1>8 DEF K!openDeleteConfirm, K!Enters
  <2>2. k' \in Panels /\ k'.form = k.form /\ k'.catalog = k.catalog
    BY <1>0, <2>1 DEF Panels
  <2> QED
    BY <1>0, <2>1, <2>2, WizardStep
<1>9. ASSUME K!closeDeleteConfirm PROVE DialogInv'
  <2>1. k' = [k EXCEPT !.pendingDelete = None] /\ UNCHANGED <<kreqs, ksrv>>
    BY <1>9 DEF K!closeDeleteConfirm, K!Enters
  <2>2. k' \in Panels /\ k'.form = k.form /\ k'.catalog = k.catalog
    BY <1>0, <2>1 DEF Panels
  <2> QED
    BY <1>0, <2>1, <2>2, WizardStep
<1>10. ASSUME K!handleSave PROVE DialogInv'
  <2> DEFINE body == [type |-> k.form.type, metadata |-> K!metadata, catalog |-> k.catalog]
             r == [kind |-> "add", id |-> NewId, body |-> body, n |-> kg.sent + 1,
                   done |-> FALSE, awaits |-> FALSE]
  <2>1. kreqs' = kreqs \cup {r} /\ UNCHANGED <<k, ksrv>>
    BY <1>10 DEF K!handleSave, K!Send
  <2>2. BodyBelongs(body)
    BY <1>10, SavedBelongs
  <2>3. {"kind", "id", "body"} \subseteq DOMAIN r /\ r.body = body /\ r.id \in Connections
    BY CatalogueAssumption
  <2> HIDE DEF body, r
  <2> QED
    BY <2>1, <2>2, <2>3 DEF DialogInv, RequestBelongs
<1>11. ASSUME K!handleConfirmDelete PROVE DialogInv'
  <2> DEFINE r == [kind |-> "delete", id |-> k.pendingDelete, body |-> None, n |-> kg.sent + 1,
                   done |-> FALSE, awaits |-> FALSE]
  <2>1. kreqs' = kreqs \cup {r} /\ UNCHANGED <<k, ksrv>>
    BY <1>11 DEF K!handleConfirmDelete, K!Send
  <2>2. {"kind", "id", "body"} \subseteq DOMAIN r /\ r.kind = "delete" /\ r.id \in Connections
    BY <1>0, <1>11 DEF K!handleConfirmDelete, Panels
  <2> HIDE DEF r
  <2> QED
    BY <2>1, <2>2 DEF DialogInv, RequestBelongs
<1>12. ASSUME NEW r \in kreqs, K!Serve(r) PROVE DialogInv'
  <2>1. /\ ksrv' = [ksrv EXCEPT !.ids = IF r.kind = "add" THEN @ \cup {r.id} ELSE @ \ {r.id}]
        /\ kreqs' = (kreqs \ {r}) \cup {[r EXCEPT !.done = TRUE]}
        /\ k' = k
    BY <1>12 DEF K!Serve
  <2>2. r.id \in Connections /\ {"kind", "id", "body"} \subseteq DOMAIN r
    BY DEF DialogInv, RequestBelongs
  <2>3. ksrv' \in Connected
    BY <1>0, <2>1, <2>2 DEF Connected
  <2> QED
    BY <1>0, <2>1, <2>2, <2>3, WizardStep
<1>13. ASSUME NEW r \in kreqs, K!Answered(r) PROVE DialogInv'
  <2>1. /\ k' = [K!Closed(k, K!Waiting) EXCEPT !.fetching = TRUE]
        /\ kreqs' = (kreqs \ (K!Waiting \cup {r})) \cup {[r EXCEPT !.awaits = TRUE]}
        /\ ksrv' = ksrv
    BY <1>13 DEF K!Answered
  <2>2. {"kind", "id", "body"} \subseteq DOMAIN r
    BY DEF DialogInv, RequestBelongs
  <2>3. /\ k' \in Panels /\ k'.catalog = k.catalog
        /\ k'.form.type = k.form.type /\ k'.form.values = k.form.values
        /\ k'.form.optional = k.form.optional
    BY <1>0, <2>1, ClosedPanel DEF Panels, Forms
  <2> QED
    BY <1>0, <2>1, <2>2, <2>3, WizardStep
<1>14. ASSUME NEW r \in kreqs, K!RequestFails(r) PROVE DialogInv'
  BY <1>0, <1>14, WizardStep DEF K!RequestFails
<1>15. ASSUME K!ListLands \/ K!ListFails PROVE DialogInv'
  <2> DEFINE closed == K!Closed(k, K!Waiting)
  <2>1. /\ \/ k' = [closed EXCEPT !.stores = ksrv, !.fetching = FALSE]
           \/ k' = [closed EXCEPT !.fetching = FALSE]
        /\ kreqs' = kreqs \ K!Waiting
        /\ ksrv' = ksrv
    BY <1>15 DEF K!ListLands, K!ListFails
  <2>2. /\ closed \in Panels /\ closed.catalog = k.catalog
        /\ closed.form.type = k.form.type /\ closed.form.values = k.form.values
        /\ closed.form.optional = k.form.optional
    BY <1>0, ClosedPanel
  <2> HIDE DEF closed
  <2>3. k' \in Panels /\ k'.catalog = closed.catalog /\ k'.form = closed.form
    BY <1>0, <2>1, <2>2 DEF Panels
  <2> QED
    BY <1>0, <2>1, <2>2, <2>3, WizardStep
<1>16. ASSUME K!CatalogLands PROVE DialogInv'
  <2>1. k' = [k EXCEPT !.catalog = TRUE] /\ UNCHANGED <<kreqs, ksrv>>
    BY <1>16 DEF K!CatalogLands
  <2>2. k' \in Panels /\ k'.form = k.form /\ k'.catalog
    BY <1>0, <2>1 DEF Panels
  <2> QED
    BY <1>0, <2>1, <2>2, WizardStep
<1>17. ASSUME NEW id \in Connections, K!Elected(id) PROVE DialogInv'
  <2>1. ksrv' = [ksrv EXCEPT !.active = id] /\ UNCHANGED <<k, kreqs>>
    BY <1>17 DEF K!Elected
  <2>2. ksrv' \in Connected
    BY <1>0, <2>1 DEF Connected
  <2> QED
    BY <1>0, <2>1, <2>2, WizardStep
<1> QED
  BY <1>1, <1>2, <1>3, <1>4, <1>5, <1>6, <1>7, <1>8, <1>9, <1>10, <1>11, <1>12, <1>13,
     <1>14, <1>15, <1>16, <1>17 DEF K!KNext

\* The panel starts with a blank form and no request.
LEMMA DialogInit == K!KInit => DialogInv
  BY BlankForm, CatalogueAssumption DEF K!KInit, DialogInv, Panels, Connected

\* What the wizard emits and the dialog sends belongs to the component or type
\* chosen (component-builder/reducer.ts, StateStoreConnectionDialog.tsx).
THEOREM ConfigAlwaysBelongs == Spec => []ConfigBelongs
<1>1. Init => ComponentInv /\ DialogInv
  BY ComponentInit, DialogInit DEF Init
<1>2. ComponentInv /\ [Next]_vars => ComponentInv'
  <2> SUFFICES ASSUME ComponentInv, [Next]_vars PROVE ComponentInv'
    OBVIOUS
  <2>1. CASE BuildComponent
    BY <2>1, ComponentStep DEF BuildComponent
  <2>2. CASE UNCHANGED cvars
    BY <2>2 DEF cvars, ComponentInv, Belongs, C!activeFields, C!fieldSatisfied
  <2>3. BuildComponent \/ UNCHANGED cvars
    BY DEF Next, vars, Workflows, State, WorkflowDetail, Logs, BuildResiliency,
           Applications, StoreConnections
  <2> QED
    BY <2>1, <2>2, <2>3
<1>3. DialogInv /\ [Next]_vars => DialogInv'
  <2> SUFFICES ASSUME DialogInv, [Next]_vars PROVE DialogInv'
    OBVIOUS
  <2>1. CASE StoreConnections
    BY <2>1, DialogStep DEF StoreConnections
  <2>2. CASE UNCHANGED kvars
    BY <2>2 DEF kvars, DialogInv
  <2>3. StoreConnections \/ UNCHANGED kvars
    BY DEF Next, vars, Workflows, State, WorkflowDetail, Logs, BuildResiliency,
           Applications, BuildComponent
  <2> QED
    BY <2>1, <2>2, <2>3
<1>4. ComponentInv /\ DialogInv => ConfigBelongs
  <2>1. DialogInv => K!ConfigBelongs
    BY DEF DialogInv, RequestBelongs, BodyBelongs, K!ConfigBelongs
  <2> QED
    BY <2>1, ComponentPromise DEF ConfigBelongs
<1> QED
  BY <1>1, <1>2, <1>3, <1>4, PTL DEF Spec
=============================================================================
