----------------------------- MODULE WorkflowsPage -----------------------------
(***************************************************************************)
(* The page that lists workflow executions and removes them in bulk        *)
(* (src/web/src/pages/Workflows.tsx).  The user filters, pages, selects    *)
(* rows and confirms a removal while store lists, list answers, the search *)
(* debounce and the answer of the removal arrive in any order, and the     *)
(* server's instances come, finish and go.                                 *)
(***************************************************************************)
EXTENDS ListPage

CONSTANTS Stores,       \* store ids
          StoreLists,   \* the store lists the server may report
          AppOf,        \* [instance -> the app it belongs to]
          Children,     \* the instances that are child workflows
          Hits,         \* the instances the search text matches
          LoadedBy,     \* [store -> the running app that loaded it, or None]
          Churn,        \* the changes other actors may make to the instances
          MaxActs,      \* bound: user actions
          MaxChanges    \* bound: changes the server makes on its own

VARIABLES w,     \* the page's state
          wq,    \* its list query
          wreq,  \* the removal in flight, if any
          wsrv,  \* the server: store list, and the instances behind each identity
          wg     \* history: what was selected where, and whether the list lags

wvars == <<w, wq, wreq, wsrv, wg>>

ALL_STATUSES == {"Running", "Completed"}
Apps == Range(AppOf)
Searches == {"", "hit"}
AnyApp == "all"
AnyStatus == "any"

Tokens == (DOMAIN KeyOrder) \cup {None}

(* The page as it mounts, from the filters the URL carries. *)
Mount(url, remembered, paused) ==
  [store |-> None, stores |-> None, app |-> url.app, defaulted |-> url.app # AnyApp,
   status |-> url.status, searchInput |-> url.search, search |-> url.search,
   children |-> TRUE, page |-> url.page, history |-> <<>>, offset |-> 0, selected |-> {},
   open |-> FALSE, initialForce |-> FALSE, force |-> FALSE, notice |-> FALSE,
   remembered |-> remembered, paused |-> paused]

(* What the URL keeps of the page's state. *)
urlOf(p) == [app |-> p.app, status |-> p.status, search |-> p.search, page |-> p.page]

FrontPage == [app |-> AnyApp, status |-> AnyStatus, search |-> "", page |-> None]

resetPagingOnly(p) ==
  [p EXCEPT !.page = None, !.history = <<>>, !.offset = 0]

resetPaging(p) ==
  [p EXCEPT !.page = None, !.history = <<>>, !.offset = 0, !.selected = {}]

-----------------------------------------------------------------------------
(* The list query: its key, its answer, what the page shows of it. *)

useWorkflows(p) ==
  [store |-> p.store, app |-> p.app, status |-> p.status, search |-> p.search,
   children |-> p.children, page |-> p.page]

(* The rows of the page key k asks for. *)
Answer(db, k) ==
  LET there == {i \in Keys : db[Identity[k.store]][i] # None /\ k.app \in {AnyApp, AppOf[i]}}
      hits  == {i \in there : /\ k.status \in {AnyStatus, db[Identity[k.store]][i]}
                              /\ k.search = "hit" => i \in Hits
                              /\ i \in Children => k.children}
      page  == ServerPage(there, hits, k.page)
  IN  [rows |-> [n \in DOMAIN page.rows |->
                   [id |-> page.rows[n], status |-> db[Identity[k.store]][page.rows[n]]]],
       next |-> page.next]

current == entry(wq, useWorkflows(w))

(* The previous rows stand in while a new page loads, within one store only. *)
keepPreviousWithinStore(store) == wq.last # None /\ wq.last.store = store

isError == current.error
updating == w.store # None /\ ~current.has /\ ~isError /\ keepPreviousWithinStore(w.store)
data == IF updating THEN entry(wq, wq.last) ELSE current

items == IF isError THEN {} ELSE {r.id : r \in Range(data.rows)}

noStores == w.stores # None /\ w.stores.ids = <<>>
Rendered == ~noStores

(* The app dropdown's options: the apps with instances in the store. *)
appIds(store) == {AppOf[i] : i \in {j \in Keys : wsrv.db[Identity[store]][j] # None}}

-----------------------------------------------------------------------------
(* One step of the page: its state, and the query it then observes. *)
Page(p) == w' = p /\ wq' = observe(wq, useWorkflows(w), useWorkflows(p))

(* The user acts on the page behind no dialog. *)
User == wg.acts < MaxActs /\ Rendered /\ ~w.open

(* ... with rows to click on. *)
Table == User /\ ~isError /\ items # {}

Acted == [wg EXCEPT !.acts = @ + 1]

UserSets(p) ==
  /\ User /\ Page(p)
  /\ wg' = [Acted EXCEPT !.fell = @ /\ p.selected # {}]
  /\ UNCHANGED <<wreq, wsrv>>

setStatus(s) == s # w.status /\ UserSets(resetPaging([w EXCEPT !.status = s]))

onStoreChange(s) ==
  /\ User /\ w.stores # None /\ s \in dedupeStores(w.stores) \ {w.store}
  /\ UserSets(resetPaging([w EXCEPT !.store = s, !.remembered = s, !.app = AnyApp]))

selectApp(a) ==
  /\ User /\ w.store # None /\ a \in ({AnyApp} \cup appIds(w.store)) \ {w.app}
  /\ UserSets(resetPaging([w EXCEPT !.app = a]))

search(t) == t # w.searchInput /\ UserSets(resetPaging([w EXCEPT !.searchInput = t]))

toggleChildren == UserSets(resetPaging([w EXCEPT !.children = ~@]))

(* What is checked is remembered with the store it was checked in. *)
Check(sel) ==
  /\ w' = [w EXCEPT !.selected = sel]
  /\ wg' = [Acted EXCEPT !.seen = @ \cup {<<w.store, i>> : i \in sel \cap items},
                         !.fell = @ /\ sel # {}]
  /\ UNCHANGED <<wq, wreq, wsrv>>

toggleRow(i) ==
  /\ Table /\ i \in items /\ ~updating
  /\ Check(IF i \in w.selected THEN w.selected \ {i} ELSE w.selected \cup {i})

toggleAll ==
  /\ Table /\ ~updating
  /\ Check(IF Cardinality(w.selected) = Cardinality(items) THEN {} ELSE items)

prevPage ==
  /\ w.history # <<>> /\ ~updating
  /\ UserSets([w EXCEPT !.page = Last(w.history).token, !.offset = Last(w.history).offset,
                        !.history = Front(w.history), !.selected = {}])

nextPage ==
  /\ User /\ ~isError /\ ~updating /\ data.next # None
  /\ UserSets([w EXCEPT !.history = Append(@, [token |-> w.page, offset |-> w.offset]),
                        !.offset = @ + Cardinality(items), !.page = data.next,
                        !.selected = {}])

setPaused == UserSets([w EXCEPT !.paused = ~@])

dismiss == w.notice /\ UserSets([w EXCEPT !.notice = FALSE])

-----------------------------------------------------------------------------
(* The removal: the selection bar opens the dialog, the dialog is busy while *)
(* the request is in flight.                                                *)

Dialog(p) == w' = p /\ UNCHANGED <<wq, wreq, wsrv>>

bulkRemove(force) ==
  /\ User /\ w.selected # {} /\ ~isError
  /\ Dialog([w EXCEPT !.notice = FALSE, !.open = TRUE,
                      !.initialForce = force, !.force = force])
  /\ wg' = Acted

InDialog == w.open /\ wreq = {} /\ Rendered

setForce ==
  /\ InDialog /\ wg.acts < MaxActs
  /\ Dialog([w EXCEPT !.force = ~@])
  /\ wg' = Acted

cancelRemove == InDialog /\ Dialog([w EXCEPT !.open = FALSE]) /\ UNCHANGED wg

onConfirmRemove ==
  /\ InDialog
  /\ wreq' = {[ids |-> w.selected, force |-> w.force, store |-> w.store,
               fell |-> wg.fell, done |-> FALSE]}
  /\ UNCHANGED <<w, wq, wsrv, wg>>

(* The server removes each instance or reports a failure for it. *)
Purge(r) ==
  /\ ~r.done
  /\ \E ok \in SUBSET r.ids :
       wsrv' = [wsrv EXCEPT !.db[Identity[r.store]] =
                  [i \in Keys |-> IF i \in ok THEN None ELSE @[i]]]
  /\ wreq' = {[r EXCEPT !.done = TRUE]}
  /\ UNCHANGED <<w, wq, wg>>

(* The answer: every list is asked for again, the selection is cleared. *)
Removed(r) ==
  /\ r.done
  /\ w' = [w EXCEPT !.notice = TRUE, !.selected = {}, !.open = FALSE]
  /\ wq' = startFetch(wq, useWorkflows(w))
  /\ wreq' = {}
  /\ UNCHANGED <<wsrv, wg>>

(* No answer, or an error: the dialog closes.  The server may have acted. *)
RemoveFailed(r) ==
  /\ w' = [w EXCEPT !.open = FALSE]
  /\ wreq' = {}
  /\ wg' = [wg EXCEPT !.behind = @ \/ r.done]
  /\ UNCHANGED <<wq, wsrv>>

-----------------------------------------------------------------------------
(* What arrives on its own. *)

(* The store list lands; the page settles on a store, keeping the selection. *)
(* With no store there is no page, and the dialog starts over.               *)
StoresLand ==
  /\ w.stores # wsrv.stores
  /\ LET s == resolveStore(w.store, wsrv.stores, w.remembered) IN
       /\ Page([w EXCEPT !.stores = wsrv.stores, !.store = s,
                         !.force = IF wsrv.stores.ids = <<>> THEN w.initialForce ELSE @])
       /\ wg' = [wg EXCEPT !.fell = @ \/ (s # w.store /\ w.selected # {})]
  /\ UNCHANGED <<wreq, wsrv>>

(* Once the store's apps are known: the app that loaded the active store. *)
DefaultApp ==
  /\ ~w.defaulted /\ w.store # None /\ w.stores # None /\ w.stores.ids # <<>>
  /\ LET a == LoadedBy[activeStore(w.stores)] IN
       Page([w EXCEPT !.defaulted = TRUE,
                      !.app = IF a # None /\ a \in appIds(w.store) THEN a ELSE @])
  /\ UNCHANGED <<wreq, wsrv, wg>>

(* 250 ms after the last keystroke. *)
Debounce ==
  /\ w.searchInput # w.search
  /\ Page([w EXCEPT !.search = w.searchInput])
  /\ UNCHANGED <<wreq, wsrv, wg>>

ListLands ==
  /\ wq.fetching
  /\ wq' = land(wq, useWorkflows(w), Answer(wsrv.db, useWorkflows(w)))
  /\ wg' = [wg EXCEPT !.behind = FALSE]
  /\ UNCHANGED <<w, wreq, wsrv>>

ListFails ==
  /\ wq.fetching /\ wg.changes < MaxChanges
  /\ wq' = fail(wq, useWorkflows(w))
  /\ wg' = [wg EXCEPT !.changes = @ + 1]
  /\ UNCHANGED <<w, wreq, wsrv>>

(* The interval asks again unless it is paused. *)
Poll ==
  /\ ~w.paused /\ w.store # None /\ ~wq.fetching
  /\ wq' = startFetch(wq, useWorkflows(w))
  /\ UNCHANGED <<w, wreq, wsrv, wg>>

(* The page is loaded again: the URL's filters and the local storage stay. *)
Reload ==
  /\ wg.acts < MaxActs
  /\ w' = Mount(urlOf(w), w.remembered, w.paused)
  /\ wq' = NoQuery
  /\ wreq' = {}
  /\ wg' = [Acted EXCEPT !.seen = {}, !.fell = FALSE,
                         !.behind = @ \/ wreq # {}]
  /\ UNCHANGED wsrv

Changed == wg.changes < MaxChanges
           /\ wg' = [wg EXCEPT !.changes = @ + 1, !.behind = TRUE]
           /\ UNCHANGED <<w, wq, wreq>>

(* Another actor starts, finishes or removes an instance. *)
InstanceChanges(c) ==
  /\ Changed /\ c.to # wsrv.db[c.at][c.id]
  /\ wsrv' = [wsrv EXCEPT !.db[c.at][c.id] = c.to]

StoresChange(list) ==
  Changed /\ list # wsrv.stores /\ wsrv' = [wsrv EXCEPT !.stores = list]

-----------------------------------------------------------------------------
WInit(db, list) ==
  /\ w = Mount(FrontPage, None, FALSE)
  /\ wq = NoQuery
  /\ wreq = {}
  /\ wsrv = [stores |-> list, db |-> db]
  /\ wg = [seen |-> {}, fell |-> FALSE, behind |-> FALSE, acts |-> 0, changes |-> 0]

WNext ==
  \/ \E s \in ALL_STATUSES \cup {AnyStatus} : setStatus(s)
  \/ \E s \in Stores : onStoreChange(s)
  \/ \E a \in Apps \cup {AnyApp} : selectApp(a)
  \/ \E t \in Searches : search(t)
  \/ toggleChildren
  \/ \E i \in Keys : toggleRow(i)
  \/ toggleAll
  \/ prevPage
  \/ nextPage
  \/ setPaused
  \/ dismiss
  \/ \E f \in BOOLEAN : bulkRemove(f)
  \/ setForce
  \/ cancelRemove
  \/ onConfirmRemove
  \/ \E r \in wreq : Purge(r)
  \/ \E r \in wreq : Removed(r)
  \/ \E r \in wreq : RemoveFailed(r)
  \/ StoresLand
  \/ DefaultApp
  \/ Debounce
  \/ ListLands
  \/ ListFails
  \/ Poll
  \/ Reload
  \/ \E c \in Churn : InstanceChanges(c)
  \/ \E list \in StoreLists : StoresChange(list)
-----------------------------------------------------------------------------
(* A removal in flight names only executions the user checked in the store  *)
(* it is sent to (Workflows.tsx onConfirmRemove sends selected with the     *)
(* store of that moment): no change of filter, page or store carries a      *)
(* selection over.  The exception is a store that vanished from the list    *)
(* while rows were checked: the page falls back to another under them.      *)
RemovalWasChosen ==
  \A r \in wreq : ~r.fell => \A i \in r.ids : <<r.store, i>> \in wg.seen

(* Once no removal is in flight and no answer is awaited, the list on       *)
(* screen is what the server would answer, unless something else changed    *)
(* the server since or the answer of a removal was lost: useRemoveWorkflows *)
(* invalidates the list however the filters moved meanwhile.                *)
ListCatchesUp ==
  wreq = {} /\ ~wg.behind /\ ~wq.fetching /\ current.has /\ ~isError
    => [rows |-> current.rows, next |-> current.next] = Answer(wsrv.db, useWorkflows(w))
=============================================================================
