------------------------------- MODULE StatePage -------------------------------
(***************************************************************************)
(* The page that lists a store's records, shows one's value, deletes them  *)
(* in bulk and adds new ones (src/web/src/pages/State.tsx, with            *)
(* NewStateRecordDialog.tsx).  Unlike the workflow page it keeps no rows   *)
(* while a new page loads, and its dialogs stay usable while a request is  *)
(* in flight: several deletes and writes may be under way at once.         *)
(***************************************************************************)
EXTENDS ListPage

CONSTANTS Stores,       \* store ids
          StoreLists,   \* the store lists the server may report
          AppOf,        \* [record -> the app id its key starts with]
          Internal,     \* the records that are not the app's own
          Hits,         \* the records the search text matches
          Base64,       \* the records shown in base64
          Churn,        \* the changes other actors may make to the records
          MaxActs,      \* bound: user actions
          MaxChanges,   \* bound: changes the server makes on its own
          MaxRequests   \* bound: writes and deletes sent

VARIABLES s,     \* the page's state
          sq,    \* its list query
          sreqs, \* the deletes and writes in flight
          ssrv,  \* the server: store list, and the records behind each identity
          sg     \* history: what was selected where, and what lags

svars == <<s, sq, sreqs, ssrv, sg>>

Apps == Range(AppOf)
Searches == {"", "hit"}
AnyApp == "all"

(* The open row's value panel, and the dialog for a new record. *)
NoPanel == [key |-> None, value |-> None, fetching |-> FALSE]
NoForm == [open |-> FALSE, key |-> None, value |-> FALSE, req |-> 0,
           status |-> "idle", of |-> None]

Mount(url, remembered) ==
  [store |-> None, stores |-> None, app |-> url.app, searchInput |-> url.search,
   search |-> url.search, internal |-> FALSE, decode |-> FALSE, page |-> url.page,
   history |-> <<>>, offset |-> 0, panel |-> NoPanel, selected |-> {}, open |-> FALSE,
   form |-> NoForm, notice |-> FALSE, latest |-> 0, remembered |-> remembered]

urlOf(p) == [app |-> p.app, search |-> p.search, page |-> p.page]
FrontPage == [app |-> AnyApp, search |-> "", page |-> None]

resetPaging(p) ==
  [p EXCEPT !.page = None, !.history = <<>>, !.offset = 0, !.panel = NoPanel,
            !.selected = {}]

-----------------------------------------------------------------------------
(* The list query and what the page shows of it. *)

useStateRecords(p) ==
  [store |-> p.store, app |-> p.app, search |-> p.search, internal |-> p.internal,
   page |-> p.page]

Answer(db, k) ==
  LET there == {r \in Keys : db[Identity[k.store]][r] # None /\ k.app \in {AnyApp, AppOf[r]}}
      hits  == {r \in there : /\ k.search = "hit" => r \in Hits
                              /\ r \in Internal => k.internal}
  IN  ServerPage(there, hits, k.page)

data == entry(sq, useStateRecords(s))
isError == data.error
items == IF isError THEN {} ELSE Range(data.rows)

noStores == s.stores # None /\ s.stores.ids = <<>>
Rendered == ~noStores

appIds(store) ==
  {AppOf[r] : r \in {x \in Keys : /\ ssrv.db[Identity[store]][x] # None
                                  /\ x \in Internal => s.internal}}

(* The panel is on screen only while its row is, and its query has the store *)
(* in its key: a row that returns, or is in another store, has its value     *)
(* fetched anew.                                                             *)
Panel(p, q) ==
  LET e == entry(q, useStateRecords(p)) IN
  IF \/ p.panel.key = None
     \/ p.store = s.store /\ ~e.error /\ p.panel.key \in Range(e.rows)
  THEN p.panel
  ELSE [p.panel EXCEPT !.value = None, !.fetching = TRUE]

-----------------------------------------------------------------------------
Page(p) ==
  /\ sq' = observe(sq, useStateRecords(s), useStateRecords(p))
  /\ s' = [p EXCEPT !.panel = Panel(p, observe(sq, useStateRecords(s), useStateRecords(p)))]

User == sg.acts < MaxActs /\ Rendered /\ ~s.open /\ ~s.form.open
Table == User /\ ~isError /\ items # {}
Acted == [sg EXCEPT !.acts = @ + 1]

UserSets(p) ==
  /\ User /\ Page(p)
  /\ sg' = [Acted EXCEPT !.fell = @ /\ p.selected # {}]
  /\ UNCHANGED <<sreqs, ssrv>>

onStoreChange(id) ==
  /\ User /\ s.stores # None /\ id \in dedupeStores(s.stores) \ {s.store}
  /\ UserSets(resetPaging([s EXCEPT !.store = id, !.remembered = id, !.app = AnyApp]))

selectApp(a) ==
  /\ User /\ s.store # None /\ a \in ({AnyApp} \cup appIds(s.store)) \ {s.app}
  /\ UserSets(resetPaging([s EXCEPT !.app = a]))

search(t) == t # s.searchInput /\ UserSets(resetPaging([s EXCEPT !.searchInput = t]))

toggleInternal == UserSets(resetPaging([s EXCEPT !.internal = ~@]))

toggleDecode == User /\ items \cap Base64 # {} /\ UserSets([s EXCEPT !.decode = ~@])

Check(sel) ==
  /\ s' = [s EXCEPT !.selected = sel]
  /\ sg' = [Acted EXCEPT !.seen = @ \cup {<<s.store, r>> : r \in sel \cap items},
                         !.fell = @ /\ sel # {}]
  /\ UNCHANGED <<sq, sreqs, ssrv>>

toggleRow(r) ==
  /\ Table /\ r \in items
  /\ Check(IF r \in s.selected THEN s.selected \ {r} ELSE s.selected \cup {r})

toggleAll ==
  /\ Table
  /\ Check(IF Cardinality(s.selected) = Cardinality(items) THEN {} ELSE items)

expandRow(r) ==
  /\ Table /\ r \in items
  /\ UserSets([s EXCEPT !.panel =
                 IF @.key = r THEN NoPanel
                 ELSE [key |-> r, value |-> None, fetching |-> TRUE]])

prevPage ==
  /\ s.history # <<>>
  /\ UserSets([s EXCEPT !.page = Last(s.history).token, !.offset = Last(s.history).offset,
                        !.history = Front(s.history), !.panel = NoPanel, !.selected = {}])

nextPage ==
  /\ User /\ ~isError /\ data.next # None
  /\ UserSets([s EXCEPT !.history = Append(@, [token |-> s.page, offset |-> s.offset]),
                        !.offset = @ + Cardinality(items), !.page = data.next,
                        !.panel = NoPanel, !.selected = {}])

dismiss == s.notice /\ UserSets([s EXCEPT !.notice = FALSE])

-----------------------------------------------------------------------------
(* The dialogs.  A request is numbered; the page hears of the latest delete *)
(* only, the form of the write it last sent.                                *)

Dialog(p) == s' = p /\ UNCHANGED <<sq, ssrv>>

Send(r) == sg.sent < MaxRequests /\ sreqs' = sreqs \cup {r}
           /\ sg' = [sg EXCEPT !.sent = @ + 1]

bulkDelete ==
  /\ User /\ s.selected # {} /\ ~isError
  /\ Dialog([s EXCEPT !.notice = FALSE, !.open = TRUE])
  /\ sg' = Acted /\ UNCHANGED sreqs

cancelDelete == s.open /\ Rendered /\ Dialog([s EXCEPT !.open = FALSE]) /\ UNCHANGED <<sg, sreqs>>

onConfirmDelete ==
  /\ s.open /\ Rendered
  /\ Send([n |-> sg.sent + 1, kind |-> "delete", keys |-> s.selected, store |-> s.store,
           fell |-> sg.fell, answer |-> None])
  /\ Dialog([s EXCEPT !.latest = sg.sent + 1])

(* Opening the form empties it and forgets the last write. *)
newRecord ==
  /\ User /\ s.stores # None /\ s.store # None /\ ~isError
  /\ Dialog([s EXCEPT !.form = [NoForm EXCEPT !.open = TRUE]])
  /\ sg' = Acted /\ UNCHANGED sreqs

closeForm == s.form.open /\ Rendered /\ Dialog([s EXCEPT !.form.open = FALSE]) /\ UNCHANGED <<sg, sreqs>>

InForm == s.form.open /\ Rendered /\ s.form.status # "success"

(* The form's fields: a failure shown is retired by an edit of the key. *)
editKeyPart(k) ==
  /\ InForm /\ sg.acts < MaxActs /\ k # s.form.key
  /\ Dialog([s EXCEPT !.form.key = k,
                      !.form.status = IF @ \in {"conflict", "error"} THEN "idle" ELSE @])
  /\ sg' = Acted /\ UNCHANGED sreqs

setValue ==
  /\ InForm
  /\ Dialog([s EXCEPT !.form.value = ~@])
  /\ UNCHANGED <<sg, sreqs>>

canSave == s.form.key # None /\ s.form.value

submit(overwrite) ==
  /\ InForm
  /\ s.form.status \in (IF overwrite THEN {"conflict"} ELSE {"idle", "error"})
  /\ overwrite \/ canSave
  /\ Send([n |-> sg.sent + 1, kind |-> "write", keys |-> {s.form.key}, store |-> s.store,
           overwrite |-> overwrite, answer |-> None])
  /\ Dialog([s EXCEPT !.form = [@ EXCEPT !.req = sg.sent + 1, !.status = "pending"]])

(* The server deletes the records it can, writes a free key, refuses one *)
(* that is taken unless told to overwrite it.                            *)
Serve(r) ==
  /\ r.answer = None
  /\ \E ok \in SUBSET r.keys, answer \in {"ok", "conflict"} :
       /\ r.kind = "delete" => answer = "ok"
       /\ r.kind = "write" =>
            answer = IF ~r.overwrite /\ \E k \in r.keys : ssrv.db[Identity[r.store]][k] # None
                     THEN "conflict" ELSE "ok"
       /\ r.kind = "write" => ok = IF answer = "ok" THEN r.keys ELSE {}
       /\ ssrv' = [ssrv EXCEPT !.db[Identity[r.store]] =
                     [k \in Keys |-> IF k \notin ok THEN @[k]
                                     ELSE IF r.kind = "write" THEN "new" ELSE None]]
       /\ sreqs' = (sreqs \ {r}) \cup {[r EXCEPT !.answer = answer]}
  /\ UNCHANGED <<s, sq, sg>>

(* Everything read from the store is asked for again after a change. *)
invalidateKeyspace(p) ==
  /\ sq' = startFetch(sq, useStateRecords(p))
  /\ s' = [p EXCEPT !.panel.fetching = p.panel.key # None]

(* The answer reaches whoever still listens for it. *)
Hears(r, status) ==
  IF r.kind = "delete"
  THEN IF r.n # s.latest THEN s
       ELSE IF status = "success"
       THEN [s EXCEPT !.notice = TRUE, !.selected = {}, !.open = FALSE]
       ELSE [s EXCEPT !.open = FALSE]
  ELSE IF r.n # s.form.req THEN s
       ELSE [s EXCEPT !.form = [@ EXCEPT !.status = status, !.of = <<r.store, r.keys>>]]

AnsweredNotInvalidated(r) ==
  /\ r.answer = "ok"
  /\ s' = Hears(r, "success")
  /\ sreqs' = sreqs \ {r}
  /\ UNCHANGED <<sq, ssrv, sg>>

Answered(r) ==
  /\ r.answer = "ok"
  /\ invalidateKeyspace(Hears(r, "success"))
  /\ sreqs' = sreqs \ {r}
  /\ UNCHANGED <<ssrv, sg>>

Conflicts(r) ==
  /\ r.answer = "conflict"
  /\ s' = Hears(r, "conflict")
  /\ sreqs' = sreqs \ {r}
  /\ UNCHANGED <<sq, ssrv, sg>>

(* No answer, or a failure: the server may have acted all the same. *)
RequestFails(r) ==
  /\ s' = Hears(r, "error")
  /\ sreqs' = sreqs \ {r}
  /\ sg' = [sg EXCEPT !.behind = @ \/ r.answer = "ok", !.panelBehind = @ \/ r.answer = "ok"]
  /\ UNCHANGED <<sq, ssrv>>

-----------------------------------------------------------------------------
(* What arrives on its own. *)

StoresLand ==
  /\ s.stores # ssrv.stores
  /\ LET id == resolveStore(s.store, ssrv.stores, s.remembered) IN
       /\ Page([s EXCEPT !.stores = ssrv.stores, !.store = id,
                         !.form = IF ssrv.stores.ids = <<>>
                                  THEN [NoForm EXCEPT !.open = s.form.open] ELSE @])
       /\ sg' = [sg EXCEPT !.fell = @ \/ (id # s.store /\ s.selected # {})]
  /\ UNCHANGED <<sreqs, ssrv>>

Debounce ==
  /\ s.searchInput # s.search
  /\ Page([s EXCEPT !.search = s.searchInput])
  /\ UNCHANGED <<sreqs, ssrv, sg>>

ListLands ==
  /\ sq.fetching
  /\ sq' = land(sq, useStateRecords(s), Answer(ssrv.db, useStateRecords(s)))
  /\ s' = [s EXCEPT !.panel =
             Panel(s, land(sq, useStateRecords(s), Answer(ssrv.db, useStateRecords(s))))]
  /\ sg' = [sg EXCEPT !.behind = FALSE]
  /\ UNCHANGED <<sreqs, ssrv>>

ListFails ==
  /\ sq.fetching /\ sg.changes < MaxChanges
  /\ sq' = fail(sq, useStateRecords(s))
  /\ s' = [s EXCEPT !.panel = Panel(s, fail(sq, useStateRecords(s)))]
  /\ sg' = [sg EXCEPT !.changes = @ + 1]
  /\ UNCHANGED <<sreqs, ssrv>>

(* The list is on the refresh interval; the open value is a snapshot. *)
Poll ==
  /\ s.store # None /\ ~sq.fetching
  /\ sq' = startFetch(sq, useStateRecords(s))
  /\ UNCHANGED <<s, sreqs, ssrv, sg>>

(* The value lands while its panel is on screen. *)
PanelLands ==
  /\ s.panel.fetching /\ s.panel.key \in items
  /\ s' = [s EXCEPT !.panel = [@ EXCEPT !.value = ssrv.db[Identity[s.store]][s.panel.key],
                                        !.fetching = FALSE]]
  /\ sg' = [sg EXCEPT !.panelBehind = FALSE]
  /\ UNCHANGED <<sq, sreqs, ssrv>>

Reload ==
  /\ sg.acts < MaxActs
  /\ s' = Mount(urlOf(s), s.remembered)
  /\ sq' = NoQuery
  /\ sreqs' = {}
  /\ sg' = [Acted EXCEPT !.seen = {}, !.fell = FALSE, !.behind = @ \/ sreqs # {}]
  /\ UNCHANGED ssrv

Changed == sg.changes < MaxChanges
           /\ sg' = [sg EXCEPT !.changes = @ + 1, !.behind = TRUE, !.panelBehind = TRUE]
           /\ UNCHANGED <<s, sq, sreqs>>

RecordChanges(c) ==
  /\ Changed /\ c.to # ssrv.db[c.at][c.id]
  /\ ssrv' = [ssrv EXCEPT !.db[c.at][c.id] = c.to]

StoresChange(list) ==
  Changed /\ list # ssrv.stores /\ ssrv' = [ssrv EXCEPT !.stores = list]

-----------------------------------------------------------------------------
SInit(db, list) ==
  /\ s = Mount(FrontPage, None)
  /\ sq = NoQuery
  /\ sreqs = {}
  /\ ssrv = [stores |-> list, db |-> db]
  /\ sg = [seen |-> {}, fell |-> FALSE, behind |-> FALSE, panelBehind |-> FALSE,
           acts |-> 0, changes |-> 0, sent |-> 0]

SNext ==
  \/ \E id \in Stores : onStoreChange(id)
  \/ \E a \in Apps \cup {AnyApp} : selectApp(a)
  \/ \E t \in Searches : search(t)
  \/ toggleInternal
  \/ toggleDecode
  \/ \E r \in Keys : toggleRow(r)
  \/ toggleAll
  \/ \E r \in Keys : expandRow(r)
  \/ prevPage
  \/ nextPage
  \/ dismiss
  \/ bulkDelete
  \/ cancelDelete
  \/ onConfirmDelete
  \/ newRecord
  \/ closeForm
  \/ \E k \in Keys : editKeyPart(k)
  \/ setValue
  \/ \E overwrite \in BOOLEAN : submit(overwrite)
  \/ \E r \in sreqs : \/ Serve(r)
                      \/ Answered(r)
                      \/ Conflicts(r)
                      \/ RequestFails(r)
  \/ StoresLand
  \/ Debounce
  \/ ListLands
  \/ ListFails
  \/ Poll
  \/ PanelLands
  \/ Reload
  \/ \E c \in Churn : RecordChanges(c)
  \/ \E list \in StoreLists : StoresChange(list)
-----------------------------------------------------------------------------
(* A delete in flight names only records the user checked in the store it   *)
(* is sent to (State.tsx onConfirmDelete), with the exception of a store    *)
(* that vanished from the list under the selection.                         *)
RemovalWasChosen ==
  \A r \in sreqs : r.kind = "delete" /\ ~r.fell
                     => \A k \in r.keys : <<r.store, k>> \in sg.seen

(* Once no write or delete is in flight and no answer is awaited, the list  *)
(* and the open row's value are what the server would answer, unless        *)
(* something else changed it since or an answer was lost: every success     *)
(* invalidates both queries (useStateRecords.ts invalidateKeyspace).        *)
ListCatchesUp ==
  sreqs = {} =>
    /\ ~sg.behind /\ ~sq.fetching /\ data.has /\ ~isError
         => [rows |-> data.rows, next |-> data.next] = Answer(ssrv.db, useStateRecords(s))
    /\ ~sg.panelBehind /\ s.panel.key # None /\ s.panel.key \in items /\ ~s.panel.fetching
         => s.panel.value = ssrv.db[Identity[s.store]][s.panel.key]

(* The Overwrite button is up only for the key the conflict was about       *)
(* (NewStateRecordDialog.tsx editKeyPart clears a conflict so that a rename *)
(* cannot offer to clobber a record the user never saw).                    *)
OverwriteIsForThatKey ==
  s.form.open /\ s.form.status = "conflict" => s.form.of = <<s.store, {s.form.key}>>
=============================================================================
