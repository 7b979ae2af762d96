--------------------------- MODULE ConnectionsPanel ---------------------------
(***************************************************************************)
(* The panel of state store connections (src/web/src/components/           *)
(* StateStoreConnectionsPanel.tsx) and its dialog for a new one            *)
(* (StateStoreConnectionDialog.tsx).  Nothing polls the list: a success    *)
(* has to ask for it.  The handlers await their request, which is settled  *)
(* when the list has been fetched again, and then close whichever dialog   *)
(* is open.  A value is modelled by the store type it was typed for.       *)
(***************************************************************************)
EXTENDS Naturals, FiniteSets

CONSTANTS None,             \* no value: null, undefined or blank
          StoreTypes,       \* SUPPORTED_STORE_TYPES
          FirstType,        \* the first of them
          RequiredOf,       \* [type -> its required fields]
          OptionalOf,       \* [type -> its optional fields]
          SyntheticOf,      \* [type -> required fields the code adds to the catalogue's]
          Numeric,          \* fields that take a number
          Connections,      \* ids of connections
          NewId,            \* the id of the one the user may add
          FirstConnections, \* the server's connections and its active one
          MaxEntries,       \* bound: what the user enters and clicks
          MaxChanges,       \* bound: elections and failed fetches
          MaxRequests       \* bound: requests sent

VARIABLES k,      \* the panel: its list, dialogs and form
          kreqs,  \* requests in flight
          ksrv,   \* the server's list
          kg      \* history: whether the list may be behind; counters

kvars == <<k, kreqs, ksrv, kg>>

Invalid == "not a number"
Fields == UNION {RequiredOf[t] \cup OptionalOf[t] : t \in StoreTypes}

NoForm == [open |-> FALSE, name |-> FALSE, type |-> FirstType,
           values |-> [f \in Fields |-> None], optional |-> {}]

-----------------------------------------------------------------------------
(* The fields of a type: all of the catalogue's once it is loaded. *)
required == IF k.catalog THEN RequiredOf[k.form.type] ELSE SyntheticOf[k.form.type]
optionalPool == IF k.catalog THEN OptionalOf[k.form.type] \ k.form.optional ELSE {}
allFields == IF k.catalog THEN RequiredOf[k.form.type] \cup OptionalOf[k.form.type] ELSE required

numberInvalid == \E f \in allFields : k.form.values[f] = Invalid

canSave == /\ k.form.name /\ ~numberInvalid
           /\ \A f \in required : k.form.values[f] # None

metadata ==
  LET given == {f \in k.form.optional : k.form.values[f] # None} IN
  [f \in required \cup given |-> k.form.values[f]]

-----------------------------------------------------------------------------
Enters(p) ==
  /\ kg.acts < MaxEntries
  /\ k' = p
  /\ kg' = [kg EXCEPT !.acts = @ + 1]
  /\ UNCHANGED <<kreqs, ksrv>>

NoDialog == ~k.form.open /\ k.pendingDelete = None

addConnection == NoDialog /\ Enters([k EXCEPT !.form = [NoForm EXCEPT !.open = TRUE]])

InForm(form) == k.form.open /\ Enters([k EXCEPT !.form = form])

setName == InForm([k.form EXCEPT !.name = ~@])

setType(t) ==
  t # k.form.type /\ InForm([k.form EXCEPT !.type = t, !.values = NoForm.values, !.optional = {}])

setValue(f, v) ==
  /\ f \in required \cup (k.form.optional \cap allFields)
  /\ v = Invalid => f \in Numeric
  /\ v # k.form.values[f] /\ InForm([k.form EXCEPT !.values[f] = v])

addOptional(f) == f \in optionalPool /\ InForm([k.form EXCEPT !.optional = @ \cup {f}])

removeOptional(f) ==
  /\ f \in k.form.optional \cap allFields
  /\ InForm([k.form EXCEPT !.optional = @ \ {f}, !.values[f] = None])

closeForm == InForm([k.form EXCEPT !.open = FALSE])

openDeleteConfirm(id) ==
  /\ NoDialog /\ k.stores # None /\ id \in k.stores.ids /\ id # k.stores.active
  /\ Enters([k EXCEPT !.pendingDelete = id])

closeDeleteConfirm == k.pendingDelete # None /\ Enters([k EXCEPT !.pendingDelete = None])

(* Neither dialog is busy while its request is in flight: it may be *)
(* confirmed again, or closed and opened for something else.        *)
Send(kind, id, body) ==
  /\ kg.sent < MaxRequests
  /\ kreqs' = kreqs \cup {[kind |-> kind, id |-> id, body |-> body, n |-> kg.sent + 1,
                           done |-> FALSE, awaits |-> FALSE]}
  /\ kg' = [kg EXCEPT !.sent = @ + 1]
  /\ UNCHANGED <<k, ksrv>>

handleSave ==
  /\ k.form.open /\ canSave
  /\ Send("add", NewId, [type |-> k.form.type, metadata |-> metadata, catalog |-> k.catalog])

handleConfirmDelete ==
  k.pendingDelete # None /\ Send("delete", k.pendingDelete, None)

-----------------------------------------------------------------------------
(* The server refuses to add a name it has, and to delete the active store. *)
Serve(r) ==
  /\ ~r.done
  /\ IF r.kind = "add" THEN r.id \notin ksrv.ids
     ELSE r.id \in ksrv.ids /\ r.id # ksrv.active
  /\ ksrv' = [ksrv EXCEPT !.ids = IF r.kind = "add" THEN @ \cup {r.id} ELSE @ \ {r.id}]
  /\ kreqs' = (kreqs \ {r}) \cup {[r EXCEPT !.done = TRUE]}
  /\ UNCHANGED <<k, kg>>

(* The handlers of settled requests go on after their await. *)
Closed(p, rs) ==
  [p EXCEPT !.form.open = @ /\ \A r \in rs : r.kind # "add",
            !.pendingDelete = IF \E r \in rs : r.kind = "delete" THEN None ELSE @]

Waiting == {r \in kreqs : r.awaits}

(* Success: the list is asked for again, an earlier fetch of it cancelled. *)
Answered(r) ==
  /\ r.done /\ ~r.awaits
  /\ k' = [Closed(k, Waiting) EXCEPT !.fetching = TRUE]
  /\ kreqs' = (kreqs \ (Waiting \cup {r})) \cup {[r EXCEPT !.awaits = TRUE]}
  /\ UNCHANGED <<ksrv, kg>>

(* Refused, failed or lost: the dialogs stay as they are. *)
RequestFails(r) ==
  /\ ~r.awaits
  /\ kreqs' = kreqs \ {r}
  /\ kg' = [kg EXCEPT !.behind = @ \/ r.done]
  /\ UNCHANGED <<k, ksrv>>

ListLands ==
  /\ k.fetching
  /\ k' = [Closed(k, Waiting) EXCEPT !.stores = ksrv, !.fetching = FALSE]
  /\ kreqs' = kreqs \ Waiting
  /\ kg' = [kg EXCEPT !.behind = FALSE]
  /\ UNCHANGED ksrv

ListFails ==
  /\ k.fetching /\ kg.changes < MaxChanges
  /\ k' = [Closed(k, Waiting) EXCEPT !.fetching = FALSE]
  /\ kreqs' = kreqs \ Waiting
  /\ kg' = [kg EXCEPT !.behind = TRUE, !.changes = @ + 1]
  /\ UNCHANGED ksrv

(* Asked for when the dialog opens, unless a builder page already had it. *)
CatalogLands ==
  /\ ~k.catalog
  /\ k' = [k EXCEPT !.catalog = TRUE]
  /\ UNCHANGED <<kreqs, ksrv, kg>>

Elected(id) ==
  /\ kg.changes < MaxChanges /\ id \in ksrv.ids \ {ksrv.active}
  /\ ksrv' = [ksrv EXCEPT !.active = id]
  /\ kg' = [kg EXCEPT !.behind = TRUE, !.changes = @ + 1]
  /\ UNCHANGED <<k, kreqs>>

-----------------------------------------------------------------------------
KInit ==
  /\ k = [stores |-> None, fetching |-> TRUE, catalog |-> FALSE, form |-> NoForm,
          pendingDelete |-> None]
  /\ kreqs = {}
  /\ ksrv = FirstConnections
  /\ kg = [behind |-> FALSE, acts |-> 0, changes |-> 0, sent |-> 0]

KNext ==
  \/ addConnection
  \/ setName
  \/ \E t \in StoreTypes : setType(t)
  \/ \E f \in Fields, v \in {None, k.form.type, Invalid} : setValue(f, v)
  \/ \E f \in Fields : addOptional(f)
  \/ \E f \in Fields : removeOptional(f)
  \/ closeForm
  \/ \E id \in Connections : openDeleteConfirm(id)
  \/ closeDeleteConfirm
  \/ handleSave
  \/ handleConfirmDelete
  \/ \E r \in kreqs : Serve(r)
  \/ \E r \in kreqs : Answered(r)
  \/ \E r \in kreqs : RequestFails(r)
  \/ ListLands
  \/ ListFails
  \/ CatalogLands
  \/ \E id \in Connections : Elected(id)

-----------------------------------------------------------------------------
(* Once no request is in flight and no answer is awaited, the panel lists   *)
(* what the server has, unless an election or a lost answer came since:     *)
(* every success invalidates the list (useStoreMutations.ts), which is the  *)
(* only thing that refreshes it.                                            *)
ListCatchesUp == kreqs = {} /\ ~k.fetching /\ ~kg.behind => k.stores = ksrv

(* A connection being added holds only fields of its type, with values that *)
(* were typed for that type, however often the type was changed, and, if    *)
(* the catalogue was there to say what they are, every required one         *)
(* (StateStoreConnectionDialog.tsx).                                        *)
ConfigBelongs ==
  \A r \in kreqs : r.kind = "add" =>
    LET fields == DOMAIN r.body.metadata IN
    /\ fields \subseteq RequiredOf[r.body.type] \cup OptionalOf[r.body.type]
    /\ \A f \in fields : r.body.metadata[f] = r.body.type
    /\ r.body.catalog => RequiredOf[r.body.type] \subseteq fields
=============================================================================
