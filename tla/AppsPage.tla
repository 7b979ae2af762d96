------------------------------- MODULE AppsPage -------------------------------
(***************************************************************************)
(* The applications list and the page of one application (src/web/src/     *)
(* pages/Applications.tsx and AppDetail.tsx) over the queries of           *)
(* useApps.ts and the mutations of useAppAction.ts.  The browser is at     *)
(* "list" or at an application's key, which is also the key of the query   *)
(* that page reads; the list's query is active on every page (App.tsx).  A *)
(* mutation's onSuccess returns the promise of the fetches it starts: a    *)
(* request is settled, and its caller told, only when they have ended.     *)
(* The server offers lifecycle actions.                                    *)
(***************************************************************************)
EXTENDS Naturals, FiniteSets

CONSTANTS None,         \* no value: null and undefined in the code
          AppKeys,      \* keys of instances
          SourceOf,     \* [key -> compose, standalone, aspire or testcontainers]
          FirstApps,    \* what the server lists first: [key -> state or None]
          AppChurn,     \* changes from outside: [key, to]
          MaxActs,      \* bound: user actions
          MaxChanges,   \* bound: changes from outside and failed fetches
          MaxRequests   \* bound: requests sent

VARIABLES a,      \* at: the page; confirm: what its dialog would send, or None;
                  \* hears: the requests whose answer the page's hooks wait for
          aq,     \* the queries: data, keys in error, keys being fetched
          areqs,  \* requests in flight
          asrv,   \* what the server would list: [key -> state or None]
          ag      \* history: queries that may be behind; the bounds' counters

avars == <<a, aq, areqs, asrv, ag>>

(* An instance's state, and what the server may list: every key's, or None. *)
ProcStatus == {"running", "stopped"}
States == [app: ProcStatus, daprd: ProcStatus, orphaned: BOOLEAN]
Listings == [AppKeys -> States \cup {None}]

QueryKeys == {"list"} \cup AppKeys
ActiveKeys == {"list", a.at}

-----------------------------------------------------------------------------
(* An instance's state: its two halves, and whether its sidecar is orphaned. *)

isStopped(st) == st.app = "stopped" /\ st.daprd = "stopped"
anyRunning(st) == st.app = "running" \/ st.daprd = "running"

listed(q) == IF q.data["list"] = None THEN {}
             ELSE {k \in AppKeys : q.data["list"][k] # None}

(* dapr run keeps both halves together; compose and Aspire do not. *)
daprdTarget(k) == IF SourceOf[k] \in {"compose", "aspire"} THEN "daprd" ELSE "all"

panelActions(k, target, status) ==
  IF SourceOf[k] = "testcontainers" THEN {}
  ELSE {<<target, act>> : act \in
          {x \in {"stop", "restart", "start"} :
             /\ status = (IF x = "start" THEN "stopped" ELSE "running")
             /\ x = "stop" \/ SourceOf[k] = "compose"}}

(* The buttons of an application's page: its header and its two panels. *)
Offered(k, st) ==
  panelActions(k, "app", st.app)
  \cup panelActions(k, daprdTarget(k), st.daprd)
  \cup (IF anyRunning(st) THEN panelActions(k, "all", "running") ELSE {})
  \cup (IF SourceOf[k] = "compose" /\ ~anyRunning(st) THEN {<<"all", "start">>} ELSE {})

-----------------------------------------------------------------------------
(* The queries, and what is on screen. *)

startFetch(q, keys) ==
  [q EXCEPT !.fetching = @ \cup keys,
            !.error = @ \ {key \in keys : q.data[key] = None}]

land(q, key, answer) ==
  [q EXCEPT !.fetching = @ \ {key},
            !.data[key] = IF answer = None THEN @ ELSE answer,
            !.error = IF answer = None THEN @ \cup {key} ELSE @ \ {key}]

NoPage(key) == [at |-> key, confirm |-> None, hears |-> {}]

(* The rows that left the list and the page of an instance in error are   *)
(* unmounted, with their dialogs and what they waited for.  The dialog of *)
(* "Clear inactive" belongs to the list page and outlives its rows.       *)
Rendered(p, q) ==
  IF p.at = "list"
  THEN [p EXCEPT !.confirm = IF @ # None /\ @.kind = "forget" /\ @.key \notin listed(q)
                             THEN None ELSE @,
                 !.hears = {n \in @ : \A r \in areqs :
                              r.n = n /\ r.kind = "forget" => r.key \in listed(q)}]
  ELSE IF p.at \in q.error THEN NoPage(p.at) ELSE p

Content == IF a.at = "list" THEN listed(aq) # {}
           ELSE aq.data[a.at] # None /\ a.at \notin aq.error

pending(kinds, key) ==
  \E r \in areqs : r.n \in a.hears /\ r.kind \in kinds /\ r.key = key

-----------------------------------------------------------------------------
(* What the user does. *)

User == ag.acts < MaxActs /\ a.confirm = None
Acts == ag' = [ag EXCEPT !.acts = @ + 1]

visit(key) ==
  /\ User
  /\ a' = NoPage(key) /\ aq' = startFetch(aq, {key})
  /\ Acts /\ UNCHANGED <<areqs, asrv>>

openDetail(k) == a.at = "list" /\ k \in listed(aq) /\ visit(k)
back == a.at # "list" /\ visit("list")

(* A dialog holds the request its confirmation sends; home: the caller goes *)
(* back to the list once it succeeded.                                      *)
Ask(kind, key, what, home) ==
  /\ User /\ Content
  /\ a' = [a EXCEPT !.confirm = [kind |-> kind, key |-> key, what |-> what, home |-> home]]
  /\ Acts /\ UNCHANGED <<aq, areqs, asrv>>

askClear ==
  /\ a.at = "list" /\ ~pending({"clear"}, "list")
  /\ \E k \in listed(aq) : isStopped(aq.data["list"][k])
  /\ Ask("clear", "list", None, FALSE)

askForget(k) ==
  /\ a.at = "list" /\ k \in listed(aq) /\ isStopped(aq.data["list"][k])
  /\ ~pending({"forget"}, k)
  /\ Ask("forget", k, None, FALSE)

removeFromList(k) ==
  /\ a.at = k /\ Content /\ isStopped(aq.data[k])
  /\ ~pending({"action", "forget"}, k)
  /\ Ask("forget", k, None, TRUE)

(* An orphaned sidecar vanishes when it is stopped: the page leaves it. *)
runAction(k, what) ==
  /\ a.at = k /\ Content /\ what \in Offered(k, aq.data[k])
  /\ ~pending({"action"}, k)
  /\ Ask("action", k, what, aq.data[k].orphaned /\ what[2] = "stop")

cancel ==
  /\ a.confirm # None /\ Content
  /\ a' = [a EXCEPT !.confirm = None]
  /\ UNCHANGED <<aq, areqs, asrv, ag>>

onConfirm ==
  /\ a.confirm # None /\ Content /\ ag.sent < MaxRequests
  /\ LET n == ag.sent + 1 IN
       /\ areqs' = areqs \cup {[n |-> n, kind |-> a.confirm.kind, key |-> a.confirm.key,
                                what |-> a.confirm.what, home |-> a.confirm.home,
                                done |-> FALSE, awaits |-> None]}
       /\ a' = [a EXCEPT !.confirm = None, !.hears = @ \cup {n}]
  /\ ag' = [ag EXCEPT !.sent = @ + 1]
  /\ UNCHANGED <<aq, asrv>>

(* A new document: the URL stays, everything else begins again. *)
Reload ==
  /\ ag.acts < MaxActs
  /\ a' = NoPage(a.at)
  /\ aq' = [data |-> [k \in QueryKeys |-> None], error |-> {}, fetching |-> ActiveKeys]
  /\ areqs' = {}
  /\ ag' = [ag EXCEPT !.acts = @ + 1,
                      !.behind = IF areqs = {} THEN @ ELSE QueryKeys]
  /\ UNCHANGED asrv

-----------------------------------------------------------------------------
(* The server. *)

Halves(target) == IF target = "all" THEN {"app", "daprd"} ELSE {target}

Acted(st, what) ==
  LET to == IF what[2] = "stop" THEN "stopped" ELSE "running"
      Half(h) == IF h \in Halves(what[1]) THEN to ELSE st[h]
  IN  IF st.orphaned /\ to = "stopped" THEN None
      ELSE [st EXCEPT !.app = Half("app"), !.daprd = Half("daprd")]

(* Only what is fully stopped is taken off the list. *)
Serve(r) ==
  /\ ~r.done
  /\ r.kind = "action" => asrv[r.key] # None
  /\ asrv' = [k \in AppKeys |->
                CASE asrv[k] = None \/ r.key \notin {k, "list"} -> asrv[k]
                  [] r.kind = "action" /\ asrv[k] # None /\ r.key = k -> Acted(asrv[k], r.what)
                  [] OTHER -> IF isStopped(asrv[k]) THEN None ELSE asrv[k]]
  /\ areqs' = (areqs \ {r}) \cup {[r EXCEPT !.done = TRUE]}
  /\ UNCHANGED <<a, aq, ag>>

(* Once the fetches of these keys are over, requests that waited for no     *)
(* other are settled, and callers that still listen are told.               *)
Waits(r, keys) == r.awaits # None /\ r.awaits \subseteq keys

Over(keys, rs) ==
  {IF r.awaits = None THEN r ELSE [r EXCEPT !.awaits = @ \ keys] :
     r \in {x \in rs : ~Waits(x, keys)}}

Settles(q, keys) ==
  LET goes == \E r \in areqs : Waits(r, keys) /\ r.home /\ r.n \in a.hears IN
  /\ a' = IF goes THEN NoPage("list") ELSE Rendered(a, q)
  /\ aq' = IF goes THEN startFetch(q, {"list"}) ELSE q

(* Success: the active queries are fetched again; fetches of them that are *)
(* under way are cancelled, and so over.                                   *)
Answered(r) ==
  /\ r.done /\ r.awaits = None
  /\ Settles(startFetch(aq, ActiveKeys), ActiveKeys)
  /\ areqs' = Over(ActiveKeys, areqs \ {r}) \cup {[r EXCEPT !.awaits = ActiveKeys]}
  /\ UNCHANGED <<asrv, ag>>

(* No answer, or a failure: the server may have acted all the same. *)
RequestFails(r) ==
  /\ r.awaits = None
  /\ areqs' = areqs \ {r}
  /\ ag' = [ag EXCEPT !.behind = IF r.done THEN QueryKeys ELSE @]
  /\ UNCHANGED <<a, aq, asrv>>

-----------------------------------------------------------------------------
(* What arrives on its own. *)

Fetched(key, answer) ==
  /\ key \in aq.fetching
  /\ Settles(land(aq, key, answer), {key})
  /\ areqs' = Over({key}, areqs)
  /\ UNCHANGED asrv

ListLands ==
  /\ Fetched("list", asrv)
  /\ ag' = [ag EXCEPT !.behind = @ \ {"list"}]

DetailLands(k) ==
  /\ Fetched(k, asrv[k])
  /\ ag' = [ag EXCEPT !.behind = @ \ {k}]

FetchFails(key) ==
  /\ ag.changes < MaxChanges
  /\ Fetched(key, None)
  /\ ag' = [ag EXCEPT !.changes = @ + 1, !.behind = @ \cup {key}]

Poll(key) ==
  /\ key \in ActiveKeys \ aq.fetching
  /\ aq' = startFetch(aq, {key})
  /\ UNCHANGED <<a, areqs, asrv, ag>>

AppChanges(c) ==
  /\ ag.changes < MaxChanges /\ asrv[c.key] # c.to
  /\ asrv' = [asrv EXCEPT ![c.key] = c.to]
  /\ ag' = [ag EXCEPT !.changes = @ + 1, !.behind = QueryKeys]
  /\ UNCHANGED <<a, aq, areqs>>

-----------------------------------------------------------------------------
AInit ==
  /\ a = NoPage("list")
  /\ aq = [data |-> [k \in QueryKeys |-> None], error |-> {}, fetching |-> {"list"}]
  /\ areqs = {}
  /\ asrv = FirstApps
  /\ ag = [behind |-> {}, acts |-> 0, changes |-> 0, sent |-> 0]

ANext ==
  \/ \E k \in AppKeys : openDetail(k)
  \/ back
  \/ askClear
  \/ \E k \in AppKeys : askForget(k)
  \/ \E k \in AppKeys : removeFromList(k)
  \/ \E k \in AppKeys, t \in {"app", "daprd", "all"}, act \in {"start", "stop", "restart"} :
       runAction(k, <<t, act>>)
  \/ cancel
  \/ onConfirm
  \/ Reload
  \/ \E r \in areqs : Serve(r)
  \/ \E r \in areqs : Answered(r)
  \/ \E r \in areqs : RequestFails(r)
  \/ ListLands
  \/ \E k \in AppKeys : DetailLands(k)
  \/ \E key \in QueryKeys : FetchFails(key)
  \/ \E key \in QueryKeys : Poll(key)
  \/ \E c \in AppChurn : AppChanges(c)

-----------------------------------------------------------------------------
(* Once no request is in flight and no answer is awaited, the page shows    *)
(* what the server has, unless something else changed it since or an answer *)
(* was lost, also where refresh is paused: every success invalidates the    *)
(* list and the detail alike (useAppAction.ts).                             *)
ListCatchesUp ==
  areqs = {} /\ a.at \notin ag.behind \cup aq.fetching =>
    IF a.at = "list" THEN aq.data["list"] = asrv
    ELSE /\ a.at \in aq.error <=> asrv[a.at] = None
         /\ a.at \notin aq.error => aq.data[a.at] = asrv[a.at]
=============================================================================
