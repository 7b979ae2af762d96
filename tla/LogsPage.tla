------------------------------- MODULE LogsPage -------------------------------
(***************************************************************************)
(* The log viewer (src/web/src/pages/Logs.tsx) on its streams              *)
(* (hooks/useLogStream.ts) with follow scrolling (hooks/useFollowScroll    *)
(* .ts).  An app's two streams, or one of a control plane service, are     *)
(* read through an EventSource each, which opens, delivers, breaks,        *)
(* reconnects (and is then sent the backlog again) and closes on its own;  *)
(* the lines of two streams are merged by the time they carry.             *)
(***************************************************************************)
EXTENDS Naturals, Integers, Sequences, FiniteSets, SequencesExt, TLC

CONSTANTS None,       \* no value
          LogApps,    \* apps that may be tailed
          Streamable, \* [app -> which of its streams have a file or container]
          StaticCp,   \* control plane services known from the start
          FetchedCp,  \* those the server reports
          Script,     \* [path -> the lines written to it: clock (or None), level]
          LINE_CAP,   \* lines a stream, and the merged view, keep
          MaxActs,    \* bound: user actions
          MaxBreaks   \* bound: failures of a connection

VARIABLES l,      \* the page's state and URL
          lstr,   \* the streams: [daprd, app, cp -> stream]
          lsrv,   \* [path -> lines written so far]
          lg      \* history: rows appeared without arriving; bounds

lvars == <<l, lstr, lsrv, lg>>

StreamNames == {"daprd", "app", "cp"}
ALL_LEVELS == {"info", "error"}

Mount ==
  [app |-> None, cpParam |-> None, source |-> "both", cpList |-> "loading",
   apps |-> {}, levels |-> ALL_LEVELS, search |-> FALSE, following |-> TRUE,
   pinned |-> TRUE]

-----------------------------------------------------------------------------
(* useLogStream.ts: one stream.  "sent" counts the lines its connection was *)
(* sent; seq numbers the lines received and outlives a change of path.      *)

NoStream == [path |-> None, lines |-> <<>>, revision |-> 0, seq |-> 0,
             status |-> "idle", sent |-> 0]

(* The path changed: the connection is closed, the lines are dropped. *)
openPath(st, path) ==
  IF path = st.path THEN st
  ELSE [st EXCEPT !.path = path, !.lines = <<>>, !.sent = 0,
                  !.status = IF path = None THEN "idle" ELSE "connecting"]

Capped(lines) == IF Len(lines) > LINE_CAP
                 THEN SubSeq(lines, Len(lines) - LINE_CAP + 1, Len(lines)) ELSE lines

onmessage(st) ==
  LET text == Script[st.path][st.sent + 1] IN
  [st EXCEPT !.lines = Capped(Append(@, [seq |-> st.seq, path |-> st.path,
                                         time |-> text.time, level |-> text.level,
                                         hit |-> text.hit])),
             !.seq = @ + 1, !.revision = @ + 1, !.sent = @ + 1]

-----------------------------------------------------------------------------
(* What the page shows. *)

cpNames(p) == StaticCp \cup (IF p.cpList = "loaded" THEN FetchedCp ELSE {})
cp(p) == IF p.cpParam \in cpNames(p) THEN p.cpParam ELSE None
isCpView(p) == cp(p) # None
cpPending(p) == p.cpParam # None /\ cp(p) = None /\ p.cpList = "loading"

hasPath(p) == IF p.source = "both" THEN Streamable[p.app] # {}
              ELSE p.source \in Streamable[p.app]

(* Which viewer is on screen. *)
Content(p) ==
  IF isCpView(p) THEN "cp"
  ELSE IF p.app = None THEN (IF cpPending(p) THEN "loading" ELSE "select a target")
  ELSE IF p.app \notin p.apps THEN "loading"
  ELSE IF hasPath(p) THEN "app" ELSE "no log file"

(* The path a stream reads in that viewer. *)
pathOf(p, name) ==
  IF name = "cp" THEN <<"cp", cp(p)>>
  ELSE IF p.source \in {"both", name} THEN <<p.app, name>> ELSE None

(* A viewer that leaves the screen takes its streams with it. *)
Streams(p) ==
  [name \in StreamNames |->
     IF Content(p) # (IF name = "cp" THEN "cp" ELSE "app") THEN NoStream
     ELSE openPath(lstr[name], pathOf(p, name))]

tagStreamUnanchored(lines, src, base, step) ==
  [i \in DOMAIN lines |->
     [line |-> lines[i], src |-> src, arrival |-> base + (i - 1) * step,
      sortTime |-> IF lines[i].time = None THEN 99 ELSE lines[i].time]]

(* One stream's lines with the time they sort by: their own, or that of the *)
(* last line before them that had one.                                      *)
tagStream(lines, src, base, step) ==
  [i \in DOMAIN lines |->
     [line |-> lines[i], src |-> src, arrival |-> base + (i - 1) * step,
      sortTime |-> LET timed == {j \in 1..i : lines[j].time # None} IN
                   IF timed = {} THEN -1
                   ELSE lines[CHOOSE j \in timed : \A k \in timed : k <= j].time]]

Earlier(x, y) == \/ x.sortTime < y.sortTime
                 \/ x.sortTime = y.sortTime /\ x.arrival < y.arrival

EarlierRows(x, rows) == {y \in rows : Earlier(y, x)}

(* A set of rows in that order: the n-th row has n - 1 rows before it. *)
Sorted(rows) ==
  [n \in 1..Cardinality(rows) |->
     CHOOSE x \in rows : Cardinality(EarlierRows(x, rows)) = n - 1]

(* Both streams' lines by time, ties in the order they arrived. *)
mergeStreams(dLines, aLines) == Capped(Sorted(ToSet(dLines) \cup ToSet(aLines)))

merged(p, str) ==
  CASE Content(p) = "cp" -> tagStream(str["cp"].lines, "cp", 0, 1)
    [] Content(p) = "app" /\ p.source # "both" ->
         tagStream(str[p.source].lines, p.source, 0, 1)
    [] Content(p) = "app" /\ p.source = "both" ->
         mergeStreams(tagStream(str["daprd"].lines, "daprd", 0, 2),
                      tagStream(str["app"].lines, "app", 1, 2))
    [] OTHER -> <<>>

lineMatches(p, line) == line.level \in p.levels /\ (p.search => line.hit)

filtered(p, rows) == SelectSeq(rows, LAMBDA m : lineMatches(p, m.line))

buffered(str) == Len(str["daprd"].lines) + Len(str["app"].lines) + Len(str["cp"].lines)

-----------------------------------------------------------------------------
(* What a viewer's follow effect watches: the count of lines ever received. *)
arrivals(str) == str["daprd"].revision + str["app"].revision + str["cp"].revision

(* Where the view is after the rows on screen became others: at the bottom *)
(* if there are none, or the effect ran; else a row that was not there may  *)
(* have pushed it up.                                                       *)
Appear(before, after) ==
  ~ {m.line : m \in ToSet(after)} \subseteq {m.line : m \in ToSet(before)}

Scrolled(p, before, after, pin) ==
  after = <<>> \/ (pin /\ p.following) \/ (p.pinned /\ ~Appear(before, after))

Rows(p, str) == filtered(p, merged(p, str))

(* The page's parameters change, and the streams with them. *)
Retarget(p, acts) ==
  LET before == Rows(l, lstr)
      after == Rows(p, Streams(p))
  IN /\ lg.acts + acts <= MaxActs
     /\ lstr' = Streams(p)
     /\ l' = [p EXCEPT !.pinned = Scrolled(p, before, after,
                                           arrivals(lstr) # arrivals(Streams(p)))]
     /\ lg' = [lg EXCEPT !.acts = @ + acts, !.loosened = @ \/ Appear(before, after)]
     /\ UNCHANGED lsrv

Acted == lg.acts < MaxActs /\ lg' = [lg EXCEPT !.acts = @ + 1]

onTargetChange(app, name) ==
  /\ <<app, name>> # <<l.app, l.cpParam>> /\ name \in cpNames(l) \cup {None}
  /\ Retarget([l EXCEPT !.app = app, !.cpParam = name], 1)

toggleSource(name) ==
  /\ ~isCpView(l) /\ l.app # None /\ l.source # name
  /\ Retarget([l EXCEPT !.source = IF @ # "both" THEN "both"
                                   ELSE IF name = "daprd" THEN "app" ELSE "daprd"], 1)

(* A filter changes: rows it lets back in leave the view where it was. *)
Filter(p) ==
  /\ lg.acts < MaxActs
  /\ l' = [p EXCEPT !.pinned = Scrolled(p, Rows(l, lstr), Rows(p, lstr), FALSE)]
  /\ lg' = [lg EXCEPT !.acts = @ + 1,
                      !.loosened = @ \/ Appear(Rows(l, lstr), Rows(p, lstr))]
  /\ UNCHANGED <<lstr, lsrv>>

toggleLevel(level) ==
  Filter([l EXCEPT !.levels = IF level \in @ THEN @ \ {level} ELSE @ \cup {level}])

setSearch == Filter([l EXCEPT !.search = ~@])

handleFollowToggle ==
  /\ lg.acts < MaxActs
  /\ l' = [l EXCEPT !.following = ~@, !.pinned = @ \/ ~l.following]
  /\ lg' = [lg EXCEPT !.acts = @ + 1, !.loosened = FALSE]
  /\ UNCHANGED <<lstr, lsrv>>

(* The user scrolls up: following stops.  Or back down: it does not resume. *)
handleScroll ==
  /\ Acted
  /\ Rows(l, lstr) # <<>>
  /\ l' = [l EXCEPT !.pinned = ~@, !.following = @ /\ ~l.pinned]
  /\ UNCHANGED <<lstr, lsrv>>

-----------------------------------------------------------------------------
(* What arrives on its own. *)

AppLands == /\ l.app # None /\ l.app \notin l.apps
            /\ Retarget([l EXCEPT !.apps = @ \cup {l.app}], 0)

CpListLands(outcome) == /\ l.cpList = "loading"
                        /\ Retarget([l EXCEPT !.cpList = outcome], 0)

Stream(name, st) == lstr' = [lstr EXCEPT ![name] = st]

onopen(name) ==
  /\ lstr[name].status \in {"connecting", "error"}
  /\ Stream(name, [lstr[name] EXCEPT !.status = "open"])
  /\ UNCHANGED <<l, lsrv, lg>>

Message(name) ==
  LET st == lstr[name]
      after == [lstr EXCEPT ![name] = onmessage(st)]
  IN /\ st.status = "open" /\ st.sent < lsrv[st.path]
     /\ lstr' = after
     /\ l' = [l EXCEPT !.pinned = Scrolled(l, Rows(l, lstr), Rows(l, after),
                                           arrivals(lstr) # arrivals(after))]
     /\ lg' = [lg EXCEPT !.loosened = @ /\ ~l.following]
     /\ UNCHANGED lsrv

(* The connection breaks: the browser reconnects and is sent the backlog *)
(* again, or the server ended the stream for good.                       *)
onerror(name, status) ==
  /\ lg.breaks < MaxBreaks /\ lstr[name].status \in {"connecting", "open"}
  /\ Stream(name, [lstr[name] EXCEPT !.status = status, !.sent = 0])
  /\ lg' = [lg EXCEPT !.breaks = @ + 1]
  /\ UNCHANGED <<l, lsrv>>

LogGrows(path) ==
  /\ lsrv[path] < Len(Script[path])
  /\ lsrv' = [lsrv EXCEPT ![path] = @ + 1]
  /\ UNCHANGED <<l, lstr, lg>>

-----------------------------------------------------------------------------
LInit ==
  /\ l = Mount
  /\ lstr = [name \in StreamNames |-> NoStream]
  /\ lsrv = [path \in DOMAIN Script |-> 0]
  /\ lg = [loosened |-> FALSE, acts |-> 0, breaks |-> 0]

LNext ==
  \/ \E app \in LogApps : onTargetChange(app, None)
  \/ \E name \in StaticCp \cup FetchedCp : onTargetChange(None, name)
  \/ onTargetChange(None, None)
  \/ \E name \in {"daprd", "app"} : toggleSource(name)
  \/ \E level \in ALL_LEVELS : toggleLevel(level)
  \/ setSearch
  \/ handleFollowToggle
  \/ handleScroll
  \/ AppLands
  \/ \E outcome \in {"loaded", "failed"} : CpListLands(outcome)
  \/ \E name \in StreamNames : onopen(name)
  \/ \E name \in StreamNames : Message(name)
  \/ \E name \in StreamNames, status \in {"error", "closed"} : onerror(name, status)
  \/ \E path \in DOMAIN Script : LogGrows(path)
-----------------------------------------------------------------------------
(* The viewer shows lines of the target and sources chosen and no others,   *)
(* and until a connection breaks the merge keeps each stream's lines in the *)
(* order they came and cuts only the oldest: lines without a clock of their *)
(* own stay with the line they follow (Logs.tsx tagStream).                 *)
StreamOrderKept ==
  LET rows == merged(l, lstr) IN
  /\ \A i \in DOMAIN rows :
       /\ rows[i].line.path = pathOf(l, rows[i].src)
       /\ rows[i].line \in ToSet(lstr[rows[i].src].lines)
  /\ lg.breaks = 0 =>
       \A i \in DOMAIN rows :
         /\ \A j \in DOMAIN rows :
              i < j /\ rows[i].src = rows[j].src => rows[i].line.seq < rows[j].line.seq
         /\ \A line \in ToSet(lstr[rows[i].src].lines) :
              line.seq > rows[i].line.seq => \E j \in DOMAIN rows : rows[j].line = line

(* While following, the view is at the bottom, at the line cap too where a  *)
(* new line replaces an old one (useFollowScroll.ts keys on the revision,   *)
(* not on the length).  Rows a filter or a source let back in are the       *)
(* exception, until a line arrives.                                         *)
FollowPinned == l.following /\ ~lg.loosened => l.pinned
=============================================================================
