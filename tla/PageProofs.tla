------------------------------ MODULE PageProofs ------------------------------
(***************************************************************************)
(* Proofs for the workflow detail page and the log viewer: a selection the *)
(* user dismissed is not made again by a poll, starts and ends of the      *)
(* history are paired as brackets are, following keeps the view at the     *)
(* bottom, and the merged view keeps each stream's order - for every       *)
(* history, log, line cap and number of actions.                           *)
(***************************************************************************)
EXTENDS Dashboard, FiniteSetTheorems, WellFoundedInduction, TLAPS

-----------------------------------------------------------------------------
(* The detail page.  The anchor of the URL is always one that was followed:  *)
(* that is why a poll has nothing left to select.                            *)

Histories == {None} \cup Seq(UNION {EventPool[inst] : inst \in Instances})

DetailShape ==
  /\ DOMAIN d = {"inst", "hash", "lastAutoSelectedHash", "selection", "order", "open", "force", "left"}
  /\ DOMAIN dg = {"dismissed", "acts"}
  /\ d.inst \in Instances
  /\ dcache \in [Instances -> Histories]
  /\ dsrv \in [Instances -> Histories]

\* Of a page p: its anchor was followed, and a dismissed selection is none.
Settled(p, dismissed) ==
  /\ p.hash \in {None, p.lastAutoSelectedHash}
  /\ dismissed => p.selection = None

DetailInv == DetailShape /\ Settled(d, dg.dismissed)

\* Following the anchor leaves none to follow, and selects nothing that was followed before.
LEMMA JumpSettles ==
  ASSUME NEW p, DOMAIN p = DOMAIN d, DetailShape, NEW hist,
         p.hash = None \/ p.hash = p.lastAutoSelectedHash \/ p.hash \in DOMAIN hist
  PROVE  LET q == D!jumpToHash(p, hist) IN
         /\ DOMAIN q = DOMAIN d /\ q.inst = p.inst
         /\ q.hash \in {None, q.lastAutoSelectedHash}
         /\ p.hash \in {None, p.lastAutoSelectedHash} => q.selection = p.selection
<1> DEFINE pairs == D!buildPairIndex(D!sortHistoryForDisplay(hist))
           sel == IF p.hash \in DOMAIN pairs THEN [pairId |-> pairs[p.hash].pairId, index |-> p.hash]
                  ELSE p.selection
           q1 == [p EXCEPT !.lastAutoSelectedHash = None]
           q2 == [p EXCEPT !.lastAutoSelectedHash = p.hash, !.selection = sel]
<1>0. DOMAIN p = {"inst", "hash", "lastAutoSelectedHash", "selection", "order", "open", "force", "left"}
  BY DEF DetailShape
<1>1. \/ p.hash = None /\ D!jumpToHash(p, hist) = q1
      \/ p.hash # None /\ p.hash = p.lastAutoSelectedHash /\ D!jumpToHash(p, hist) = p
      \/ p.hash # None /\ p.hash # p.lastAutoSelectedHash /\ D!jumpToHash(p, hist) = q2
  BY DEF D!jumpToHash
<1> HIDE DEF sel
<1>2. /\ DOMAIN q1 = DOMAIN p /\ q1.inst = p.inst /\ q1.hash = p.hash /\ q1.selection = p.selection
      /\ DOMAIN q2 = DOMAIN p /\ q2.inst = p.inst /\ q2.hash = p.hash
      /\ q2.lastAutoSelectedHash = p.hash
  BY <1>0
<1> HIDE DEF q1, q2
<1> QED
  BY <1>1, <1>2

\* A user's action that sets the page.
LEMMA UserSettles ==
  ASSUME DetailInv, NEW p, NEW dismissed, D!UserSets(p, dismissed),
         DOMAIN p = DOMAIN d, p.inst \in Instances, Settled(p, dismissed)
  PROVE  DetailInv'
<1>1. /\ d' = p /\ dg' = [dismissed |-> dismissed, acts |-> dg.acts + 1]
      /\ dcache' = dcache /\ dsrv' = dsrv
  BY DEF D!UserSets, D!Acted
<1>2. DOMAIN dg' = {"dismissed", "acts"} /\ dg'.dismissed = dismissed
  BY <1>1
<1> QED
  BY <1>1, <1>2 DEF DetailInv, DetailShape, Settled

\* The user's actions: selections, anchors, the order, a child, the dialog.
LEMMA DetailUser ==
  ASSUME DetailInv,
         \/ \E i \in 1..MaxEvents[d.inst] : D!togglePairSelection(i)
         \/ \E i \in 1..MaxEvents[d.inst] : D!followAnchor(i)
         \/ D!setOrder
         \/ \E inst \in Instances : D!openChild(inst)
         \/ \E force \in BOOLEAN : D!openRemove(force)
  PROVE  DetailInv'
<1>0. /\ DOMAIN d = {"inst", "hash", "lastAutoSelectedHash", "selection", "order", "open", "force",
                     "left"}
      /\ d.inst \in Instances /\ dcache \in [Instances -> Histories]
      /\ d.hash \in {None, d.lastAutoSelectedHash} /\ (dg.dismissed => d.selection = None)
  BY DEF DetailInv, DetailShape, Settled
<1>1. ASSUME NEW i, D!togglePairSelection(i)
      PROVE  DetailInv'
  <2> DEFINE pairs == D!buildPairIndex(D!history)
             sel == [pairId |-> pairs[i].pairId, index |-> i]
             same == d.selection = sel
             p == [d EXCEPT !.selection = IF same THEN None ELSE sel]
  <2>1. D!UserSets(p, same)
    BY <1>1 DEF D!togglePairSelection
  <2>2. /\ DOMAIN p = DOMAIN d /\ p.inst = d.inst /\ p.hash = d.hash
        /\ p.lastAutoSelectedHash = d.lastAutoSelectedHash /\ (same => p.selection = None)
    BY <1>0
  <2> HIDE DEF p, same
  <2> QED
    BY <1>0, <2>1, <2>2, UserSettles DEF Settled
<1>2. ASSUME NEW i, D!followAnchor(i)
      PROVE  DetailInv'
  <2> DEFINE hist == dcache[d.inst]
             p == [d EXCEPT !.hash = i]
             q == D!jumpToHash(p, hist)
  <2>1. D!UserSets(q, FALSE) /\ i \in 1..Len(hist) /\ hist # None
    BY <1>2 DEF D!followAnchor, D!Anchors, D!User, D!Loaded
  <2>2. hist \in Seq(UNION {EventPool[inst] : inst \in Instances})
    BY <1>0, <2>1 DEF Histories
  <2>3. i \in DOMAIN hist
    BY <2>1, <2>2
  <2>4. DOMAIN p = DOMAIN d /\ p.inst = d.inst /\ p.hash = i
    BY <1>0
  <2> HIDE DEF p, hist
  <2>5. DOMAIN q = DOMAIN d /\ q.inst = d.inst /\ q.hash \in {None, q.lastAutoSelectedHash}
    BY <2>3, <2>4, JumpSettles DEF DetailInv
  <2> HIDE DEF q
  <2> QED
    BY <1>0, <2>1, <2>5, UserSettles DEF Settled
<1>3. ASSUME D!setOrder
      PROVE  DetailInv'
  <2> DEFINE p == [d EXCEPT !.order = IF d.order = "asc" THEN "desc" ELSE "asc"]
  <2>1. D!UserSets(p, dg.dismissed)
    BY <1>3 DEF D!setOrder
  <2>2. /\ DOMAIN p = DOMAIN d /\ p.inst = d.inst /\ p.hash = d.hash /\ p.selection = d.selection
        /\ p.lastAutoSelectedHash = d.lastAutoSelectedHash
    BY <1>0
  <2> HIDE DEF p
  <2> QED
    BY <1>0, <2>1, <2>2, UserSettles DEF Settled
<1>4. ASSUME NEW inst \in Instances, D!openChild(inst)
      PROVE  DetailInv'
  <2> DEFINE p == [d EXCEPT !.inst = inst, !.hash = None]
  <2>1. D!UserSets(p, dg.dismissed)
    BY <1>4 DEF D!openChild
  <2>2. DOMAIN p = DOMAIN d /\ p.inst = inst /\ p.hash = None /\ p.selection = d.selection
    BY <1>0
  <2> HIDE DEF p
  <2> QED
    BY <1>0, <2>1, <2>2, UserSettles DEF Settled
<1>5. ASSUME NEW force \in BOOLEAN, D!openRemove(force)
      PROVE  DetailInv'
  <2> DEFINE p == [d EXCEPT !.open = TRUE, !.force = force]
  <2>1. D!UserSets(p, dg.dismissed)
    BY <1>5 DEF D!openRemove
  <2>2. /\ DOMAIN p = DOMAIN d /\ p.inst = d.inst /\ p.hash = d.hash /\ p.selection = d.selection
        /\ p.lastAutoSelectedHash = d.lastAutoSelectedHash
    BY <1>0
  <2> HIDE DEF p
  <2> QED
    BY <1>0, <2>1, <2>2, UserSettles DEF Settled
<1> QED
  BY <1>1, <1>2, <1>3, <1>4, <1>5

\* The dialog and its request touch neither the anchor nor the selection.
LEMMA DetailRemoves ==
  ASSUME DetailInv,
         D!cancelRemove \/ D!setForce \/ D!onConfirmRemove \/ D!Purge \/ D!Removed \/ D!RemoveFailed
  PROVE  DetailInv'
<1>0. /\ DOMAIN d = {"inst", "hash", "lastAutoSelectedHash", "selection", "order", "open", "force",
                     "left"}
      /\ d.inst \in Instances /\ dsrv \in [Instances -> Histories] /\ None \in Histories
  BY DEF DetailInv, DetailShape, Histories
<1>1. \/ d' = d
      \/ d' = [d EXCEPT !.open = FALSE]
      \/ d' = [d EXCEPT !.force = ~d.force]
      \/ d' = [d EXCEPT !.open = FALSE, !.left = TRUE]
  BY DEF D!cancelRemove, D!setForce, D!onConfirmRemove, D!Purge, D!Removed, D!RemoveFailed
<1>2. /\ DOMAIN d' = DOMAIN d /\ d'.inst = d.inst /\ d'.hash = d.hash /\ d'.selection = d.selection
      /\ d'.lastAutoSelectedHash = d.lastAutoSelectedHash
  BY <1>0, <1>1
<1>3. dcache' = dcache /\ (dg' = dg \/ dg' = [dismissed |-> dg.dismissed, acts |-> dg.acts + 1])
  BY DEF D!cancelRemove, D!setForce, D!onConfirmRemove, D!Purge, D!Removed, D!RemoveFailed, D!Acted
<1>4. DOMAIN dg' = DOMAIN dg /\ dg'.dismissed = dg.dismissed
  BY <1>3 DEF DetailInv, DetailShape
<1>5. dsrv' = dsrv \/ \E inst : dsrv' = [dsrv EXCEPT ![inst] = None]
  BY DEF D!cancelRemove, D!setForce, D!onConfirmRemove, D!Purge, D!Removed, D!RemoveFailed
<1>6. dsrv' \in [Instances -> Histories]
  BY <1>0, <1>5
<1> QED
  BY <1>2, <1>3, <1>4, <1>6 DEF DetailInv, DetailShape, Settled

\* The page opens anew, a poll lands, the history grows.
LEMMA DetailArrives ==
  ASSUME DetailInv,
         \/ \E inst \in Instances : D!openDetail(inst)
         \/ D!HistoryLands
         \/ \E inst \in Instances : \E e \in EventPool[inst] : D!HistoryGrows(inst, e)
  PROVE  DetailInv'
<1>0. /\ DOMAIN d = {"inst", "hash", "lastAutoSelectedHash", "selection", "order", "open", "force",
                     "left"}
      /\ DOMAIN dg = {"dismissed", "acts"}
      /\ d.inst \in Instances /\ dcache \in [Instances -> Histories]
      /\ dsrv \in [Instances -> Histories]
      /\ d.hash \in {None, d.lastAutoSelectedHash} /\ (dg.dismissed => d.selection = None)
  BY DEF DetailInv, DetailShape, Settled
<1>1. ASSUME NEW inst \in Instances, D!openDetail(inst)
      PROVE  DetailInv'
  <2>1. /\ d' = [D!Mount(inst) EXCEPT !.order = d.order]
        /\ dg' = [dismissed |-> FALSE, acts |-> dg.acts + 1] /\ dcache' = dcache /\ dsrv' = dsrv
    BY <1>1 DEF D!openDetail, D!Acted
  <2>2. DOMAIN d' = DOMAIN d /\ d'.inst = inst /\ d'.hash = None
    BY <1>0, <2>1 DEF D!Mount
  <2>3. DOMAIN dg' = DOMAIN dg /\ dg'.dismissed = FALSE
    BY <1>0, <2>1
  <2> QED
    BY <1>0, <2>1, <2>2, <2>3 DEF DetailInv, DetailShape, Settled
<1>2. ASSUME D!HistoryLands
      PROVE  DetailInv'
  <2> DEFINE hist == dsrv[d.inst]
             q == D!jumpToHash(d, hist)
  <2>1. d' = q /\ dcache' = [dcache EXCEPT ![d.inst] = hist] /\ dsrv' = dsrv /\ dg' = dg
    BY <1>2 DEF D!HistoryLands
  <2>2. dcache' \in [Instances -> Histories]
    BY <1>0, <2>1
  <2> HIDE DEF hist
  <2>3. /\ DOMAIN q = DOMAIN d /\ q.inst = d.inst /\ q.hash \in {None, q.lastAutoSelectedHash}
        /\ q.selection = d.selection
    BY <1>0, JumpSettles DEF DetailInv
  <2> HIDE DEF q
  <2> QED
    BY <1>0, <2>1, <2>2, <2>3 DEF DetailInv, DetailShape, Settled
<1>3. ASSUME NEW inst \in Instances, NEW e \in EventPool[inst], D!HistoryGrows(inst, e)
      PROVE  DetailInv'
  <2>1. /\ dsrv' = [dsrv EXCEPT ![inst] = Append(dsrv[inst], e)] /\ dsrv[inst] # None
        /\ UNCHANGED <<d, dcache, dg>>
    BY <1>3 DEF D!HistoryGrows
  <2>2. Append(dsrv[inst], e) \in Histories
    <3>1. dsrv[inst] \in Seq(UNION {EventPool[o] : o \in Instances})
      BY <1>0, <2>1 DEF Histories
    <3>2. e \in UNION {EventPool[o] : o \in Instances}
      OBVIOUS
    <3> QED
      BY <3>1, <3>2 DEF Histories
  <2>3. dsrv' \in [Instances -> Histories]
    BY <1>0, <2>1, <2>2
  <2> QED
    BY <1>0, <2>1, <2>3 DEF DetailInv, DetailShape, Settled
<1> QED
  BY <1>1, <1>2, <1>3

\* Every step of the detail page keeps its invariant.
LEMMA DetailStep ==
  ASSUME DetailInv, D!DNext
  PROVE  DetailInv'
  BY DetailUser, DetailRemoves, DetailArrives DEF D!DNext

\* The page mounts without an anchor or a selection.
LEMMA DetailInit == D!DInit => DetailInv
<1> SUFFICES ASSUME D!DInit PROVE DetailInv
  OBVIOUS
<1>1. /\ d = D!Mount(Root) /\ dcache = [inst \in Instances |-> None]
      /\ dsrv = [inst \in Instances |-> <<>>] /\ dg = [dismissed |-> FALSE, acts |-> 0]
  BY DEF D!DInit
<1>2. None \in Histories /\ <<>> \in Histories
  BY DEF Histories
<1>3. /\ DOMAIN d = {"inst", "hash", "lastAutoSelectedHash", "selection", "order", "open", "force",
                     "left"}
      /\ d.inst = Root /\ d.hash = None
  BY <1>1 DEF D!Mount
<1>4. DOMAIN dg = {"dismissed", "acts"} /\ dg.dismissed = FALSE
  BY <1>1
<1> QED
  BY <1>1, <1>2, <1>3, <1>4, DetailAssumption DEF DetailInv, DetailShape, Settled

-----------------------------------------------------------------------------
(* The log viewer. *)

StreamOK(st) ==
  /\ DOMAIN st = {"path", "lines", "revision", "seq", "status", "sent"}
  /\ st.revision \in Nat

StreamsOK(str) == DOMAIN str = L!StreamNames /\ \A name \in L!StreamNames : StreamOK(str[name])

ViewOK(p) ==
  /\ DOMAIN p = {"app", "cpParam", "source", "cpList", "apps", "levels", "search", "following",
                 "pinned"}
  /\ p.following \in BOOLEAN /\ p.pinned \in BOOLEAN

LogsShape ==
  /\ ViewOK(l)
  /\ DOMAIN lg = {"loosened", "acts", "breaks"} /\ lg.loosened \in BOOLEAN
  /\ StreamsOK(lstr)

LogsInv == LogsShape /\ L!FollowPinned

\* Other parameters, other streams: a stream read on keeps its count of lines.
LEMMA StreamsReopen ==
  ASSUME LogsShape, NEW p
  PROVE  StreamsOK(L!Streams(p))
<1>1. StreamOK(L!NoStream)
  BY DEF StreamOK, L!NoStream
<1>2. ASSUME NEW st, StreamOK(st), NEW path
      PROVE  StreamOK(L!openPath(st, path))
  <2> DEFINE status == IF path = None THEN "idle" ELSE "connecting"
             o == [st EXCEPT !.path = path, !.lines = <<>>, !.sent = 0, !.status = status]
  <2>1. L!openPath(st, path) \in {st, o}
    BY DEF L!openPath
  <2> HIDE DEF status
  <2>2. StreamOK(o)
    BY <1>2 DEF StreamOK
  <2> HIDE DEF o
  <2> QED
    BY <1>2, <2>1, <2>2
<1>3. ASSUME NEW name \in L!StreamNames
      PROVE  StreamOK(L!Streams(p)[name])
  <2>1. StreamOK(lstr[name])
    BY DEF LogsShape, StreamsOK
  <2>2. L!Streams(p)[name] \in {L!NoStream, L!openPath(lstr[name], L!pathOf(p, name))}
    BY DEF L!Streams
  <2>3. StreamOK(L!openPath(lstr[name], L!pathOf(p, name)))
    BY <1>2, <2>1
  <2> QED
    BY <1>1, <2>2, <2>3
<1>4. DOMAIN L!Streams(p) = L!StreamNames
  BY DEF L!Streams
<1> QED
  BY <1>3, <1>4 DEF StreamsOK

\* Rows that only go leave a view at the bottom there; rows that come are noted.
LEMMA ViewChanges ==
  ASSUME LogsInv, NEW p, ViewOK(p), p.following = l.following, p.pinned = l.pinned,
         NEW before, NEW after, NEW pin,
         l' = [p EXCEPT !.pinned = L!Scrolled(p, before, after, pin)],
         NEW lg2, DOMAIN lg2 = DOMAIN lg,
         lg' = [lg2 EXCEPT !.loosened = lg.loosened \/ L!Appear(before, after)],
         StreamsOK(lstr')
  PROVE  LogsInv'
<1> DEFINE down == L!Scrolled(p, before, after, pin)
           come == L!Appear(before, after)
           loose == lg.loosened \/ come
<1>1. l.following \in BOOLEAN /\ l.pinned \in BOOLEAN /\ lg.loosened \in BOOLEAN
  BY DEF LogsInv, LogsShape, ViewOK
<1>2. down \in BOOLEAN /\ (l.pinned /\ ~come => down)
  BY DEF L!Scrolled
<1>3. loose \in BOOLEAN
  OBVIOUS
<1> HIDE DEF down, loose
<1>4. ViewOK(l') /\ l'.following = l.following /\ l'.pinned = down
  BY <1>1, <1>2 DEF ViewOK, down
<1>5. DOMAIN lg' = DOMAIN lg /\ lg'.loosened = loose
  BY DEF LogsInv, LogsShape, loose
<1>6. LogsShape'
  BY <1>3, <1>4, <1>5 DEF LogsInv, LogsShape
<1>7. l.following /\ ~lg.loosened => l.pinned
  BY DEF LogsInv, L!FollowPinned
<1>8. l'.following /\ ~lg'.loosened => l'.pinned
  BY <1>1, <1>2, <1>4, <1>5, <1>7 DEF loose
<1> QED
  BY <1>6, <1>8 DEF LogsInv, L!FollowPinned

\* The page's parameters change.
LEMMA RetargetStep ==
  ASSUME LogsInv, NEW p, ViewOK(p), p.following = l.following, p.pinned = l.pinned,
         NEW acts, L!Retarget(p, acts)
  PROVE  LogsInv'
<1> DEFINE before == L!Rows(l, lstr)
           after == L!Rows(p, L!Streams(p))
           pin == L!arrivals(lstr) # L!arrivals(L!Streams(p))
           lg2 == [lg EXCEPT !.acts = lg.acts + acts]
<1>1. /\ lstr' = L!Streams(p)
      /\ l' = [p EXCEPT !.pinned = L!Scrolled(p, before, after, pin)]
      /\ lg' = [lg2 EXCEPT !.loosened = lg.loosened \/ L!Appear(before, after)]
  BY DEF L!Retarget, LogsInv, LogsShape
<1>2. DOMAIN lg2 = DOMAIN lg
  BY DEF LogsInv, LogsShape
<1>3. StreamsOK(lstr')
  BY <1>1, StreamsReopen DEF LogsInv
<1> HIDE DEF before, after, pin, lg2
<1> QED
  BY <1>1, <1>2, <1>3, ViewChanges

\* A filter changes.
LEMMA FilterStep ==
  ASSUME LogsInv, NEW p, ViewOK(p), p.following = l.following, p.pinned = l.pinned, L!Filter(p)
  PROVE  LogsInv'
<1> DEFINE before == L!Rows(l, lstr)
           after == L!Rows(p, lstr)
           lg2 == [lg EXCEPT !.acts = lg.acts + 1]
<1>1. /\ lstr' = lstr
      /\ l' = [p EXCEPT !.pinned = L!Scrolled(p, before, after, FALSE)]
      /\ lg' = [lg2 EXCEPT !.loosened = lg.loosened \/ L!Appear(before, after)]
  BY DEF L!Filter, LogsInv, LogsShape
<1>2. DOMAIN lg2 = DOMAIN lg
  BY DEF LogsInv, LogsShape
<1>3. StreamsOK(lstr')
  BY <1>1 DEF LogsInv, LogsShape
<1> HIDE DEF before, after, lg2
<1> QED
  BY <1>1, <1>2, <1>3, ViewChanges

\* What the user does on the page.
LEMMA LogsUser ==
  ASSUME LogsInv
  PROVE  /\ \A app, name : L!onTargetChange(app, name) => LogsInv'
         /\ \A name : L!toggleSource(name) => LogsInv'
         /\ \A level : L!toggleLevel(level) => LogsInv'
         /\ L!setSearch => LogsInv'
         /\ L!handleFollowToggle => LogsInv'
         /\ L!handleScroll => LogsInv'
<1>0. /\ ViewOK(l) /\ StreamsOK(lstr)
      /\ DOMAIN lg = {"loosened", "acts", "breaks"} /\ lg.loosened \in BOOLEAN
      /\ l.following \in BOOLEAN /\ l.pinned \in BOOLEAN
      /\ l.following /\ ~lg.loosened => l.pinned
  BY DEF LogsInv, LogsShape, ViewOK, L!FollowPinned
<1>1. ASSUME NEW app, NEW name, L!onTargetChange(app, name)
      PROVE  LogsInv'
  <2> DEFINE p == [l EXCEPT !.app = app, !.cpParam = name]
  <2>1. L!Retarget(p, 1)
    BY <1>1 DEF L!onTargetChange
  <2>2. ViewOK(p) /\ p.following = l.following /\ p.pinned = l.pinned
    BY <1>0 DEF ViewOK
  <2> HIDE DEF p
  <2> QED
    BY <2>1, <2>2, RetargetStep
<1>2. ASSUME NEW name, L!toggleSource(name)
      PROVE  LogsInv'
  <2> DEFINE source == IF l.source # "both" THEN "both"
                       ELSE IF name = "daprd" THEN "app" ELSE "daprd"
             p == [l EXCEPT !.source = source]
  <2>1. L!Retarget(p, 1)
    BY <1>2 DEF L!toggleSource
  <2> HIDE DEF source
  <2>2. ViewOK(p) /\ p.following = l.following /\ p.pinned = l.pinned
    BY <1>0 DEF ViewOK
  <2> HIDE DEF p
  <2> QED
    BY <2>1, <2>2, RetargetStep
<1>3. ASSUME NEW level, L!toggleLevel(level)
      PROVE  LogsInv'
  <2> DEFINE levels == IF level \in l.levels THEN l.levels \ {level} ELSE l.levels \cup {level}
             p == [l EXCEPT !.levels = levels]
  <2>1. L!Filter(p)
    BY <1>3 DEF L!toggleLevel
  <2> HIDE DEF levels
  <2>2. ViewOK(p) /\ p.following = l.following /\ p.pinned = l.pinned
    BY <1>0 DEF ViewOK
  <2> HIDE DEF p
  <2> QED
    BY <2>1, <2>2, FilterStep
<1>4. ASSUME L!setSearch
      PROVE  LogsInv'
  <2> DEFINE search == ~l.search
             p == [l EXCEPT !.search = search]
  <2>1. L!Filter(p)
    BY <1>4 DEF L!setSearch
  <2> HIDE DEF search
  <2>2. ViewOK(p) /\ p.following = l.following /\ p.pinned = l.pinned
    BY <1>0 DEF ViewOK
  <2> HIDE DEF p
  <2> QED
    BY <2>1, <2>2, FilterStep
<1>5. ASSUME L!handleFollowToggle
      PROVE  LogsInv'
  <2> DEFINE following == ~l.following
             pinned == l.pinned \/ ~l.following
  <2>1. following \in BOOLEAN /\ pinned \in BOOLEAN /\ (following => pinned)
    OBVIOUS
  <2>2. /\ l' = [l EXCEPT !.following = following, !.pinned = pinned]
        /\ lg' = [lg EXCEPT !.acts = lg.acts + 1, !.loosened = FALSE]
        /\ lstr' = lstr
    BY <1>5 DEF L!handleFollowToggle
  <2> HIDE DEF following, pinned
  <2>3. ViewOK(l') /\ l'.following = following /\ l'.pinned = pinned
    BY <1>0, <2>1, <2>2 DEF ViewOK
  <2>4. DOMAIN lg' = DOMAIN lg /\ lg'.loosened = FALSE
    BY <1>0, <2>2
  <2> QED
    BY <1>0, <2>1, <2>2, <2>3, <2>4 DEF LogsInv, LogsShape, L!FollowPinned
<1>6. ASSUME L!handleScroll
      PROVE  LogsInv'
  <2> DEFINE following == l.following /\ ~l.pinned
             pinned == ~l.pinned
  <2>1. following \in BOOLEAN /\ pinned \in BOOLEAN /\ (following => pinned)
    OBVIOUS
  <2>2. /\ l' = [l EXCEPT !.following = following, !.pinned = pinned]
        /\ lg' = [lg EXCEPT !.acts = lg.acts + 1]
        /\ lstr' = lstr
    BY <1>6 DEF L!handleScroll, L!Acted
  <2> HIDE DEF following, pinned
  <2>3. ViewOK(l') /\ l'.following = following /\ l'.pinned = pinned
    BY <1>0, <2>1, <2>2 DEF ViewOK
  <2>4. DOMAIN lg' = DOMAIN lg /\ lg'.loosened = lg.loosened
    BY <1>0, <2>2
  <2> QED
    BY <1>0, <2>1, <2>2, <2>3, <2>4 DEF LogsInv, LogsShape, L!FollowPinned
<1> QED
  BY <1>1, <1>2, <1>3, <1>4, <1>5, <1>6

\* What arrives on its own.  A line received always raises the count the follow
\* effect watches, so a view that follows is brought to the bottom.
LEMMA LogsArrives ==
  ASSUME LogsInv
  PROVE  /\ L!AppLands => LogsInv'
         /\ \A outcome : L!CpListLands(outcome) => LogsInv'
         /\ \A name \in L!StreamNames : L!onopen(name) => LogsInv'
         /\ \A name \in L!StreamNames : L!Message(name) => LogsInv'
         /\ \A name \in L!StreamNames : \A status : L!onerror(name, status) => LogsInv'
         /\ \A path : L!LogGrows(path) => LogsInv'
<1>0. /\ ViewOK(l) /\ StreamsOK(lstr)
      /\ DOMAIN lg = {"loosened", "acts", "breaks"} /\ lg.loosened \in BOOLEAN
      /\ l.following \in BOOLEAN /\ l.pinned \in BOOLEAN
      /\ l.following /\ ~lg.loosened => l.pinned
  BY DEF LogsInv, LogsShape, ViewOK, L!FollowPinned
<1>1. ASSUME L!AppLands
      PROVE  LogsInv'
  <2> DEFINE p == [l EXCEPT !.apps = l.apps \cup {l.app}]
  <2>1. L!Retarget(p, 0)
    BY <1>1 DEF L!AppLands
  <2>2. ViewOK(p) /\ p.following = l.following /\ p.pinned = l.pinned
    BY <1>0 DEF ViewOK
  <2> HIDE DEF p
  <2> QED
    BY <2>1, <2>2, RetargetStep
<1>2. ASSUME NEW outcome, L!CpListLands(outcome)
      PROVE  LogsInv'
  <2> DEFINE p == [l EXCEPT !.cpList = outcome]
  <2>1. L!Retarget(p, 0)
    BY <1>2 DEF L!CpListLands
  <2>2. ViewOK(p) /\ p.following = l.following /\ p.pinned = l.pinned
    BY <1>0 DEF ViewOK
  <2> HIDE DEF p
  <2> QED
    BY <2>1, <2>2, RetargetStep
<1>3. ASSUME NEW name \in L!StreamNames, NEW st, StreamOK(st)
      PROVE  StreamsOK([lstr EXCEPT ![name] = st])
  BY <1>0, <1>3 DEF StreamsOK
<1>4. ASSUME NEW name \in L!StreamNames, L!onopen(name)
      PROVE  LogsInv'
  <2> DEFINE st == [lstr[name] EXCEPT !.status = "open"]
  <2>1. StreamOK(lstr[name])
    BY <1>0 DEF StreamsOK
  <2>2. StreamOK(st)
    BY <2>1 DEF StreamOK
  <2>3. lstr' = [lstr EXCEPT ![name] = st] /\ l' = l /\ lg' = lg
    BY <1>4 DEF L!onopen, L!Stream
  <2> HIDE DEF st
  <2>4. StreamsOK(lstr')
    BY <1>3, <2>2, <2>3
  <2> QED
    BY <1>0, <2>3, <2>4 DEF LogsInv, LogsShape, L!FollowPinned
<1>5. ASSUME NEW name \in L!StreamNames, L!Message(name)
      PROVE  LogsInv'
  <2> DEFINE st == lstr[name]
             got == L!onmessage(st)
             after == [lstr EXCEPT ![name] = got]
             rows == L!Rows(l, lstr)
             next == L!Rows(l, after)
             pin == L!arrivals(lstr) # L!arrivals(after)
             down == L!Scrolled(l, rows, next, pin)
             loose == lg.loosened /\ ~l.following
  <2>1. /\ lstr' = after
        /\ l' = [l EXCEPT !.pinned = down]
        /\ lg' = [lg EXCEPT !.loosened = loose]
    BY <1>5 DEF L!Message
  <2>2. StreamOK(st)
    BY <1>0 DEF StreamsOK
  <2>3. StreamOK(got) /\ got.revision = st.revision + 1
    BY <2>2 DEF StreamOK, L!onmessage
  <2> HIDE DEF got
  <2>4. StreamsOK(after)
    BY <1>3, <2>3
  <2>5. pin
    <3>1. /\ lstr["daprd"].revision \in Nat
          /\ lstr["app"].revision \in Nat
          /\ lstr["cp"].revision \in Nat
      BY <1>0 DEF StreamsOK, StreamOK, L!StreamNames
    <3>2. name \in {"daprd", "app", "cp"} /\ DOMAIN lstr = {"daprd", "app", "cp"}
      BY <1>0 DEF StreamsOK, L!StreamNames
    <3>3. \A other \in {"daprd", "app", "cp"} :
             after[other].revision = IF other = name THEN lstr[other].revision + 1
                                     ELSE lstr[other].revision
      BY <2>3, <3>2
    <3> HIDE DEF after, st
    <3> QED
      BY <3>1, <3>2, <3>3 DEF L!arrivals
  <2>6. down \in BOOLEAN /\ (l.following => down)
    BY <2>5 DEF L!Scrolled
  <2>7. loose \in BOOLEAN
    OBVIOUS
  <2> HIDE DEF down, loose, after
  <2>8. ViewOK(l') /\ l'.following = l.following /\ l'.pinned = down
    BY <1>0, <2>1, <2>6 DEF ViewOK
  <2>9. DOMAIN lg' = DOMAIN lg /\ lg'.loosened = loose
    BY <1>0, <2>1
  <2> QED
    BY <1>0, <2>1, <2>4, <2>6, <2>7, <2>8, <2>9 DEF LogsInv, LogsShape, L!FollowPinned
<1>6. ASSUME NEW name \in L!StreamNames, NEW status, L!onerror(name, status)
      PROVE  LogsInv'
  <2> DEFINE st == [lstr[name] EXCEPT !.status = status, !.sent = 0]
  <2>1. StreamOK(lstr[name])
    BY <1>0 DEF StreamsOK
  <2>2. StreamOK(st)
    BY <2>1 DEF StreamOK
  <2>3. /\ lstr' = [lstr EXCEPT ![name] = st] /\ l' = l
        /\ lg' = [lg EXCEPT !.breaks = lg.breaks + 1]
    BY <1>6 DEF L!onerror, L!Stream
  <2> HIDE DEF st
  <2>4. StreamsOK(lstr')
    BY <1>3, <2>2, <2>3
  <2>5. DOMAIN lg' = DOMAIN lg /\ lg'.loosened = lg.loosened
    BY <1>0, <2>3
  <2> QED
    BY <1>0, <2>3, <2>4, <2>5 DEF LogsInv, LogsShape, L!FollowPinned
<1>7. ASSUME NEW path, L!LogGrows(path)
      PROVE  LogsInv'
  BY <1>7 DEF L!LogGrows, LogsInv, LogsShape, L!FollowPinned
<1> QED
  BY <1>1, <1>2, <1>4, <1>5, <1>6, <1>7

\* A step of the log viewer.
LEMMA LogsStep == LogsInv /\ L!LNext => LogsInv'
<1> SUFFICES ASSUME LogsInv, L!LNext PROVE LogsInv'
  OBVIOUS
<1> QED
  BY LogsUser, LogsArrives DEF L!LNext

\* The log viewer at first.
LEMMA LogsInit == L!LInit => LogsInv
  BY DEF L!LInit, L!Mount, L!NoStream, LogsInv, LogsShape, ViewOK, StreamsOK, StreamOK,
     L!FollowPinned

-----------------------------------------------------------------------------
(* The merge of two streams: sorting, cutting and the time a line sorts by. *)

\* A set of numbers has a least one.
LEMMA LeastNat ==
  ASSUME NEW T, T \subseteq Nat, T # {}
  PROVE  \E m \in T : \A x \in T : m <= x
<1> DEFINE R == OpToRel(<, Nat)
<1>1. IsWellFoundedOn(R, Nat)
  BY NatLessThanWellFounded
<1>2. ASSUME NEW x \in Nat, NEW y \in Nat, x < y PROVE <<x, y>> \in R
  BY <1>2 DEF OpToRel
<1> HIDE DEF R
<1>3. PICK m \in T : \A y \in T : ~ (<<y, m>> \in R)
  BY <1>1, WFMin
<1>4. ASSUME NEW x \in T PROVE m <= x
  <2>1. x \in Nat /\ m \in Nat /\ ~(<<x, m>> \in R)
    BY <1>3
  <2> QED
    BY <1>2, <2>1
<1> QED
  BY <1>4

\* A set of numbers with a bound has a greatest one.
LEMMA GreatestNat ==
  ASSUME NEW T, NEW n \in Nat, T \subseteq 1..n, T # {}
  PROVE  \E m \in T : \A x \in T : x <= m
<1> DEFINE B == {m \in Nat : \A x \in T : x <= m}
<1>1. B \subseteq Nat /\ n \in B
  OBVIOUS
<1>2. PICK m \in B : \A x \in B : m <= x
  BY <1>1, LeastNat
<1>3. m \in Nat /\ \A x \in T : x <= m
  BY <1>2
<1>4. m \in T
  <2> SUFFICES ASSUME m \notin T PROVE FALSE
    OBVIOUS
  <2>1. PICK x \in T : TRUE
    OBVIOUS
  <2>2. m - 1 \in Nat
    BY <1>3, <2>1
  <2>3. \A y \in T : y <= m - 1
    BY <1>3
  <2>4. m - 1 \in B
    BY <2>2, <2>3
  <2> HIDE DEF B
  <2> QED
    BY <1>2, <1>3, <2>4
<1> QED
  BY <1>3, <1>4

\* The cardinality the viewer's module counts with is the library's.
LEMMA SameCardinality ==
  ASSUME NEW set
  PROVE  L!Cardinality(set) = Cardinality(set)
  BY Zenon DEF L!Cardinality, Cardinality

RowsOK(rows) ==
  /\ IsFiniteSet(rows)
  /\ \A x \in rows : x.sortTime \in Int /\ x.arrival \in Int
  /\ \A x, y \in rows : x.arrival = y.arrival => x = y

\* A row comes after more rows than any row before it does.
LEMMA RankGrows ==
  ASSUME NEW rows, RowsOK(rows), NEW x \in rows, NEW y \in rows, L!Earlier(x, y)
  PROVE  Cardinality(L!EarlierRows(x, rows)) < Cardinality(L!EarlierRows(y, rows))
<1> DEFINE X == L!EarlierRows(x, rows)
           Y == L!EarlierRows(y, rows)
<1>1. X \subseteq rows /\ Y \subseteq rows /\ x \in Y /\ x \notin X
  BY DEF RowsOK, L!EarlierRows, L!Earlier
<1>2. X \subseteq Y
  BY DEF RowsOK, L!EarlierRows, L!Earlier
<1> HIDE DEF X, Y
<1>3. IsFiniteSet(X) /\ IsFiniteSet(Y)
  BY <1>1, FS_Subset DEF RowsOK
<1>4. Cardinality(X) \in Nat /\ Cardinality(Y) \in Nat
  BY <1>3, FS_CardinalityType
<1>5. Cardinality(X) <= Cardinality(Y) /\ Cardinality(X) # Cardinality(Y)
  BY <1>1, <1>2, <1>3, FS_Subset
<1> QED
  BY <1>4, <1>5 DEF X, Y

\* Of two rows one is before the other.
LEMMA EarlierTotal ==
  ASSUME NEW rows, RowsOK(rows), NEW x \in rows, NEW y \in rows
  PROVE  x = y \/ L!Earlier(x, y) \/ L!Earlier(y, x)
  BY DEF RowsOK, L!Earlier

\* The sorted rows are all the rows, each after those before it.
LEMMA SortedRows ==
  ASSUME NEW rows, RowsOK(rows)
  PROVE  /\ Cardinality(rows) \in Nat
         /\ L!Sorted(rows) \in Seq(rows) /\ Len(L!Sorted(rows)) = Cardinality(rows)
         /\ \A x \in rows : \E n \in 1..Cardinality(rows) : L!Sorted(rows)[n] = x
         /\ \A m, n \in 1..Cardinality(rows) :
              m < n <=> L!Earlier(L!Sorted(rows)[m], L!Sorted(rows)[n])
<1> DEFINE N == Cardinality(rows)
           rank == [x \in rows |-> Cardinality(L!EarlierRows(x, rows))]
           srt == L!Sorted(rows)
<1>1. IsFiniteSet(rows) /\ N \in Nat
  BY FS_CardinalityType DEF RowsOK
<1>2. ASSUME NEW x \in rows
      PROVE  rank[x] \in 0..(N - 1)
  <2> DEFINE X == L!EarlierRows(x, rows)
  <2>1. X \subseteq rows /\ x \notin X
    BY DEF RowsOK, L!EarlierRows, L!Earlier
  <2>2. rank[x] = Cardinality(X)
    OBVIOUS
  <2> HIDE DEF X, rank
  <2>3. IsFiniteSet(X)
    BY <1>1, <2>1, FS_Subset
  <2>4. Cardinality(X) \in Nat /\ Cardinality(X) <= N /\ Cardinality(X) # N
    BY <1>1, <2>1, <2>3, FS_Subset, FS_CardinalityType
  <2> HIDE DEF N
  <2> QED
    BY <1>1, <2>2, <2>4
<1>3. ASSUME NEW x \in rows, NEW y \in rows
      PROVE  L!Earlier(x, y) <=> rank[x] < rank[y]
  <2>1. L!Earlier(x, y) => rank[x] < rank[y]
    BY RankGrows
  <2>2. L!Earlier(y, x) => rank[y] < rank[x]
    BY RankGrows
  <2>3. rank[x] \in Int /\ rank[y] \in Int
    BY <1>2
  <2> HIDE DEF rank
  <2> QED
    BY <2>1, <2>2, <2>3, EarlierTotal
<1>4. ASSUME NEW x \in rows, NEW y \in rows, rank[x] = rank[y]
      PROVE  x = y
  <2>1. rank[x] \in Int /\ rank[y] \in Int
    BY <1>2
  <2> HIDE DEF rank
  <2> QED
    BY <1>3, <1>4, <2>1, EarlierTotal
<1>5. DOMAIN rank = rows /\ rank = [x \in rows |-> rank[x]]
  OBVIOUS
<1>s. /\ srt = [n \in 1..N |-> srt[n]]
      /\ \A n \in 1..N : (\E x \in rows : rank[x] = n - 1)
                         => srt[n] \in rows /\ rank[srt[n]] = n - 1
  BY SameCardinality DEF L!Sorted
<1> HIDE DEF rank, srt
<1>6. rank \in Injection(rows, 0..(N - 1))
  BY <1>2, <1>4, <1>5 DEF Injection, IsInjective
<1>7. IsFiniteSet(0..(N - 1)) /\ Cardinality(0..(N - 1)) = N
  BY <1>1, FS_Interval
<1>8. rank \in Surjection(rows, 0..(N - 1))
  BY <1>6, <1>7, FS_Injection
<1> HIDE DEF N
<1>9. ASSUME NEW n \in 1..N
      PROVE  srt[n] \in rows /\ rank[srt[n]] = n - 1
  <2>1. n - 1 \in 0..(N - 1)
    BY <1>1
  <2>2. \E x \in rows : rank[x] = n - 1
    BY <1>8, <2>1 DEF Surjection
  <2> QED
    BY <1>s, <2>2
<1>10. srt \in Seq(rows) /\ Len(srt) = N
  <2>1. srt = [n \in 1..N |-> srt[n]]
    BY <1>s, <1>9
  <2>2. srt \in [1..N -> rows]
    BY <1>9, <2>1
  <2> QED
    BY <1>1, <2>2
<1>11. ASSUME NEW x \in rows PROVE \E n \in 1..N : srt[n] = x
  <2>1. rank[x] \in 0..(N - 1)
    BY <1>2
  <2>2. rank[x] + 1 \in 1..N /\ (rank[x] + 1) - 1 = rank[x]
    BY <1>1, <2>1
  <2>3. srt[rank[x] + 1] = x
    BY <1>4, <1>9, <2>2
  <2> QED
    BY <2>2, <2>3
<1>12. ASSUME NEW m \in 1..N, NEW n \in 1..N
       PROVE  m < n <=> L!Earlier(srt[m], srt[n])
  BY <1>1, <1>3, <1>9
<1> QED
  BY <1>1, <1>10, <1>11, <1>12 DEF srt, N

\* What the cap keeps: the newest of a sequence.
LEMMA CappedKeeps ==
  ASSUME NEW T, NEW q \in Seq(T)
  PROVE  /\ L!Capped(q) \in Seq(T)
         /\ Len(L!Capped(q)) <= Len(q)
         /\ \A i \in 1..Len(L!Capped(q)) :
              L!Capped(q)[i] = q[i + (Len(q) - Len(L!Capped(q)))]
<1>1. LINE_CAP \in Nat /\ Len(q) \in Nat
  BY LogsAssumption
<1>2. CASE Len(q) > LINE_CAP
  <2> DEFINE c == SubSeq(q, Len(q) - LINE_CAP + 1, Len(q))
  <2>1. L!Capped(q) = c
    BY <1>2 DEF L!Capped
  <2>2. c \in Seq(T) /\ Len(c) = LINE_CAP
    BY <1>1, <1>2
  <2>3. \A i \in 1..LINE_CAP : c[i] = q[i + (Len(q) - LINE_CAP)]
    BY <1>1, <1>2
  <2> HIDE DEF c
  <2> QED
    BY <1>1, <1>2, <2>1, <2>2, <2>3
<1>3. CASE ~(Len(q) > LINE_CAP)
  BY <1>1, <1>3 DEF L!Capped
<1> QED
  BY <1>2, <1>3

LineSet == [seq: Nat, path: DOMAIN Script, time: {None} \cup Nat,
            level: L!ALL_LEVELS, hit: BOOLEAN]

ClockKept(lines) ==
  \A i, j \in 1..Len(lines) :
    i < j /\ lines[i].time # None /\ lines[j].time # None => lines[i].time <= lines[j].time

(* The lines up to the i-th that carry a clock. *)
Timed(lines, i) == {j \in 1..i : lines[j].time # None}

\* A line sorts by its own time or by that of the last line before it that has one, and
\* where the clock does not run back these times do not.
LEMMA TagTimes ==
  ASSUME NEW lines \in Seq(LineSet), NEW src, NEW base \in Int, NEW step \in Int
  PROVE  LET rows == L!tagStream(lines, src, base, step) IN
         /\ DOMAIN rows = 1..Len(lines)
         /\ \A i \in 1..Len(lines) :
              /\ rows[i].line = lines[i] /\ rows[i].src = src
              /\ rows[i].arrival = base + (i - 1) * step
              /\ rows[i].sortTime \in Int
         /\ ClockKept(lines) =>
              \A i, j \in 1..Len(lines) : i < j => rows[i].sortTime <= rows[j].sortTime
<1> DEFINE rows == L!tagStream(lines, src, base, step)
           last(i) == CHOOSE j \in Timed(lines, i) : \A k2 \in Timed(lines, i) : k2 <= j
<1>1. DOMAIN rows = 1..Len(lines)
  BY DEF L!tagStream
<1>2. ASSUME NEW i \in 1..Len(lines)
      PROVE  /\ rows[i].line = lines[i] /\ rows[i].src = src
             /\ rows[i].arrival = base + (i - 1) * step
             /\ rows[i].sortTime = IF Timed(lines, i) = {} THEN -1 ELSE lines[last(i)].time
  BY DEF L!tagStream, Timed
<1>3. ASSUME NEW i \in 1..Len(lines), Timed(lines, i) # {}
      PROVE  /\ last(i) \in Timed(lines, i)
             /\ \A j \in Timed(lines, i) : j <= last(i)
  <2>1. Timed(lines, i) \subseteq 1..i /\ i \in Nat
    BY DEF Timed
  <2>2. \E j \in Timed(lines, i) : \A k2 \in Timed(lines, i) : k2 <= j
    BY <1>3, <2>1, GreatestNat
  <2> QED
    BY <2>2
<1> HIDE DEF rows, last
<1>4. ASSUME NEW i \in 1..Len(lines), NEW j \in Timed(lines, i)
      PROVE  j \in 1..Len(lines) /\ j <= i /\ lines[j].time # None /\ lines[j].time \in Nat
  <2>1. j \in 1..Len(lines) /\ j <= i /\ lines[j].time # None
    BY DEF Timed
  <2>2. lines[j] \in LineSet
    BY <2>1
  <2> QED
    BY <2>1, <2>2 DEF LineSet
<1>5. ASSUME NEW i \in 1..Len(lines)
      PROVE  rows[i].sortTime \in Int
  BY <1>2, <1>3, <1>4
<1>6. ASSUME ClockKept(lines), NEW i \in 1..Len(lines), NEW j \in 1..Len(lines), i < j
      PROVE  rows[i].sortTime <= rows[j].sortTime
  <2>1. Timed(lines, i) \subseteq Timed(lines, j)
    BY <1>6 DEF Timed
  <2>2. CASE Timed(lines, j) = {}
    <3>1. rows[i].sortTime = -1 /\ rows[j].sortTime = -1
      BY <1>2, <2>1, <2>2
    <3> QED
      BY <3>1
  <2>3. CASE Timed(lines, j) # {} /\ Timed(lines, i) = {}
    <3>1. rows[i].sortTime = -1 /\ rows[j].sortTime = lines[last(j)].time
      BY <1>2, <2>3
    <3>2. lines[last(j)].time \in Nat
      BY <1>3, <1>4, <2>3
    <3> QED
      BY <3>1, <3>2
  <2>4. CASE Timed(lines, j) # {} /\ Timed(lines, i) # {}
    <3>1. /\ last(i) \in Timed(lines, i) /\ last(j) \in Timed(lines, j)
          /\ last(i) <= last(j)
      BY <1>3, <2>1, <2>4
    <3>2. lines[last(i)].time <= lines[last(j)].time
      BY <1>4, <1>6, <3>1 DEF ClockKept
    <3> QED
      BY <1>2, <2>4, <3>2
  <2> QED
    BY <2>2, <2>3, <2>4
<1> QED
  BY <1>1, <1>2, <1>5, <1>6 DEF rows


\* The rows of a tagged stream are finitely many.
LEMMA TaggedFinite ==
  ASSUME NEW rows, NEW n \in Nat, DOMAIN rows = 1..n
  PROVE  IsFiniteSet(ToSet(rows))
<1> DEFINE f == [i \in 1..n |-> rows[i]]
<1>1. f \in Surjection(1..n, ToSet(rows))
  BY DEF Surjection, ToSet
<1>2. IsFiniteSet(1..n)
  BY FS_Interval
<1> HIDE DEF f
<1> QED
  BY <1>1, <1>2, FS_Surjection

\* The merge of two streams holds rows of either, one after the other in the order of
\* the time they sort by, and of the rows after one it holds none is missing.
LEMMA MergeSorts ==
  ASSUME NEW dl \in Seq(LineSet), NEW al \in Seq(LineSet)
  PROVE  LET dr == L!tagStream(dl, "daprd", 0, 2)
             ar == L!tagStream(al, "app", 1, 2)
             m == L!mergeStreams(dr, ar) IN
         /\ \A i \in DOMAIN m : \/ \E x \in 1..Len(dl) : m[i] = dr[x]
                                \/ \E x \in 1..Len(al) : m[i] = ar[x]
         /\ DOMAIN m \subseteq Nat
         /\ \A i, j \in DOMAIN m : i < j => L!Earlier(m[i], m[j])
         /\ \A i \in DOMAIN m :
              /\ \A x \in 1..Len(dl) : L!Earlier(m[i], dr[x]) => \E j \in DOMAIN m : m[j] = dr[x]
              /\ \A x \in 1..Len(al) : L!Earlier(m[i], ar[x]) => \E j \in DOMAIN m : m[j] = ar[x]
<1> DEFINE dr == L!tagStream(dl, "daprd", 0, 2)
           ar == L!tagStream(al, "app", 1, 2)
           rows == ToSet(dr) \cup ToSet(ar)
           q == L!Sorted(rows)
           m == L!Capped(q)
           N == Cardinality(rows)
           off == Len(q) - Len(m)
<1>1. /\ DOMAIN dr = 1..Len(dl)
      /\ \A i \in 1..Len(dl) : dr[i].arrival = (i - 1) * 2 /\ dr[i].sortTime \in Int
  <2>1. DOMAIN dr = 1..Len(dl) /\ \A i \in 1..Len(dl) : dr[i].sortTime \in Int
    BY TagTimes
  <2>2. \A i \in 1..Len(dl) : dr[i].arrival = (i - 1) * 2
    BY DEF L!tagStream
  <2> QED
    BY <2>1, <2>2
<1>2. /\ DOMAIN ar = 1..Len(al)
      /\ \A i \in 1..Len(al) : ar[i].arrival = 1 + (i - 1) * 2 /\ ar[i].sortTime \in Int
  BY TagTimes
<1>3. L!mergeStreams(dr, ar) = m
  BY DEF L!mergeStreams, L!ToSet, ToSet
<1> HIDE DEF dr, ar
<1>4. /\ \A x \in 1..Len(dl) : dr[x] \in rows
      /\ \A x \in 1..Len(al) : ar[x] \in rows
      /\ \A r \in rows : \/ \E x \in 1..Len(dl) : r = dr[x]
                        \/ \E x \in 1..Len(al) : r = ar[x]
  BY <1>1, <1>2 DEF ToSet
<1>5. IsFiniteSet(rows)
  <2>1. IsFiniteSet(ToSet(dr)) /\ IsFiniteSet(ToSet(ar))
    BY <1>1, <1>2, TaggedFinite
  <2> QED
    BY <2>1, FS_Union
<1> HIDE DEF rows
<1>6. RowsOK(rows)
  <2>1. \A r \in rows : r.sortTime \in Int /\ r.arrival \in Int
    BY <1>1, <1>2, <1>4
  <2>2. ASSUME NEW r1 \in rows, NEW r2 \in rows, r1.arrival = r2.arrival
        PROVE  r1 = r2
    <3>1. CASE (\E x \in 1..Len(dl) : r1 = dr[x]) /\ (\E x \in 1..Len(dl) : r2 = dr[x])
      BY <1>1, <2>2, <3>1
    <3>2. CASE (\E x \in 1..Len(al) : r1 = ar[x]) /\ (\E x \in 1..Len(al) : r2 = ar[x])
      BY <1>2, <2>2, <3>2
    <3>3. CASE (\E x \in 1..Len(dl) : r1 = dr[x]) /\ (\E x \in 1..Len(al) : r2 = ar[x])
      BY <1>1, <1>2, <2>2, <3>3
    <3>4. CASE (\E x \in 1..Len(al) : r1 = ar[x]) /\ (\E x \in 1..Len(dl) : r2 = dr[x])
      BY <1>1, <1>2, <2>2, <3>4
    <3> QED
      BY <1>4, <3>1, <3>2, <3>3, <3>4
  <2> QED
    BY <1>5, <2>1, <2>2 DEF RowsOK
<1>7. /\ N \in Nat /\ q \in Seq(rows) /\ Len(q) = N
      /\ \A r \in rows : \E n \in 1..N : q[n] = r
      /\ \A n1, n2 \in 1..N : n1 < n2 <=> L!Earlier(q[n1], q[n2])
  BY <1>6, SortedRows
<1> HIDE DEF q
<1>8. /\ m \in Seq(rows) /\ Len(m) <= Len(q)
      /\ \A i \in 1..Len(m) : m[i] = q[i + off]
  BY <1>7, CappedKeeps
<1> HIDE DEF m, N
<1>9. DOMAIN m = 1..Len(m) /\ Len(m) \in Nat /\ off \in Nat /\ off + Len(m) = N
  BY <1>7, <1>8
<1> HIDE DEF off
<1>10. ASSUME NEW i \in DOMAIN m
       PROVE  m[i] \in rows /\ i \in Nat /\ i + off \in 1..N /\ m[i] = q[i + off]
  BY <1>7, <1>8, <1>9
<1>11. ASSUME NEW i \in DOMAIN m, NEW j \in DOMAIN m, i < j
       PROVE  L!Earlier(m[i], m[j])
  <2>1. i + off < j + off
    BY <1>9, <1>10, <1>11
  <2> QED
    BY <1>7, <1>10, <2>1
<1>12. ASSUME NEW i \in DOMAIN m, NEW r \in rows, L!Earlier(m[i], r)
       PROVE  \E j \in DOMAIN m : m[j] = r
  <2>1. PICK n \in 1..N : q[n] = r
    BY <1>7
  <2>2. i + off < n
    BY <1>7, <1>10, <1>12, <2>1
  <2>3. n - off \in DOMAIN m /\ (n - off) + off = n
    BY <1>9, <1>10, <2>2
  <2>4. m[n - off] = r
    BY <1>10, <2>1, <2>3
  <2> QED
    BY <2>3, <2>4
<1> QED
  BY <1>3, <1>4, <1>10, <1>11, <1>12 DEF dr, ar


-----------------------------------------------------------------------------
(* What the streams hold: each reads the path its viewer names, numbers its *)
(* lines without a gap and, until a connection breaks, holds the newest of  *)
(* the lines it was sent.                                                   *)

PathFor(p, name) ==
  IF L!Content(p) = (IF name = "cp" THEN "cp" ELSE "app") THEN L!pathOf(p, name) ELSE None

TargetOK(p) == p.app \in LogApps \cup {None} /\ p.source \in {"both", "daprd", "app"}

SameTarget(p, q) ==
  /\ p.app = q.app /\ p.cpParam = q.cpParam /\ p.source = q.source
  /\ p.cpList = q.cpList /\ p.apps = q.apps

Received(st) ==
  /\ DOMAIN st = {"path", "lines", "revision", "seq", "status", "sent"}
  /\ st.lines \in Seq(LineSet) /\ st.seq \in Nat /\ st.sent \in Nat
  /\ Len(st.lines) <= st.seq
  /\ \A i \in 1..Len(st.lines) : /\ st.lines[i].seq = st.seq - Len(st.lines) + (i - 1)
                                  /\ st.lines[i].path = st.path
  /\ st.path \in DOMAIN Script \/ (st.path = None /\ st.status = "idle")

InStep(st) ==
  /\ Len(st.lines) <= st.sent
  /\ st.path \in DOMAIN Script => st.sent <= Len(Script[st.path])
  /\ \A i \in 1..Len(st.lines) :
       st.lines[i].time = Script[st.path][st.sent - Len(st.lines) + i].time

WrittenOK ==
  /\ DOMAIN lsrv = DOMAIN Script
  /\ \A path \in DOMAIN Script : lsrv[path] \in 0..Len(Script[path])

ReadInv ==
  /\ TargetOK(l)
  /\ DOMAIN lstr = L!StreamNames
  /\ \A name \in L!StreamNames : Received(lstr[name]) /\ lstr[name].path = PathFor(l, name)
  /\ lg.breaks \in Nat
  /\ lg.breaks = 0 => \A name \in L!StreamNames : InStep(lstr[name])
  /\ WrittenOK

\* A viewer's streams read logs that exist.
LEMMA PathExists ==
  ASSUME NEW p, TargetOK(p), NEW name \in L!StreamNames
  PROVE  PathFor(p, name) \in DOMAIN Script \cup {None}
<1>1. CASE name = "cp" /\ L!Content(p) = "cp"
  <2>1. L!isCpView(p)
    BY <1>1 DEF L!Content
  <2>2. L!cp(p) \in StaticCp \cup FetchedCp
    BY <2>1 DEF L!isCpView, L!cp, L!cpNames
  <2>3. PathFor(p, name) = <<"cp", L!cp(p)>>
    BY <1>1 DEF PathFor, L!pathOf
  <2> QED
    BY <2>2, <2>3, LogsAssumption
<1>2. CASE name # "cp" /\ L!Content(p) = "app"
  <2>1. p.app \in LogApps
    BY <1>2 DEF L!Content, TargetOK
  <2>2. PathFor(p, name) \in {<<p.app, name>>, None}
    BY <1>2 DEF PathFor, L!pathOf
  <2>3. name \in {"daprd", "app"}
    BY <1>2 DEF L!StreamNames
  <2> QED
    BY <2>1, <2>2, <2>3, LogsAssumption
<1> QED
  BY <1>1, <1>2 DEF PathFor

\* What the streams read depends on the target alone.
LEMMA SamePath ==
  ASSUME NEW p, NEW q, SameTarget(p, q), NEW name
  PROVE  /\ PathFor(p, name) = PathFor(q, name)
         /\ TargetOK(q) => TargetOK(p)
  BY DEF SameTarget, PathFor, TargetOK, L!Content, L!pathOf, L!isCpView, L!cp, L!cpNames,
     L!cpPending, L!hasPath

\* A stream that is opened on another path starts over.
LEMMA OpenReads ==
  ASSUME NEW st, Received(st), NEW path \in DOMAIN Script \cup {None}
  PROVE  /\ Received(L!openPath(st, path)) /\ L!openPath(st, path).path = path
         /\ InStep(st) => InStep(L!openPath(st, path))
<1>1. CASE path = st.path
  BY <1>1 DEF L!openPath
<1>2. CASE path # st.path
  <2> DEFINE status == IF path = None THEN "idle" ELSE "connecting"
             o == [st EXCEPT !.path = path, !.lines = <<>>, !.sent = 0, !.status = status]
  <2>1. L!openPath(st, path) = o
    BY <1>2 DEF L!openPath
  <2>2. path \in DOMAIN Script \/ (path = None /\ status = "idle")
    OBVIOUS
  <2> HIDE DEF status
  <2>3. /\ DOMAIN o = {"path", "lines", "revision", "seq", "status", "sent"}
        /\ o.path = path /\ o.lines = <<>> /\ o.sent = 0 /\ o.status = status
        /\ o.seq = st.seq /\ st.seq \in Nat
    BY DEF Received
  <2> HIDE DEF o
  <2>4. <<>> \in Seq(LineSet) /\ Len(<<>>) = 0
    OBVIOUS
  <2>5. Received(o)
    BY <2>2, <2>3, <2>4 DEF Received
  <2>6. InStep(o)
    <3>1. path \in DOMAIN Script => Len(Script[path]) \in Nat
      BY LogsAssumption
    <3> QED
      BY <2>3, <2>4, <3>1 DEF InStep
  <2> QED
    BY <2>1, <2>3, <2>5, <2>6
<1> QED
  BY <1>1, <1>2

\* A viewer that is not on the screen has no streams.
LEMMA NoStreamReads == Received(L!NoStream) /\ InStep(L!NoStream) /\ L!NoStream.path = None
<1> DEFINE o == L!NoStream
<1>1. /\ DOMAIN o = {"path", "lines", "revision", "seq", "status", "sent"}
      /\ o.path = None /\ o.lines = <<>> /\ o.sent = 0 /\ o.status = "idle" /\ o.seq = 0
  BY DEF L!NoStream
<1> HIDE DEF o
<1>2. <<>> \in Seq(LineSet) /\ Len(<<>>) = 0
  OBVIOUS
<1>3. None \in DOMAIN Script => Len(Script[None]) \in Nat
  BY LogsAssumption
<1>4. Received(o) /\ InStep(o)
  BY <1>1, <1>2, <1>3 DEF Received, InStep
<1> QED
  BY <1>1, <1>4 DEF o

TextSet == [time: {None} \cup Nat, level: L!ALL_LEVELS, hit: BOOLEAN]

\* A log is a sequence of lines.
LEMMA ScriptLines ==
  ASSUME NEW path \in DOMAIN Script
  PROVE  Script[path] \in Seq(TextSet) /\ Len(Script[path]) \in Nat
<1>1. Script[path] \in Seq(TextSet)
  BY LogsAssumption DEF TextSet
<1> QED
  BY <1>1

\* A line arrives: it gets the next number, and the oldest may go.
LEMMA MessageReads ==
  ASSUME NEW st, Received(st), st.path \in DOMAIN Script, st.sent < Len(Script[st.path])
  PROVE  /\ Received(L!onmessage(st)) /\ L!onmessage(st).path = st.path
         /\ InStep(st) => InStep(L!onmessage(st))
<1> DEFINE text == Script[st.path][st.sent + 1]
           line == [seq |-> st.seq, path |-> st.path, time |-> text.time,
                    level |-> text.level, hit |-> text.hit]
           long == Append(st.lines, line)
           kept == L!Capped(long)
           got == L!onmessage(st)
           n == Len(st.lines)
<1>1. /\ st.lines \in Seq(LineSet) /\ st.seq \in Nat /\ st.sent \in Nat /\ n <= st.seq
      /\ n \in Nat
  BY DEF Received
<1>2. text \in TextSet
  <2>1. st.sent + 1 \in 1..Len(Script[st.path])
    BY <1>1, ScriptLines
  <2> QED
    BY <2>1, ScriptLines
<1>3. line \in LineSet
  BY <1>1, <1>2 DEF LineSet, TextSet
<1>4. /\ DOMAIN got = {"path", "lines", "revision", "seq", "status", "sent"}
      /\ got.path = st.path /\ got.lines = kept /\ got.seq = st.seq + 1
      /\ got.sent = st.sent + 1
  BY DEF L!onmessage, Received
<1>a. line.seq = st.seq /\ line.path = st.path /\ line.time = text.time
  OBVIOUS
<1> HIDE DEF text, line, got
<1>5. /\ long \in Seq(LineSet) /\ Len(long) = n + 1
      /\ \A i \in 1..n : long[i] = st.lines[i]
      /\ long[n + 1] = line
  BY <1>1, <1>3
<1>b. st.lines \in Seq(LineSet) /\ n = Len(st.lines)
  BY <1>1
<1> HIDE DEF long, n
<1>6. /\ kept \in Seq(LineSet) /\ Len(kept) <= n + 1 /\ Len(kept) \in Nat
      /\ \A i \in 1..Len(kept) : kept[i] = long[i + ((n + 1) - Len(kept))]
  <2>1. /\ kept \in Seq(LineSet) /\ Len(kept) <= Len(long)
        /\ \A i \in 1..Len(kept) : kept[i] = long[i + (Len(long) - Len(kept))]
    BY <1>5, CappedKeeps
  <2> HIDE DEF kept
  <2> QED
    BY <1>5, <2>1
<1> HIDE DEF kept
<1>c. /\ Len(kept) \in Nat /\ Len(kept) <= n + 1 /\ n \in Nat
      /\ st.sent \in Nat /\ st.seq \in Nat
  BY <1>1, <1>6
<1>7. ASSUME NEW i \in 1..Len(kept)
      PROVE  /\ kept[i].seq = (st.seq + 1) - Len(kept) + (i - 1)
             /\ kept[i].path = st.path
             /\ InStep(st) =>
                  kept[i].time = Script[st.path][(st.sent + 1) - Len(kept) + i].time
  <2> DEFINE at == i + ((n + 1) - Len(kept))
  <2>1. at \in 1..(n + 1) /\ kept[i] = long[at]
    BY <1>1, <1>6
  <2>2. CASE at = n + 1
    <3>1. kept[i] = line /\ i = Len(kept)
      BY <1>1, <1>5, <1>6, <2>1, <2>2
    <3>2. /\ (st.sent + 1) - Len(kept) + i = st.sent + 1
          /\ (st.seq + 1) - Len(kept) + (i - 1) = st.seq
      BY <1>c, <3>1
    <3> QED
      BY <1>a, <3>1, <3>2 DEF text
  <2>3. CASE at # n + 1
    <3>0. ASSUME NEW x \in 1..(n + 1), x # n + 1 PROVE x \in 1..n
      BY <1>1, <3>0
    <3>1. at \in 1..n /\ kept[i] = st.lines[at]
      <4> HIDE DEF at
      <4> QED
        BY <1>5, <2>1, <2>3, <3>0
    <3>2. /\ st.lines[at].seq = st.seq - n + (at - 1) /\ st.lines[at].path = st.path
          /\ InStep(st) => st.lines[at].time = Script[st.path][st.sent - n + at].time
      BY <3>1, <1>b DEF Received, InStep
    <3>3. st.sent - n + at = (st.sent + 1) - Len(kept) + i
      BY <1>1, <1>6
    <3>4. st.seq - n + (at - 1) = (st.seq + 1) - Len(kept) + (i - 1)
      BY <1>1, <1>6
    <3> HIDE DEF at
    <3> QED
      BY <3>1, <3>2, <3>3, <3>4
  <2> QED
    BY <2>2, <2>3
<1>8. Received(got)
  BY <1>1, <1>4, <1>6, <1>7 DEF Received
<1>9. ASSUME InStep(st) PROVE InStep(got)
  <2>1. Len(kept) <= st.sent + 1
    BY <1>b, <1>c, <1>9 DEF InStep
  <2>2. st.sent + 1 <= Len(Script[st.path])
    BY <1>1, LogsAssumption
  <2> QED
    BY <1>4, <1>7, <1>9, <2>1, <2>2 DEF InStep
<1> QED
  BY <1>4, <1>8, <1>9 DEF got


\* The view changes, the target and the streams do not.
LEMMA StaysReads ==
  ASSUME ReadInv, lstr' = lstr, lsrv' = lsrv, lg'.breaks = lg.breaks, SameTarget(l', l)
  PROVE  ReadInv'
<1>1. TargetOK(l') /\ \A name \in L!StreamNames : PathFor(l', name) = PathFor(l, name)
  BY SamePath DEF ReadInv
<1> QED
  BY <1>1 DEF ReadInv, WrittenOK

\* The page's parameters change.
LEMMA RetargetReads ==
  ASSUME ReadInv, LogsShape, NEW p, ViewOK(p), TargetOK(p), NEW acts, L!Retarget(p, acts)
  PROVE  ReadInv'
<1> DEFINE down == L!Scrolled(p, L!Rows(l, lstr), L!Rows(p, L!Streams(p)),
                              L!arrivals(lstr) # L!arrivals(L!Streams(p)))
           loose == lg.loosened \/ L!Appear(L!Rows(l, lstr), L!Rows(p, L!Streams(p)))
<1>1. /\ lstr' = L!Streams(p) /\ lsrv' = lsrv
      /\ l' = [p EXCEPT !.pinned = down]
      /\ lg' = [[lg EXCEPT !.acts = lg.acts + acts] EXCEPT !.loosened = loose]
  BY DEF L!Retarget, LogsShape
<1> HIDE DEF down, loose
<1>2. SameTarget(l', p)
  BY <1>1 DEF SameTarget, ViewOK
<1>3. lg'.breaks = lg.breaks
  BY <1>1 DEF LogsShape
<1>4. TargetOK(l') /\ \A name \in L!StreamNames : PathFor(l', name) = PathFor(p, name)
  BY <1>2, SamePath
<1>5. ASSUME NEW name \in L!StreamNames
      PROVE  /\ Received(lstr'[name]) /\ lstr'[name].path = PathFor(p, name)
             /\ InStep(lstr[name]) => InStep(lstr'[name])
  <2> DEFINE st == lstr[name]
  <2>0. Received(st)
    BY DEF ReadInv
  <2>1. CASE L!Content(p) # (IF name = "cp" THEN "cp" ELSE "app")
    <3>1. lstr'[name] = L!NoStream /\ PathFor(p, name) = None
      BY <1>1, <2>1 DEF L!Streams, PathFor
    <3> QED
      BY <3>1, NoStreamReads
  <2>2. CASE L!Content(p) = (IF name = "cp" THEN "cp" ELSE "app")
    <3>1. lstr'[name] = L!openPath(st, PathFor(p, name))
      BY <1>1, <2>2 DEF L!Streams, PathFor
    <3>2. PathFor(p, name) \in DOMAIN Script \cup {None}
      BY PathExists
    <3> QED
      BY <2>0, <3>1, <3>2, OpenReads
  <2> QED
    BY <2>1, <2>2
<1>6. DOMAIN lstr' = L!StreamNames
  BY <1>1 DEF L!Streams
<1> QED
  BY <1>1, <1>3, <1>4, <1>5, <1>6 DEF ReadInv, WrittenOK

\* One stream changes and reads on where it did.
LEMMA StreamReads ==
  ASSUME ReadInv, NEW name \in L!StreamNames, NEW st, Received(st), st.path = lstr[name].path,
         lstr' = [lstr EXCEPT ![name] = st], lsrv' = lsrv, SameTarget(l', l),
         lg'.breaks \in Nat,
         lg'.breaks = 0 => lg.breaks = 0 /\ (InStep(lstr[name]) => InStep(st))
  PROVE  ReadInv'
<1>1. TargetOK(l') /\ \A other \in L!StreamNames : PathFor(l', other) = PathFor(l, other)
  BY SamePath DEF ReadInv
<1>2. /\ DOMAIN lstr' = L!StreamNames /\ lstr'[name] = st
      /\ \A other \in L!StreamNames : other # name => lstr'[other] = lstr[other]
  BY DEF ReadInv
<1> QED
  BY <1>1, <1>2 DEF ReadInv, WrittenOK

\* What the user does leaves the streams what they hold, or opens them elsewhere.
LEMMA UserReads ==
  ASSUME ReadInv, LogsShape
  PROVE  /\ \A app \in LogApps \cup {None} : \A name : L!onTargetChange(app, name) => ReadInv'
         /\ \A name : L!toggleSource(name) => ReadInv'
         /\ \A level : L!toggleLevel(level) => ReadInv'
         /\ L!setSearch => ReadInv'
         /\ L!handleFollowToggle => ReadInv'
         /\ L!handleScroll => ReadInv'
<1>0. ViewOK(l) /\ DOMAIN lg = {"loosened", "acts", "breaks"} /\ TargetOK(l)
  BY DEF LogsShape, ReadInv
<1>1. ASSUME NEW app \in LogApps \cup {None}, NEW name, L!onTargetChange(app, name)
      PROVE  ReadInv'
  <2> DEFINE p == [l EXCEPT !.app = app, !.cpParam = name]
  <2>1. L!Retarget(p, 1)
    BY <1>1 DEF L!onTargetChange
  <2>2. ViewOK(p) /\ TargetOK(p)
    BY <1>0 DEF ViewOK, TargetOK
  <2> HIDE DEF p
  <2> QED
    BY <2>1, <2>2, RetargetReads
<1>2. ASSUME NEW name, L!toggleSource(name)
      PROVE  ReadInv'
  <2> DEFINE source == IF l.source # "both" THEN "both"
                       ELSE IF name = "daprd" THEN "app" ELSE "daprd"
             p == [l EXCEPT !.source = source]
  <2>1. L!Retarget(p, 1)
    BY <1>2 DEF L!toggleSource
  <2>2. source \in {"both", "daprd", "app"}
    OBVIOUS
  <2> HIDE DEF source
  <2>3. ViewOK(p) /\ TargetOK(p)
    BY <1>0, <2>2 DEF ViewOK, TargetOK
  <2> HIDE DEF p
  <2> QED
    BY <2>1, <2>3, RetargetReads
<1>3. ASSUME NEW p, L!Filter(p), ViewOK(p), SameTarget(p, l)
      PROVE  ReadInv'
  <2> DEFINE down == L!Scrolled(p, L!Rows(l, lstr), L!Rows(p, lstr), FALSE)
             loose == lg.loosened \/ L!Appear(L!Rows(l, lstr), L!Rows(p, lstr))
  <2>1. /\ lstr' = lstr /\ lsrv' = lsrv /\ l' = [p EXCEPT !.pinned = down]
        /\ lg' = [[lg EXCEPT !.acts = lg.acts + 1] EXCEPT !.loosened = loose]
    BY <1>0, <1>3 DEF L!Filter
  <2> HIDE DEF down, loose
  <2>2. SameTarget(l', l) /\ lg'.breaks = lg.breaks
    BY <1>0, <1>3, <2>1 DEF SameTarget, ViewOK
  <2> QED
    BY <2>1, <2>2, StaysReads
<1>4. ASSUME NEW level, L!toggleLevel(level)
      PROVE  ReadInv'
  <2> DEFINE levels == IF level \in l.levels THEN l.levels \ {level} ELSE l.levels \cup {level}
             p == [l EXCEPT !.levels = levels]
  <2>1. L!Filter(p)
    BY <1>4 DEF L!toggleLevel
  <2> HIDE DEF levels
  <2>2. ViewOK(p) /\ SameTarget(p, l)
    BY <1>0 DEF ViewOK, SameTarget
  <2> HIDE DEF p
  <2> QED
    BY <1>3, <2>1, <2>2
<1>5. ASSUME L!setSearch
      PROVE  ReadInv'
  <2> DEFINE search == ~l.search
             p == [l EXCEPT !.search = search]
  <2>1. L!Filter(p)
    BY <1>5 DEF L!setSearch
  <2> HIDE DEF search
  <2>2. ViewOK(p) /\ SameTarget(p, l)
    BY <1>0 DEF ViewOK, SameTarget
  <2> HIDE DEF p
  <2> QED
    BY <1>3, <2>1, <2>2
<1>6. ASSUME NEW following, NEW pinned, NEW lg2, DOMAIN lg2 = DOMAIN lg,
             lg2.breaks = lg.breaks, lg' = lg2, lstr' = lstr, lsrv' = lsrv,
             l' = [[l EXCEPT !.following = following] EXCEPT !.pinned = pinned]
      PROVE  ReadInv'
  <2>1. SameTarget(l', l)
    BY <1>0, <1>6 DEF SameTarget, ViewOK
  <2> QED
    BY <1>6, <2>1, StaysReads
<1>7. ASSUME L!handleFollowToggle
      PROVE  ReadInv'
  <2> DEFINE following == ~l.following
             pinned == l.pinned \/ ~l.following
             lg2 == [[lg EXCEPT !.acts = lg.acts + 1] EXCEPT !.loosened = FALSE]
  <2>1. /\ lg' = lg2 /\ lstr' = lstr /\ lsrv' = lsrv
        /\ l' = [[l EXCEPT !.following = following] EXCEPT !.pinned = pinned]
    BY <1>0, <1>7 DEF L!handleFollowToggle, ViewOK
  <2>2. DOMAIN lg2 = DOMAIN lg /\ lg2.breaks = lg.breaks
    BY <1>0
  <2> HIDE DEF following, pinned, lg2
  <2> QED
    BY <1>6, <2>1, <2>2
<1>8. ASSUME L!handleScroll
      PROVE  ReadInv'
  <2> DEFINE following == l.following /\ ~l.pinned
             pinned == ~l.pinned
             lg2 == [lg EXCEPT !.acts = lg.acts + 1]
  <2>1. /\ lg' = lg2 /\ lstr' = lstr /\ lsrv' = lsrv
        /\ l' = [[l EXCEPT !.following = following] EXCEPT !.pinned = pinned]
    BY <1>0, <1>8 DEF L!handleScroll, L!Acted, ViewOK
  <2>2. DOMAIN lg2 = DOMAIN lg /\ lg2.breaks = lg.breaks
    BY <1>0
  <2> HIDE DEF following, pinned, lg2
  <2> QED
    BY <1>6, <2>1, <2>2
<1> QED
  BY <1>1, <1>2, <1>4, <1>5, <1>7, <1>8

\* What arrives on its own: answers, lines, breaks.
LEMMA ArrivalReads ==
  ASSUME ReadInv, LogsShape
  PROVE  /\ L!AppLands => ReadInv'
         /\ \A outcome : L!CpListLands(outcome) => ReadInv'
         /\ \A name \in L!StreamNames : L!onopen(name) => ReadInv'
         /\ \A name \in L!StreamNames : L!Message(name) => ReadInv'
         /\ \A name \in L!StreamNames : \A status : L!onerror(name, status) => ReadInv'
         /\ \A path : L!LogGrows(path) => ReadInv'
<1>0. /\ ViewOK(l) /\ DOMAIN lg = {"loosened", "acts", "breaks"} /\ TargetOK(l)
      /\ lg.breaks \in Nat
  BY DEF LogsShape, ReadInv
<1>a. \A name \in L!StreamNames : Received(lstr[name])
  BY DEF ReadInv
<1>b. SameTarget(l, l)
  BY DEF SameTarget
<1>1. ASSUME L!AppLands
      PROVE  ReadInv'
  <2> DEFINE p == [l EXCEPT !.apps = l.apps \cup {l.app}]
  <2>1. L!Retarget(p, 0)
    BY <1>1 DEF L!AppLands
  <2>2. ViewOK(p) /\ TargetOK(p)
    BY <1>0 DEF ViewOK, TargetOK
  <2> HIDE DEF p
  <2> QED
    BY <2>1, <2>2, RetargetReads
<1>2. ASSUME NEW outcome, L!CpListLands(outcome)
      PROVE  ReadInv'
  <2> DEFINE p == [l EXCEPT !.cpList = outcome]
  <2>1. L!Retarget(p, 0)
    BY <1>2 DEF L!CpListLands
  <2>2. ViewOK(p) /\ TargetOK(p)
    BY <1>0 DEF ViewOK, TargetOK
  <2> HIDE DEF p
  <2> QED
    BY <2>1, <2>2, RetargetReads
<1>3. ASSUME NEW name \in L!StreamNames, L!onopen(name)
      PROVE  ReadInv'
  <2> DEFINE st == [lstr[name] EXCEPT !.status = "open"]
  <2>1. /\ lstr' = [lstr EXCEPT ![name] = st] /\ l' = l /\ lg' = lg /\ lsrv' = lsrv
        /\ lstr[name].status \in {"connecting", "error"}
    BY <1>3 DEF L!onopen, L!Stream
  <2>2. Received(st) /\ st.path = lstr[name].path /\ (InStep(lstr[name]) => InStep(st))
    BY <1>a, <2>1 DEF Received, InStep
  <2> HIDE DEF st
  <2> QED
    BY <1>0, <1>b, <2>1, <2>2, StreamReads
<1>4. ASSUME NEW name \in L!StreamNames, L!Message(name)
      PROVE  ReadInv'
  <2> DEFINE st == lstr[name]
             got == L!onmessage(st)
             after == [lstr EXCEPT ![name] = got]
             down == L!Scrolled(l, L!Rows(l, lstr), L!Rows(l, after),
                                L!arrivals(lstr) # L!arrivals(after))
             loose == lg.loosened /\ ~l.following
  <2>1. /\ lstr' = [lstr EXCEPT ![name] = got] /\ lsrv' = lsrv
        /\ l' = [l EXCEPT !.pinned = down]
        /\ lg' = [lg EXCEPT !.loosened = loose]
        /\ st.status = "open" /\ st.sent < lsrv[st.path]
    BY <1>4 DEF L!Message
  <2> HIDE DEF down, loose
  <2>2. SameTarget(l', l) /\ lg'.breaks = lg.breaks
    BY <1>0, <2>1 DEF SameTarget, ViewOK
  <2>3. Received(st) /\ st.path \in DOMAIN Script /\ st.sent \in Nat
    BY <1>a, <2>1 DEF Received
  <2>4. lsrv[st.path] \in 0..Len(Script[st.path]) /\ Len(Script[st.path]) \in Nat
    BY <2>3, ScriptLines DEF ReadInv, WrittenOK
  <2>5. st.sent < Len(Script[st.path])
    BY <2>1, <2>3, <2>4
  <2>6. Received(got) /\ got.path = st.path /\ (InStep(st) => InStep(got))
    BY <2>3, <2>5, MessageReads
  <2> HIDE DEF got
  <2> QED
    BY <1>0, <2>1, <2>2, <2>6, StreamReads
<1>5. ASSUME NEW name \in L!StreamNames, NEW status, L!onerror(name, status)
      PROVE  ReadInv'
  <2> DEFINE st == [lstr[name] EXCEPT !.status = status, !.sent = 0]
  <2>1. /\ lstr' = [lstr EXCEPT ![name] = st] /\ l' = l /\ lsrv' = lsrv
        /\ lg' = [lg EXCEPT !.breaks = lg.breaks + 1]
        /\ lstr[name].status \in {"connecting", "open"}
    BY <1>5 DEF L!onerror, L!Stream
  <2>2. Received(st) /\ st.path = lstr[name].path
    BY <1>a, <2>1 DEF Received
  <2>3. lg'.breaks \in Nat /\ lg'.breaks # 0
    BY <1>0, <2>1
  <2> HIDE DEF st
  <2> QED
    BY <1>b, <2>1, <2>2, <2>3, StreamReads
<1>6. ASSUME NEW path, L!LogGrows(path)
      PROVE  ReadInv'
  <2>1. /\ lsrv' = [lsrv EXCEPT ![path] = lsrv[path] + 1] /\ lsrv[path] < Len(Script[path])
        /\ l' = l /\ lstr' = lstr /\ lg' = lg
    BY <1>6 DEF L!LogGrows
  <2>2. WrittenOK'
    BY <2>1, ScriptLines DEF ReadInv, WrittenOK
  <2> QED
    BY <2>1, <2>2 DEF ReadInv
<1> QED
  BY <1>1, <1>2, <1>3, <1>4, <1>5, <1>6

\* A step of the log viewer.
LEMMA ReadStep == ReadInv /\ LogsInv /\ L!LNext => ReadInv'
<1> SUFFICES ASSUME ReadInv, LogsInv, L!LNext PROVE ReadInv'
  OBVIOUS
<1>1. LogsShape
  BY DEF LogsInv
<1> QED
  BY <1>1, UserReads, ArrivalReads DEF L!LNext

\* The log viewer at first.
LEMMA ReadInit == L!LInit => ReadInv
<1> SUFFICES ASSUME L!LInit PROVE ReadInv
  OBVIOUS
<1>1. l.app = None /\ l.source = "both" /\ l.cpParam = None
  BY DEF L!LInit, L!Mount
<1>2. \A name \in L!StreamNames : lstr[name] = L!NoStream
  BY DEF L!LInit
<1>3. L!Content(l) \notin {"cp", "app"}
  BY <1>1 DEF L!Content, L!isCpView, L!cp
<1>4. \A name : PathFor(l, name) = None
  BY <1>3 DEF PathFor
<1>5. WrittenOK
  BY ScriptLines DEF L!LInit, WrittenOK
<1>6. DOMAIN lstr = L!StreamNames /\ lg.breaks = 0
  BY DEF L!LInit
<1> QED
  BY <1>1, <1>2, <1>4, <1>5, <1>6, NoStreamReads DEF ReadInv, TargetOK


-----------------------------------------------------------------------------
(* From what the streams hold to what the viewer shows. *)

OrderKept(rows) ==
  /\ \A i \in DOMAIN rows :
       /\ rows[i].line.path = L!pathOf(l, rows[i].src)
       /\ rows[i].line \in L!ToSet(lstr[rows[i].src].lines)
  /\ lg.breaks = 0 =>
       \A i \in DOMAIN rows :
         /\ \A j \in DOMAIN rows :
              i < j /\ rows[i].src = rows[j].src => rows[i].line.seq < rows[j].line.seq
         /\ \A line \in L!ToSet(lstr[rows[i].src].lines) :
              line.seq > rows[i].line.seq => \E j \in DOMAIN rows : rows[j].line = line

\* A stream's lines are numbered in their order.
LEMMA SeqOrder ==
  ASSUME NEW st, Received(st), NEW x \in 1..Len(st.lines), NEW y \in 1..Len(st.lines)
  PROVE  st.lines[x].seq < st.lines[y].seq <=> x < y
<1>1. Len(st.lines) \in Nat /\ st.seq \in Nat
  BY DEF Received
<1>2. /\ st.lines[x].seq = st.seq - Len(st.lines) + (x - 1)
      /\ st.lines[y].seq = st.seq - Len(st.lines) + (y - 1)
  BY DEF Received
<1> QED
  BY <1>1, <1>2

\* Until a connection breaks, a stream's lines carry a clock that does not run back.
LEMMA ClockOrder ==
  ASSUME NEW st, Received(st), InStep(st)
  PROVE  ClockKept(st.lines)
<1> DEFINE n == Len(st.lines)
<1> SUFFICES ASSUME NEW i \in 1..n, NEW j \in 1..n, i < j,
                    st.lines[i].time # None, st.lines[j].time # None
             PROVE  st.lines[i].time <= st.lines[j].time
  BY DEF ClockKept
<1>1. st.lines \in Seq(LineSet) /\ n \in Nat /\ st.sent \in Nat
  BY DEF Received
<1>2. st.path \in DOMAIN Script
  <2>1. st.lines[i] \in LineSet /\ st.lines[i].path = st.path
    BY <1>1 DEF Received
  <2> QED
    BY <2>1 DEF LineSet
<1> DEFINE x == st.sent - n + i
           y == st.sent - n + j
           log == Script[st.path]
<1>3. /\ n <= st.sent /\ st.sent <= Len(log)
      /\ st.lines[i].time = log[x].time /\ st.lines[j].time = log[y].time
  BY <1>2 DEF InStep
<1>4. Len(log) \in Nat /\ DOMAIN log = 1..Len(log)
  BY <1>2, ScriptLines
<1> HIDE DEF n
<1>5. x \in 1..Len(log) /\ y \in 1..Len(log) /\ x < y
  BY <1>1, <1>3, <1>4
<1> HIDE DEF x, y
<1> QED
  BY <1>2, <1>3, <1>4, <1>5, LogsAssumption

\* A viewer of one stream shows its lines as they came.
LEMMA OneStreamKept ==
  ASSUME ReadInv, NEW name \in L!StreamNames, PathFor(l, name) = L!pathOf(l, name)
  PROVE  OrderKept(L!tagStream(lstr[name].lines, name, 0, 1))
<1> DEFINE st == lstr[name]
           rows == L!tagStream(st.lines, name, 0, 1)
<1>1. Received(st) /\ st.path = L!pathOf(l, name) /\ st.lines \in Seq(LineSet)
  BY DEF ReadInv, Received
<1>2. DOMAIN rows = 1..Len(st.lines)
  BY DEF L!tagStream
<1>3. \A i \in 1..Len(st.lines) : rows[i].line = st.lines[i] /\ rows[i].src = name
  BY DEF L!tagStream
<1> HIDE DEF rows
<1>4. \A i \in 1..Len(st.lines) : st.lines[i].path = L!pathOf(l, name)
  BY <1>1 DEF Received
<1>5. L!ToSet(st.lines) = {st.lines[i] : i \in 1..Len(st.lines)}
  BY <1>1 DEF L!ToSet
<1>6. \A x, y \in 1..Len(st.lines) : st.lines[x].seq < st.lines[y].seq <=> x < y
  BY <1>1, SeqOrder
<1> HIDE DEF st
<1>7. OrderKept(rows)
  <2>1. \A i \in DOMAIN rows : lstr[rows[i].src].lines = st.lines /\ rows[i].src = name
    BY <1>2, <1>3 DEF st
  <2>2. \A i \in DOMAIN rows : /\ rows[i].line.path = L!pathOf(l, rows[i].src)
                              /\ rows[i].line \in L!ToSet(lstr[rows[i].src].lines)
    BY <1>2, <1>3, <1>4, <1>5, <2>1
  <2>3. \A i, j \in DOMAIN rows : i < j => rows[i].line.seq < rows[j].line.seq
    BY <1>2, <1>3, <1>6
  <2>4. \A line \in L!ToSet(st.lines) : \E j \in DOMAIN rows : rows[j].line = line
    BY <1>2, <1>3, <1>5
  <2> QED
    BY <2>1, <2>2, <2>3, <2>4 DEF OrderKept
<1> QED
  BY <1>7 DEF rows, st

\* A viewer of two streams shows the lines of each as they came.
LEMMA TwoStreamsKept ==
  ASSUME ReadInv, \A name \in {"daprd", "app"} : PathFor(l, name) = L!pathOf(l, name)
  PROVE  OrderKept(L!mergeStreams(L!tagStream(lstr["daprd"].lines, "daprd", 0, 2),
                                  L!tagStream(lstr["app"].lines, "app", 1, 2)))
<1> DEFINE lines(name) == lstr[name].lines
           rows(name) == L!tagStream(lines(name), name, IF name = "app" THEN 1 ELSE 0, 2)
           m == L!mergeStreams(rows("daprd"), rows("app"))
           Two == {"daprd", "app"}
<1>1. \A name \in Two :
        /\ Received(lstr[name]) /\ lstr[name].path = L!pathOf(l, name)
        /\ lines(name) \in Seq(LineSet)
  BY DEF ReadInv, Received, L!StreamNames
<1>2. /\ \A i \in DOMAIN m : \E name \in Two : \E x \in 1..Len(lines(name)) : m[i] = rows(name)[x]
      /\ DOMAIN m \subseteq Nat
      /\ \A i, j \in DOMAIN m : i < j => L!Earlier(m[i], m[j])
      /\ \A i \in DOMAIN m : \A name \in Two : \A x \in 1..Len(lines(name)) :
           L!Earlier(m[i], rows(name)[x]) => \E j \in DOMAIN m : m[j] = rows(name)[x]
  <2> DEFINE dr == L!tagStream(lines("daprd"), "daprd", 0, 2)
             ar == L!tagStream(lines("app"), "app", 1, 2)
  <2>1. rows("daprd") = dr /\ rows("app") = ar
    OBVIOUS
  <2>2. lines("daprd") \in Seq(LineSet) /\ lines("app") \in Seq(LineSet)
    BY <1>1
  <2> HIDE DEF lines
  <2> QED
    BY <2>1, <2>2, MergeSorts
<1>3. ASSUME NEW name \in Two
      PROVE  /\ \A x \in 1..Len(lines(name)) :
                  rows(name)[x].line = lines(name)[x] /\ rows(name)[x].src = name
             /\ \A x, y \in 1..Len(lines(name)) :
                  rows(name)[x].arrival < rows(name)[y].arrival <=> x < y
             /\ \A x \in 1..Len(lines(name)) :
                  rows(name)[x].arrival \in Int /\ rows(name)[x].sortTime \in Int
             /\ ClockKept(lines(name)) =>
                  \A x, y \in 1..Len(lines(name)) :
                    x < y => rows(name)[x].sortTime <= rows(name)[y].sortTime
  <2> DEFINE base == IF name = "app" THEN 1 ELSE 0
  <2>1. base \in Int /\ 2 \in Int /\ lines(name) \in Seq(LineSet)
    BY <1>1
  <2>2. rows(name) = L!tagStream(lines(name), name, base, 2)
    OBVIOUS
  <2> HIDE DEF base, lines, rows
  <2>3. \A x \in 1..Len(lines(name)) : rows(name)[x].arrival = base + (x - 1) * 2
    BY <2>1, <2>2 DEF L!tagStream
  <2>4. /\ \A x \in 1..Len(lines(name)) :
             /\ rows(name)[x].line = lines(name)[x] /\ rows(name)[x].src = name
             /\ rows(name)[x].sortTime \in Int
        /\ ClockKept(lines(name)) =>
             \A x, y \in 1..Len(lines(name)) :
               x < y => rows(name)[x].sortTime <= rows(name)[y].sortTime
    BY <2>1, <2>2, TagTimes
  <2> QED
    BY <2>1, <2>3, <2>4
<1>4. \A name \in Two : \A x, y \in 1..Len(lines(name)) :
        lines(name)[x].seq < lines(name)[y].seq <=> x < y
  BY <1>1, SeqOrder
<1>5. \A name \in Two : \A x \in 1..Len(lines(name)) : lines(name)[x].path = L!pathOf(l, name)
  BY <1>1 DEF Received
<1>6. \A name \in Two : L!ToSet(lines(name)) = {lines(name)[x] : x \in 1..Len(lines(name))}
  BY <1>1 DEF L!ToSet
<1>7. lg.breaks = 0 => \A name \in Two : ClockKept(lines(name))
  BY <1>1, ClockOrder DEF ReadInv, L!StreamNames
<1> HIDE DEF lines, rows, m
<1>8. ASSUME NEW i \in DOMAIN m
      PROVE  /\ m[i].src \in Two
             /\ \E x \in 1..Len(lines(m[i].src)) :
                  m[i] = rows(m[i].src)[x] /\ m[i].line = lines(m[i].src)[x]
  <2>1. PICK name \in Two : \E x \in 1..Len(lines(name)) : m[i] = rows(name)[x]
    BY <1>2
  <2>x. PICK x \in 1..Len(lines(name)) : m[i] = rows(name)[x]
    BY <2>1
  <2>2. m[i].src = name /\ m[i].line = lines(name)[x]
    BY <1>3, <2>x
  <2> QED
    BY <2>x, <2>2
<1>9. ASSUME lg.breaks = 0, NEW name \in Two,
             NEW x \in 1..Len(lines(name)), NEW y \in 1..Len(lines(name))
      PROVE  L!Earlier(rows(name)[x], rows(name)[y]) <=> x < y
  <2>1. /\ rows(name)[x].arrival < rows(name)[y].arrival <=> x < y
        /\ x < y => rows(name)[x].sortTime <= rows(name)[y].sortTime
        /\ y < x => rows(name)[y].sortTime <= rows(name)[x].sortTime
        /\ rows(name)[x].sortTime \in Int /\ rows(name)[y].sortTime \in Int
        /\ rows(name)[x].arrival \in Int /\ rows(name)[y].arrival \in Int
    BY <1>3, <1>7, <1>9
  <2>2. x \in Int /\ y \in Int
    OBVIOUS
  <2>3. x = y => ~L!Earlier(rows(name)[x], rows(name)[y])
    BY <2>1 DEF L!Earlier
  <2> QED
    BY <2>1, <2>2, <2>3 DEF L!Earlier
<1>10. ASSUME NEW i \in DOMAIN m
       PROVE  /\ m[i].line.path = L!pathOf(l, m[i].src)
              /\ m[i].line \in L!ToSet(lines(m[i].src))
  BY <1>5, <1>6, <1>8
<1>11. ASSUME lg.breaks = 0, NEW i \in DOMAIN m, NEW j \in DOMAIN m, i < j,
              m[i].src = m[j].src
       PROVE  m[i].line.seq < m[j].line.seq
  <2> DEFINE name == m[i].src
  <2>1. PICK x \in 1..Len(lines(name)) : m[i] = rows(name)[x] /\ m[i].line = lines(name)[x]
    BY <1>8
  <2>2. PICK y \in 1..Len(lines(name)) : m[j] = rows(name)[y] /\ m[j].line = lines(name)[y]
    BY <1>8, <1>11
  <2>3. name \in Two /\ L!Earlier(m[i], m[j])
    BY <1>2, <1>8, <1>11
  <2>4. x < y
    BY <1>9, <1>11, <2>1, <2>2, <2>3
  <2> QED
    BY <1>4, <2>1, <2>2, <2>3, <2>4
<1>12. ASSUME lg.breaks = 0, NEW i \in DOMAIN m, NEW line \in L!ToSet(lines(m[i].src)),
              line.seq > m[i].line.seq
       PROVE  \E j \in DOMAIN m : m[j].line = line
  <2> DEFINE name == m[i].src
  <2>0. name \in Two
    BY <1>8
  <2>1. PICK x \in 1..Len(lines(name)) : m[i] = rows(name)[x] /\ m[i].line = lines(name)[x]
    BY <1>8
  <2>2. PICK y \in 1..Len(lines(name)) : line = lines(name)[y]
    BY <1>6, <1>12, <2>0
  <2>3. lines(name)[x].seq < lines(name)[y].seq
    <3>1. lines(name) \in Seq(LineSet)
      BY <1>1, <2>0
    <3>2. lines(name)[x] \in LineSet /\ lines(name)[y] \in LineSet
      BY <3>1
    <3>3. lines(name)[x].seq \in Nat /\ lines(name)[y].seq \in Nat
      BY <3>2 DEF LineSet
    <3> QED
      BY <1>12, <2>1, <2>2, <3>3
  <2>4. x < y
    BY <1>4, <2>0, <2>3
  <2>5. L!Earlier(m[i], rows(name)[y])
    BY <1>9, <1>12, <2>0, <2>1, <2>4
  <2>6. PICK j \in DOMAIN m : m[j] = rows(name)[y]
    BY <1>2, <2>0, <2>5
  <2>7. m[j].line = line
    BY <1>3, <2>0, <2>2, <2>6
  <2> QED
    BY <2>7
<1>13. \A name \in Two : lines(name) = lstr[name].lines
  BY DEF lines
<1>14. OrderKept(m)
  BY <1>8, <1>10, <1>11, <1>12, <1>13 DEF OrderKept
<1> QED
  BY <1>14 DEF m, rows, lines

\* The viewer keeps the order of each stream.
LEMMA ReadsInOrder == ReadInv => L!StreamOrderKept
<1> SUFFICES ASSUME ReadInv PROVE OrderKept(L!merged(l, lstr))
  BY DEF OrderKept, L!StreamOrderKept
<1>0. l.source \in {"both", "daprd", "app"}
  BY DEF ReadInv, TargetOK
<1>1. CASE L!Content(l) = "cp"
  <2>1. L!merged(l, lstr) = L!tagStream(lstr["cp"].lines, "cp", 0, 1)
    BY <1>1 DEF L!merged
  <2>2. "cp" \in L!StreamNames /\ PathFor(l, "cp") = L!pathOf(l, "cp")
    BY <1>1 DEF L!StreamNames, PathFor
  <2> QED
    BY <2>1, <2>2, OneStreamKept
<1>2. CASE L!Content(l) = "app"
  <2>1. \A name \in {"daprd", "app"} : name \in L!StreamNames /\ PathFor(l, name) = L!pathOf(l, name)
    BY <1>2 DEF L!StreamNames, PathFor
  <2>2. CASE l.source # "both"
    <3>1. L!merged(l, lstr) = L!tagStream(lstr[l.source].lines, l.source, 0, 1)
      BY <1>2, <2>2 DEF L!merged
    <3> QED
      BY <1>0, <2>1, <2>2, <3>1, OneStreamKept
  <2>3. CASE l.source = "both"
    <3>1. L!merged(l, lstr) = L!mergeStreams(L!tagStream(lstr["daprd"].lines, "daprd", 0, 2),
                                             L!tagStream(lstr["app"].lines, "app", 1, 2))
      BY <1>2, <2>3 DEF L!merged
    <3> QED
      BY <2>1, <3>1, TwoStreamsKept
  <2> QED
    BY <2>2, <2>3
<1>3. CASE L!Content(l) \notin {"cp", "app"}
  <2>1. L!merged(l, lstr) = <<>>
    BY <1>3 DEF L!merged
  <2> QED
    BY <2>1 DEF OrderKept
<1> QED
  BY <1>1, <1>2, <1>3

-----------------------------------------------------------------------------
(* The pairs of the workflow page.                                           *)
(* The pass over the history is a recursive function: a least event at which *)
(* what is claimed of it fails does not exist.                               *)

\* The pass begins with nothing and takes the events one by one.
LEMMA PassUnfolds ==
  ASSUME NEW h, Len(h) \in Nat
  PROVE  /\ D!pairPass(h)[0] = [open |-> <<>>, result |-> <<>>]
         /\ \A n \in 1..Len(h) : D!pairPass(h)[n] = D!pairEvent(h, D!pairPass(h)[n - 1], n)
<1> DEFINE none == [open |-> <<>>, result |-> <<>>]
           F(m, g) == [n \in 0..m |-> IF n = 0 THEN none ELSE D!pairEvent(h, g[n - 1], n)]
           Bad == {m \in Nat : ~ \E g : g = F(m, g)}
<1>1. D!pairPass(h) = CHOOSE g : g = F(Len(h), g)
  BY DEF D!pairPass
<1>2. 0 \notin Bad
  <2> DEFINE g == [n \in 0..0 |-> none]
  <2>1. g = F(0, g)
    OBVIOUS
  <2> HIDE DEF g, F
  <2> QED
    BY <2>1
<1>3. ASSUME NEW m \in Nat, m + 1 \in Bad PROVE m \in Bad
  <2> SUFFICES ASSUME NEW g, g = F(m, g) PROVE FALSE
    OBVIOUS
  <2> DEFINE f == [n \in 0..(m + 1) |-> IF n <= m THEN g[n] ELSE D!pairEvent(h, g[m], m + 1)]
  <2>1. ASSUME NEW n \in 0..(m + 1)
        PROVE  f[n] = IF n = 0 THEN none ELSE D!pairEvent(h, f[n - 1], n)
    <3>1. CASE n <= m
      <4>1. n \in 0..m /\ (n # 0 => n - 1 \in 0..m)
        BY <3>1
      <4>2. g[n] = IF n = 0 THEN none ELSE D!pairEvent(h, g[n - 1], n)
        BY <4>1
      <4>3. f[n] = g[n] /\ (n # 0 => f[n - 1] = g[n - 1])
        BY <4>1
      <4> HIDE DEF f, none
      <4> QED
        BY <4>2, <4>3
    <3>2. CASE ~(n <= m)
      <4>1. n = m + 1 /\ n - 1 = m /\ n # 0
        BY <3>2
      <4>2. f[n] = D!pairEvent(h, g[m], m + 1) /\ f[n - 1] = g[m]
        BY <4>1
      <4> HIDE DEF f, none
      <4> QED
        BY <4>1, <4>2
    <3> QED
      BY <3>1, <3>2
  <2>2. f = F(m + 1, f)
    <3>1. f = [n \in 0..(m + 1) |-> f[n]]
      OBVIOUS
    <3> HIDE DEF f, none
    <3> QED
      BY <2>1, <3>1
  <2> HIDE DEF f, F
  <2> QED
    BY <1>3, <2>2
<1> HIDE DEF Bad
<1>4. Bad = {}
  <2> SUFFICES ASSUME Bad # {} PROVE FALSE
    OBVIOUS
  <2>1. Bad \subseteq Nat
    BY DEF Bad
  <2>2. PICK m \in Bad : \A x \in Bad : m <= x
    BY <2>1, LeastNat
  <2>3. m - 1 \in Nat /\ (m - 1) + 1 = m
    BY <1>2, <2>1, <2>2
  <2>4. m - 1 \in Bad
    BY <1>3, <2>2, <2>3
  <2> QED
    BY <2>1, <2>2, <2>4
<1>5. \E g : g = F(Len(h), g)
  BY <1>4 DEF Bad
<1> HIDE DEF F
<1>6. D!pairPass(h) = F(Len(h), D!pairPass(h))
  BY <1>1, <1>5
<1> DEFINE pass == D!pairPass(h)
<1> HIDE DEF pass
<1>7. pass = [n \in 0..Len(h) |-> IF n = 0 THEN none ELSE D!pairEvent(h, pass[n - 1], n)]
  BY <1>6 DEF F, pass
<1>8. pass[0] = none /\ \A n \in 1..Len(h) : pass[n] = D!pairEvent(h, pass[n - 1], n)
  BY <1>7
<1> QED
  BY <1>8 DEF pass

-----------------------------------------------------------------------------
(* Counting the members of a set of numbers in an interval. *)

\* How many members of X lie from m to n.
Cnt(X, m, n) == Cardinality(X \cap (m..n))

\* The count over no interval, and over one number more.
LEMMA CntSteps ==
  ASSUME NEW X, NEW m \in Int, NEW n \in Int
  PROVE  /\ Cnt(X, m, n) \in Nat
         /\ n < m => Cnt(X, m, n) = 0
         /\ m <= n + 1 /\ n + 1 \in X => Cnt(X, m, n + 1) = Cnt(X, m, n) + 1
         /\ m <= n + 1 /\ n + 1 \notin X => Cnt(X, m, n + 1) = Cnt(X, m, n)
<1> DEFINE Y == X \cap (m..n)
           Z == X \cap (m..(n + 1))
<1>1. IsFiniteSet(m..n)
  BY FS_Interval
<1>2. Y \subseteq m..n
  OBVIOUS
<1>3. IsFiniteSet(Y)
  <2> HIDE DEF Y
  <2> QED
    BY <1>1, <1>2, FS_Subset
<1>4. n < m => Y = {}
  OBVIOUS
<1>5. m <= n + 1 /\ n + 1 \in X => Z = Y \cup {n + 1}
  OBVIOUS
<1>6. m <= n + 1 /\ n + 1 \notin X => Z = Y
  OBVIOUS
<1>7. n + 1 \notin Y
  OBVIOUS
<1> HIDE DEF Y, Z
<1>8. Cardinality(Y) \in Nat
  BY <1>3, FS_CardinalityType
<1>9. Cardinality(Y \cup {n + 1}) = Cardinality(Y) + 1
  BY <1>3, <1>7, FS_AddElement
<1>10. Y = {} => Cardinality(Y) = 0
  BY FS_EmptySet
<1> QED
  BY <1>4, <1>5, <1>6, <1>8, <1>9, <1>10 DEF Cnt, Y, Z

\* The count over an interval is that over its two parts.
LEMMA CntSplit ==
  ASSUME NEW X, NEW m \in Int, NEW x \in Int, NEW n \in Int, m <= x + 1, x <= n
  PROVE  Cnt(X, m, n) = Cnt(X, m, x) + Cnt(X, x + 1, n)
<1> DEFINE Y == X \cap (m..x)
           Z == X \cap ((x + 1)..n)
<1>1. IsFiniteSet(m..x) /\ IsFiniteSet((x + 1)..n)
  BY FS_Interval
<1>2. Y \subseteq m..x /\ Z \subseteq (x + 1)..n
  OBVIOUS
<1>3. X \cap (m..n) = Y \cup Z /\ Y \cap Z = {}
  OBVIOUS
<1> HIDE DEF Y, Z
<1>4. IsFiniteSet(Y) /\ IsFiniteSet(Z)
  BY <1>1, <1>2, FS_Subset
<1>5. Cardinality(Y) \in Nat /\ Cardinality(Z) \in Nat
  BY <1>4, FS_CardinalityType
<1>6. Cardinality(Y \cup Z) = Cardinality(Y) + Cardinality(Z) - Cardinality(Y \cap Z)
  BY <1>4, FS_Union
<1>7. Cardinality(Y \cap Z) = 0
  BY <1>3, FS_EmptySet
<1>8. Cardinality(Y \cup Z) = Cardinality(Y) + Cardinality(Z)
  BY <1>5, <1>6, <1>7
<1> QED
  BY <1>3, <1>8 DEF Cnt, Y, Z

-----------------------------------------------------------------------------
(* Matching: X are the places of one id's starts, Y those of its ends.      *)

\* The end at j closes the start at i.
Match(X, Y, i, j) ==
  /\ i < j /\ i \in X /\ j \in Y
  /\ Cnt(X, i + 1, j - 1) = Cnt(Y, i + 1, j - 1)
  /\ \A n \in i..(j - 1) : Cnt(Y, i + 1, n) <= Cnt(X, i + 1, n)

\* Starts and ends are different places.
Apart(X, Y) == X \subseteq Int /\ Y \subseteq Int /\ X \cap Y = {}

\* An end that closes a start outnumbers the starts since.
LEMMA MatchEnds ==
  ASSUME NEW X, NEW Y, Apart(X, Y), NEW i, NEW j, Match(X, Y, i, j)
  PROVE  i \in Int /\ j \in Int /\ Cnt(Y, i + 1, j) = Cnt(X, i + 1, j) + 1
<1>1. i \in Int /\ j \in Int /\ i < j /\ j \in Y /\ j \notin X /\ (j - 1) + 1 = j
  BY DEF Match, Apart
<1>2. i + 1 \in Int /\ j - 1 \in Int /\ i + 1 <= (j - 1) + 1
  BY <1>1
<1>3. /\ Cnt(Y, i + 1, j) = Cnt(Y, i + 1, j - 1) + 1
      /\ Cnt(X, i + 1, j) = Cnt(X, i + 1, j - 1)
  BY <1>1, <1>2, CntSteps
<1> QED
  BY <1>1, <1>3 DEF Match

\* A start is closed by one end.
LEMMA OneEnd ==
  ASSUME NEW X, NEW Y, Apart(X, Y), NEW i, NEW j1, NEW j2, Match(X, Y, i, j1), Match(X, Y, i, j2)
  PROVE  j1 = j2
<1>1. ASSUME NEW x, NEW y, Match(X, Y, i, x), Match(X, Y, i, y), x < y
      PROVE  FALSE
  <2>1. i \in Int /\ x \in Int /\ y \in Int /\ i < x
    BY <1>1, MatchEnds DEF Match
  <2>2. Cnt(Y, i + 1, x) = Cnt(X, i + 1, x) + 1
    BY <1>1, MatchEnds
  <2>3. x \in i..(y - 1)
    BY <1>1, <2>1
  <2>4. Cnt(Y, i + 1, x) <= Cnt(X, i + 1, x)
    BY <1>1, <2>3 DEF Match
  <2>5. Cnt(X, i + 1, x) \in Nat
    BY <2>1, CntSteps
  <2> QED
    BY <2>2, <2>4, <2>5
<1>2. j1 \in Int /\ j2 \in Int
  BY MatchEnds
<1> QED
  BY <1>1, <1>2

\* An end closes one start.
LEMMA OneStart ==
  ASSUME NEW X, NEW Y, Apart(X, Y), NEW i1, NEW i2, NEW j, Match(X, Y, i1, j), Match(X, Y, i2, j)
  PROVE  i1 = i2
<1>1. ASSUME NEW x, NEW y, Match(X, Y, x, j), Match(X, Y, y, j), x < y
      PROVE  FALSE
  <2>1. x \in Int /\ y \in Int /\ j \in Int /\ y < j /\ y \in X /\ y \notin Y /\ (y - 1) + 1 = y
    BY <1>1, MatchEnds DEF Match, Apart
  <2>2. x + 1 \in Int /\ y + 1 \in Int /\ y - 1 \in Int /\ j - 1 \in Int
        /\ x + 1 <= y + 1 /\ y <= j - 1 /\ x + 1 <= (y - 1) + 1
    BY <1>1, <2>1
  <2>3. /\ Cnt(X, x + 1, j - 1) = Cnt(X, x + 1, y) + Cnt(X, y + 1, j - 1)
        /\ Cnt(Y, x + 1, j - 1) = Cnt(Y, x + 1, y) + Cnt(Y, y + 1, j - 1)
    BY <2>1, <2>2, CntSplit
  <2>4. /\ Cnt(X, x + 1, j - 1) = Cnt(Y, x + 1, j - 1)
        /\ Cnt(X, y + 1, j - 1) = Cnt(Y, y + 1, j - 1)
    BY <1>1 DEF Match
  <2>5. /\ Cnt(X, x + 1, y) = Cnt(X, x + 1, y - 1) + 1
        /\ Cnt(Y, x + 1, y) = Cnt(Y, x + 1, y - 1)
    BY <2>1, <2>2, CntSteps
  <2>6. y - 1 \in x..(j - 1)
    BY <1>1, <2>1
  <2>7. Cnt(Y, x + 1, y - 1) <= Cnt(X, x + 1, y - 1)
    BY <1>1, <2>6 DEF Match
  <2>8. /\ Cnt(X, x + 1, y - 1) \in Nat /\ Cnt(Y, x + 1, y - 1) \in Nat
        /\ Cnt(X, x + 1, y) \in Nat /\ Cnt(Y, x + 1, y) \in Nat
        /\ Cnt(X, y + 1, j - 1) \in Nat /\ Cnt(Y, y + 1, j - 1) \in Nat
    BY <2>2, <2>1, CntSteps
  <2> QED
    BY <2>3, <2>4, <2>5, <2>7, <2>8
<1>2. i1 \in Int /\ i2 \in Int
  BY MatchEnds
<1> QED
  BY <1>1, <1>2

-----------------------------------------------------------------------------
(* The stack of an id's open starts after n events: between a start on it   *)
(* and here, as many starts are unclosed as lie above it, and at no place   *)
(* between did the ends outnumber the starts.                               *)

Held(X, Y, stk, n) ==
  /\ stk \in Seq(Nat)
  /\ \A p \in 1..Len(stk) :
       /\ stk[p] \in X /\ stk[p] \in 1..n
       /\ Cnt(X, stk[p] + 1, n) - Cnt(Y, stk[p] + 1, n) = Len(stk) - p
       /\ \A x \in (stk[p])..n : Cnt(Y, stk[p] + 1, x) <= Cnt(X, stk[p] + 1, x)

\* One event more, seen from a start on the stack.
LEMMA HeldCounts ==
  ASSUME NEW X, NEW Y, NEW n \in Nat, NEW i \in 1..n,
         \A x \in i..n : Cnt(Y, i + 1, x) <= Cnt(X, i + 1, x)
  PROVE  /\ Cnt(X, i + 1, n) \in Nat /\ Cnt(Y, i + 1, n) \in Nat
         /\ Cnt(X, i + 1, n + 1) = Cnt(X, i + 1, n) + (IF n + 1 \in X THEN 1 ELSE 0)
         /\ Cnt(Y, i + 1, n + 1) = Cnt(Y, i + 1, n) + (IF n + 1 \in Y THEN 1 ELSE 0)
         /\ Cnt(Y, i + 1, n + 1) <= Cnt(X, i + 1, n + 1)
              => \A x \in i..(n + 1) : Cnt(Y, i + 1, x) <= Cnt(X, i + 1, x)
<1>1. i + 1 \in Int /\ n \in Int /\ i + 1 <= n + 1
  OBVIOUS
<1>2. /\ Cnt(X, i + 1, n) \in Nat /\ Cnt(Y, i + 1, n) \in Nat
      /\ Cnt(X, i + 1, n + 1) = Cnt(X, i + 1, n) + (IF n + 1 \in X THEN 1 ELSE 0)
      /\ Cnt(Y, i + 1, n + 1) = Cnt(Y, i + 1, n) + (IF n + 1 \in Y THEN 1 ELSE 0)
  BY <1>1, CntSteps
<1>3. \A x \in i..(n + 1) : x \in i..n \/ x = n + 1
  OBVIOUS
<1> QED
  BY <1>2, <1>3

\* An event of another id.
LEMMA HeldIdle ==
  ASSUME NEW X, NEW Y, NEW n \in Nat, NEW stk, Held(X, Y, stk, n), n + 1 \notin X, n + 1 \notin Y
  PROVE  Held(X, Y, stk, n + 1)
<1>1. ASSUME NEW p \in 1..Len(stk)
      PROVE  /\ stk[p] \in X /\ stk[p] \in 1..(n + 1)
             /\ Cnt(X, stk[p] + 1, n + 1) - Cnt(Y, stk[p] + 1, n + 1) = Len(stk) - p
             /\ \A x \in (stk[p])..(n + 1) : Cnt(Y, stk[p] + 1, x) <= Cnt(X, stk[p] + 1, x)
  <2> DEFINE i == stk[p]
  <2>1. /\ i \in X /\ i \in 1..n /\ Cnt(X, i + 1, n) - Cnt(Y, i + 1, n) = Len(stk) - p
        /\ \A x \in i..n : Cnt(Y, i + 1, x) <= Cnt(X, i + 1, x)
    BY DEF Held
  <2> HIDE DEF i
  <2>2. n \in i..n
    BY <2>1
  <2>3. Cnt(Y, i + 1, n) <= Cnt(X, i + 1, n)
    BY <2>1, <2>2
  <2>4. /\ Cnt(X, i + 1, n + 1) = Cnt(X, i + 1, n) + (IF n + 1 \in X THEN 1 ELSE 0)
        /\ Cnt(Y, i + 1, n + 1) = Cnt(Y, i + 1, n) + (IF n + 1 \in Y THEN 1 ELSE 0)
        /\ Cnt(X, i + 1, n) \in Nat /\ Cnt(Y, i + 1, n) \in Nat
        /\ Cnt(Y, i + 1, n + 1) <= Cnt(X, i + 1, n + 1)
              => \A x \in i..(n + 1) : Cnt(Y, i + 1, x) <= Cnt(X, i + 1, x)
    BY <2>1, HeldCounts
  <2>5. Cnt(X, i + 1, n + 1) = Cnt(X, i + 1, n) /\ Cnt(Y, i + 1, n + 1) = Cnt(Y, i + 1, n)
    BY <2>4
  <2>6. \A x \in i..(n + 1) : Cnt(Y, i + 1, x) <= Cnt(X, i + 1, x)
    BY <2>3, <2>4, <2>5
  <2> QED
    BY <2>1, <2>5, <2>6 DEF i
<1> QED
  BY <1>1 DEF Held

\* A start is pushed.
LEMMA HeldPush ==
  ASSUME NEW X, NEW Y, NEW n \in Nat, NEW stk, Held(X, Y, stk, n), n + 1 \in X, n + 1 \notin Y
  PROVE  Held(X, Y, Append(stk, n + 1), n + 1)
<1> DEFINE s2 == Append(stk, n + 1)
<1>1. /\ stk \in Seq(Nat) /\ Len(stk) \in Nat /\ s2 \in Seq(Nat) /\ Len(s2) = Len(stk) + 1
      /\ s2[Len(stk) + 1] = n + 1 /\ \A p \in 1..Len(stk) : s2[p] = stk[p]
  BY DEF Held
<1> HIDE DEF s2
<1>2. ASSUME NEW p \in 1..Len(stk)
      PROVE  /\ s2[p] \in X /\ s2[p] \in 1..(n + 1)
             /\ Cnt(X, s2[p] + 1, n + 1) - Cnt(Y, s2[p] + 1, n + 1) = Len(s2) - p
             /\ \A x \in (s2[p])..(n + 1) : Cnt(Y, s2[p] + 1, x) <= Cnt(X, s2[p] + 1, x)
  <2> DEFINE i == stk[p]
  <2>1. /\ i \in X /\ i \in 1..n /\ Cnt(X, i + 1, n) - Cnt(Y, i + 1, n) = Len(stk) - p
        /\ \A x \in i..n : Cnt(Y, i + 1, x) <= Cnt(X, i + 1, x)
    BY DEF Held
  <2>2. s2[p] = i
    BY <1>1
  <2> HIDE DEF i
  <2>3. n \in i..n
    BY <2>1
  <2>4. Cnt(Y, i + 1, n) <= Cnt(X, i + 1, n)
    BY <2>1, <2>3
  <2>5. /\ Cnt(X, i + 1, n + 1) = Cnt(X, i + 1, n) + (IF n + 1 \in X THEN 1 ELSE 0)
        /\ Cnt(Y, i + 1, n + 1) = Cnt(Y, i + 1, n) + (IF n + 1 \in Y THEN 1 ELSE 0)
        /\ Cnt(X, i + 1, n) \in Nat /\ Cnt(Y, i + 1, n) \in Nat
        /\ Cnt(Y, i + 1, n + 1) <= Cnt(X, i + 1, n + 1)
              => \A x \in i..(n + 1) : Cnt(Y, i + 1, x) <= Cnt(X, i + 1, x)
    BY <2>1, HeldCounts
  <2>6. Cnt(X, i + 1, n + 1) = Cnt(X, i + 1, n) + 1 /\ Cnt(Y, i + 1, n + 1) = Cnt(Y, i + 1, n)
    BY <2>5
  <2>7. \A x \in i..(n + 1) : Cnt(Y, i + 1, x) <= Cnt(X, i + 1, x)
    BY <2>4, <2>5, <2>6
  <2>8. Cnt(X, i + 1, n + 1) - Cnt(Y, i + 1, n + 1) = Len(s2) - p
    <3>1. /\ Cnt(X, i + 1, n) - Cnt(Y, i + 1, n) = Len(stk) - p
          /\ Cnt(X, i + 1, n) \in Nat /\ Cnt(Y, i + 1, n) \in Nat
          /\ Len(stk) \in Nat /\ p \in Int /\ Len(s2) = Len(stk) + 1
      BY <1>1, <2>1, <2>5
    <3> QED
      BY <2>6, <3>1
  <2> QED
    BY <2>1, <2>2, <2>7, <2>8
<1>3. ASSUME NEW p, p = Len(stk) + 1
      PROVE  /\ s2[p] \in X /\ s2[p] \in 1..(n + 1)
             /\ Cnt(X, s2[p] + 1, n + 1) - Cnt(Y, s2[p] + 1, n + 1) = Len(s2) - p
             /\ \A x \in (s2[p])..(n + 1) : Cnt(Y, s2[p] + 1, x) <= Cnt(X, s2[p] + 1, x)
  <2>1. s2[p] = n + 1 /\ Len(s2) - p = 0
    BY <1>1, <1>3
  <2>2. Cnt(X, n + 2, n + 1) = 0 /\ Cnt(Y, n + 2, n + 1) = 0
    BY CntSteps
  <2>3. (n + 1) + 1 = n + 2 /\ \A x \in (n + 1)..(n + 1) : x = n + 1
    OBVIOUS
  <2> QED
    BY <2>1, <2>2, <2>3
<1>4. \A p \in 1..Len(s2) : p \in 1..Len(stk) \/ p = Len(stk) + 1
  BY <1>1
<1>5. Held(X, Y, s2, n + 1)
  BY <1>1, <1>2, <1>3, <1>4 DEF Held
<1> QED
  BY <1>5 DEF s2

\* An end closes the start on top.
LEMMA HeldPop ==
  ASSUME NEW X, NEW Y, NEW n \in Nat, NEW stk, Held(X, Y, stk, n), n + 1 \notin X, n + 1 \in Y,
         stk # <<>>
  PROVE  /\ Match(X, Y, stk[Len(stk)], n + 1) /\ stk[Len(stk)] \in 1..n
         /\ Held(X, Y, SubSeq(stk, 1, Len(stk) - 1), n + 1)
         /\ \A p \in 1..(Len(stk) - 1) : /\ SubSeq(stk, 1, Len(stk) - 1)[p] = stk[p]
                                         /\ stk[p] # stk[Len(stk)]
         /\ Len(SubSeq(stk, 1, Len(stk) - 1)) = Len(stk) - 1 /\ Len(stk) \in 1..Len(stk)
<1> DEFINE N == Len(stk)
           s2 == SubSeq(stk, 1, N - 1)
           top == stk[N]
<1>1. /\ stk \in Seq(Nat) /\ N \in Nat /\ N > 0 /\ s2 \in Seq(Nat) /\ Len(s2) = N - 1
      /\ \A p \in 1..(N - 1) : s2[p] = stk[p]
  <2>1. stk \in Seq(Nat) /\ N \in Nat
    BY DEF Held
  <2>2. N > 0
    BY <2>1
  <2>3. s2 = [p \in 1..(N - 1) |-> stk[p]]
    BY <2>1, <2>2
  <2>4. \A p \in 1..(N - 1) : stk[p] \in Nat
    BY <2>1, <2>2
  <2>5. s2 \in [1..(N - 1) -> Nat] /\ N - 1 \in Nat
    <3> HIDE DEF N, s2
    <3> QED
      BY <2>1, <2>2, <2>3, <2>4
  <2>6. s2 \in Seq(Nat) /\ Len(s2) = N - 1 /\ \A p \in 1..(N - 1) : s2[p] = stk[p]
    <3> HIDE DEF N, s2
    <3> QED
      BY <2>3, <2>5
  <2> QED
    BY <2>1, <2>2, <2>6
<1>h. \A p \in 1..N :
        /\ stk[p] \in X /\ stk[p] \in 1..n
        /\ Cnt(X, stk[p] + 1, n) - Cnt(Y, stk[p] + 1, n) = N - p
        /\ \A x \in (stk[p])..n : Cnt(Y, stk[p] + 1, x) <= Cnt(X, stk[p] + 1, x)
  BY DEF Held
<1> HIDE DEF s2, N
<1>2. N \in 1..N
  BY <1>1
<1>3. Match(X, Y, top, n + 1) /\ top \in 1..n
  <2>1. /\ top \in X /\ top \in 1..n /\ Cnt(X, top + 1, n) - Cnt(Y, top + 1, n) = 0
        /\ \A x \in top..n : Cnt(Y, top + 1, x) <= Cnt(X, top + 1, x)
    BY <1>1, <1>2, <1>h
  <2> HIDE DEF top
  <2>2. Cnt(X, top + 1, n) \in Nat /\ Cnt(Y, top + 1, n) \in Nat
    BY <2>1, CntSteps
  <2>3. Cnt(X, top + 1, n) = Cnt(Y, top + 1, n) /\ (n + 1) - 1 = n /\ top < n + 1
    BY <2>1, <2>2
  <2> QED
    BY <2>1, <2>3 DEF Match
<1>4. ASSUME NEW p \in 1..(N - 1)
      PROVE  /\ s2[p] \in X /\ s2[p] \in 1..(n + 1)
             /\ Cnt(X, s2[p] + 1, n + 1) - Cnt(Y, s2[p] + 1, n + 1) = Len(s2) - p
             /\ \A x \in (s2[p])..(n + 1) : Cnt(Y, s2[p] + 1, x) <= Cnt(X, s2[p] + 1, x)
             /\ stk[p] # top
  <2> DEFINE i == stk[p]
  <2>0. p \in 1..N /\ p < N
    BY <1>1
  <2>1. /\ i \in X /\ i \in 1..n /\ Cnt(X, i + 1, n) - Cnt(Y, i + 1, n) = N - p
        /\ \A x \in i..n : Cnt(Y, i + 1, x) <= Cnt(X, i + 1, x)
    BY <1>h, <2>0
  <2>t. Cnt(X, top + 1, n) - Cnt(Y, top + 1, n) = 0
    BY <1>1, <1>2, <1>h
  <2>2. s2[p] = i
    BY <1>1
  <2> HIDE DEF i, top
  <2>3. /\ Cnt(X, i + 1, n + 1) = Cnt(X, i + 1, n) + (IF n + 1 \in X THEN 1 ELSE 0)
        /\ Cnt(Y, i + 1, n + 1) = Cnt(Y, i + 1, n) + (IF n + 1 \in Y THEN 1 ELSE 0)
        /\ Cnt(X, i + 1, n) \in Nat /\ Cnt(Y, i + 1, n) \in Nat
        /\ Cnt(Y, i + 1, n + 1) <= Cnt(X, i + 1, n + 1)
              => \A x \in i..(n + 1) : Cnt(Y, i + 1, x) <= Cnt(X, i + 1, x)
    BY <2>1, HeldCounts
  <2>4. Cnt(X, i + 1, n + 1) = Cnt(X, i + 1, n) /\ Cnt(Y, i + 1, n + 1) = Cnt(Y, i + 1, n) + 1
    BY <2>3
  <2>5. /\ Cnt(X, i + 1, n + 1) - Cnt(Y, i + 1, n + 1) = Len(s2) - p
        /\ Cnt(Y, i + 1, n + 1) <= Cnt(X, i + 1, n + 1)
    BY <1>1, <2>0, <2>1, <2>3, <2>4
  <2>6. i # top
    BY <1>1, <2>0, <2>1, <2>t
  <2> QED
    BY <2>1, <2>2, <2>3, <2>5, <2>6 DEF i
<1>5. Held(X, Y, s2, n + 1)
  BY <1>1, <1>4 DEF Held
<1> QED
  BY <1>1, <1>2, <1>3, <1>4, <1>5 DEF N, s2, top

\* No end so far closes a start on the stack.
LEMMA HeldOpen ==
  ASSUME NEW X, NEW Y, Apart(X, Y), NEW n \in Nat, NEW stk, Held(X, Y, stk, n),
         NEW p \in 1..Len(stk), NEW j \in 1..n
  PROVE  ~ Match(X, Y, stk[p], j)
<1> DEFINE i == stk[p]
<1> SUFFICES ASSUME Match(X, Y, i, j) PROVE FALSE
  OBVIOUS
<1>1. i \in 1..n /\ \A x \in i..n : Cnt(Y, i + 1, x) <= Cnt(X, i + 1, x)
  BY DEF Held
<1> HIDE DEF i
<1>2. i < j /\ Cnt(Y, i + 1, j) = Cnt(X, i + 1, j) + 1
  BY MatchEnds DEF Match
<1>3. j \in i..n
  BY <1>1, <1>2
<1>4. Cnt(X, i + 1, j) \in Nat
  BY <1>1, CntSteps
<1> QED
  BY <1>1, <1>2, <1>3, <1>4

-----------------------------------------------------------------------------
(* The pass over a history. *)

\* The places of an id's starts and of its ends, and which belong together.
St(h, id) == {x \in 1..Len(h) : D!isStart(h[x]) /\ h[x].sequenceId = id}
En(h, id) == {x \in 1..Len(h) : D!isEnd(h[x]) /\ h[x].scheduledId = id}

Pair(h, id, i, j) == Match(St(h, id), En(h, id), i, j)

\* After n events each stack holds its id's unclosed starts, none with a pair yet.
StacksOK(h, acc, n) ==
  \A id : /\ Held(St(h, id), En(h, id), D!Stack(acc.open, id), n)
          /\ \A p \in 1..Len(D!Stack(acc.open, id)) :
               D!Stack(acc.open, id)[p] \notin DOMAIN acc.result

\* A start is on its stack, or has the end that closes it.
StartDone(h, acc, n, i) ==
  \/ \E p \in 1..Len(D!Stack(acc.open, h[i].sequenceId)) :
       D!Stack(acc.open, h[i].sequenceId)[p] = i
  \/ /\ i \in DOMAIN acc.result /\ acc.result[i].partnerIndex \in 1..n
     /\ Pair(h, h[i].sequenceId, i, acc.result[i].partnerIndex)

\* An end has the start it closes, or there is none.
EndDone(h, acc, n, j) ==
  /\ j \in DOMAIN acc.result
  /\ \/ /\ acc.result[j].partnerIndex \in 1..n
        /\ Pair(h, h[j].scheduledId, acc.result[j].partnerIndex, j)
     \/ /\ acc.result[j].partnerIndex = None
        /\ \A i : ~ Pair(h, h[j].scheduledId, i, j)

\* What the pass holds after n events.
PassOK(h, acc, n) ==
  /\ StacksOK(h, acc, n)
  /\ \A i \in 1..n : D!isStart(h[i]) => StartDone(h, acc, n, i)
  /\ \A j \in 1..n : D!isEnd(h[j]) => EndDone(h, acc, n, j)
  /\ DOMAIN acc.result \subseteq {i \in 1..n : D!isStart(h[i]) \/ D!isEnd(h[i])}

\* No event is a start and an end.
LEMMA StartNotEnd == \A e : ~(D!isStart(e) /\ D!isEnd(e))
  BY DEF D!isStart, D!isEnd, D!START_TYPES, D!END_TYPES

\* The starts and ends of an id are different events.
LEMMA PlacesApart ==
  ASSUME NEW h, Len(h) \in Nat, NEW id
  PROVE  Apart(St(h, id), En(h, id))
  BY StartNotEnd DEF Apart, St, En

\* An event that is neither.
LEMMA PassIdle ==
  ASSUME NEW h, Len(h) \in Nat, NEW acc, NEW n \in Nat, n + 1 <= Len(h), PassOK(h, acc, n),
         ~ D!isStart(h[n + 1]), ~ D!isEnd(h[n + 1])
  PROVE  PassOK(h, acc, n + 1)
<1>0. \A x \in 1..(n + 1) : x \in 1..n \/ x = n + 1
  OBVIOUS
<1>m. \A x \in 1..n : x \in 1..(n + 1)
  OBVIOUS
<1>1. StacksOK(h, acc, n + 1)
  <2>1. ASSUME NEW id
        PROVE  Held(St(h, id), En(h, id), D!Stack(acc.open, id), n + 1)
    <3>1. n + 1 \notin St(h, id) /\ n + 1 \notin En(h, id)
      BY DEF St, En
    <3>2. Held(St(h, id), En(h, id), D!Stack(acc.open, id), n)
      BY DEF PassOK, StacksOK
    <3> QED
      BY <3>1, <3>2, HeldIdle
  <2> QED
    BY <2>1 DEF PassOK, StacksOK
<1>2. ASSUME NEW i \in 1..(n + 1), D!isStart(h[i]) PROVE StartDone(h, acc, n + 1, i)
  <2>1. i \in 1..n
    BY <1>0, <1>2
  <2>2. StartDone(h, acc, n, i)
    BY <1>2, <2>1 DEF PassOK
  <2> QED
    BY <1>m, <2>2 DEF StartDone
<1>3. ASSUME NEW j \in 1..(n + 1), D!isEnd(h[j]) PROVE EndDone(h, acc, n + 1, j)
  <2>1. j \in 1..n
    BY <1>0, <1>3
  <2>2. EndDone(h, acc, n, j)
    BY <1>3, <2>1 DEF PassOK
  <2> QED
    BY <1>m, <2>2 DEF EndDone
<1>4. DOMAIN acc.result \subseteq {i \in 1..(n + 1) : D!isStart(h[i]) \/ D!isEnd(h[i])}
  BY <1>m DEF PassOK
<1> QED
  BY <1>1, <1>2, <1>3, <1>4 DEF PassOK

\* A start goes on its stack.
LEMMA PassStart ==
  ASSUME NEW h, Len(h) \in Nat, NEW acc, NEW n \in Nat, n + 1 <= Len(h), PassOK(h, acc, n),
         D!isStart(h[n + 1]), NEW acc2, acc2.result = acc.result,
         acc2.open = D!pushed(acc.open, h[n + 1].sequenceId, n + 1)
  PROVE  PassOK(h, acc2, n + 1)
<1> DEFINE id0 == h[n + 1].sequenceId
           old(id) == D!Stack(acc.open, id)
           new(id) == D!Stack(acc2.open, id)
<1>0. /\ \A x \in 1..(n + 1) : x \in 1..n \/ x = n + 1
      /\ \A x \in 1..n : x \in 1..(n + 1)
      /\ n + 1 \in 1..Len(h) /\ n + 1 \notin 1..n
  OBVIOUS
<1>1. ~ D!isEnd(h[n + 1])
  BY StartNotEnd
<1>2. \A id : new(id) = IF id = id0 THEN Append(old(id0), n + 1) ELSE old(id)
  <2> DEFINE val == Append(old(id0), n + 1)
  <2>1. acc2.open = D!Put(acc.open, id0, val)
    BY DEF D!pushed
  <2> HIDE DEF val, id0
  <2>2. \A x : D!Stack(D!Put(acc.open, id0, val), x) = IF x = id0 THEN val ELSE D!Stack(acc.open, x)
    BY DEF D!Put, D!Stack
  <2> QED
    BY <2>1, <2>2 DEF val
<1>3. \A id : Held(St(h, id), En(h, id), old(id), n)
  BY DEF PassOK, StacksOK
<1>4. \A id : old(id) \in Seq(Nat)
  BY <1>3 DEF Held
<1>r. DOMAIN acc2.result = DOMAIN acc.result /\ n + 1 \notin DOMAIN acc.result
  BY <1>0 DEF PassOK
<1>s. \A id : \A p \in 1..Len(old(id)) : old(id)[p] \notin DOMAIN acc.result
  BY DEF PassOK, StacksOK
<1> HIDE DEF old, new
<1>a. /\ Len(Append(old(id0), n + 1)) = Len(old(id0)) + 1 /\ Len(old(id0)) \in Nat
      /\ Append(old(id0), n + 1)[Len(old(id0)) + 1] = n + 1
      /\ \A p \in 1..Len(old(id0)) : Append(old(id0), n + 1)[p] = old(id0)[p]
  BY <1>4
<1>5. ASSUME NEW id
      PROVE  /\ Held(St(h, id), En(h, id), new(id), n + 1)
             /\ \A p \in 1..Len(new(id)) : new(id)[p] \notin DOMAIN acc2.result
  <2>1. CASE id = id0
    <3>1. n + 1 \in St(h, id) /\ n + 1 \notin En(h, id)
      BY <1>0, <1>1, <2>1 DEF St, En
    <3>2. Held(St(h, id), En(h, id), new(id), n + 1)
      BY <1>2, <1>3, <2>1, <3>1, HeldPush
    <3>3. \A p \in 1..Len(new(id)) : p \in 1..Len(old(id)) \/ p = Len(old(id)) + 1
      BY <1>2, <1>a, <2>1
    <3>4. \A p \in 1..Len(new(id)) : new(id)[p] \notin DOMAIN acc2.result
      BY <1>2, <1>a, <1>r, <1>s, <2>1, <3>3
    <3> QED
      BY <3>2, <3>4
  <2>2. CASE id # id0
    <3>1. n + 1 \notin St(h, id) /\ n + 1 \notin En(h, id)
      BY <1>0, <1>1, <2>2 DEF St, En
    <3> QED
      BY <1>2, <1>3, <1>r, <1>s, <2>2, <3>1, HeldIdle
  <2> QED
    BY <2>1, <2>2
<1>6. StacksOK(h, acc2, n + 1)
  BY <1>5 DEF StacksOK, new
<1>7. ASSUME NEW i \in 1..(n + 1), D!isStart(h[i]) PROVE StartDone(h, acc2, n + 1, i)
  <2> DEFINE id == h[i].sequenceId
  <2>1. CASE i = n + 1
    <3>1. Len(new(id)) \in 1..Len(new(id)) /\ new(id)[Len(new(id))] = n + 1
      BY <1>2, <1>a, <2>1
    <3> QED
      BY <2>1, <3>1 DEF StartDone, new
  <2>2. CASE i \in 1..n
    <3>1. StartDone(h, acc, n, i)
      BY <1>7, <2>2 DEF PassOK
    <3>2. ASSUME NEW p \in 1..Len(old(id)), old(id)[p] = i
          PROVE  StartDone(h, acc2, n + 1, i)
      <4>1. p \in 1..Len(new(id)) /\ new(id)[p] = i
        BY <1>2, <1>a, <3>2
      <4> QED
        BY <4>1 DEF StartDone, new
    <3>3. CASE /\ i \in DOMAIN acc.result /\ acc.result[i].partnerIndex \in 1..n
               /\ Pair(h, id, i, acc.result[i].partnerIndex)
      BY <1>0, <3>3 DEF StartDone
    <3> QED
      BY <3>1, <3>2, <3>3 DEF StartDone, old
  <2> QED
    BY <1>0, <2>1, <2>2
<1>8. ASSUME NEW j \in 1..(n + 1), D!isEnd(h[j]) PROVE EndDone(h, acc2, n + 1, j)
  <2>1. j \in 1..n
    BY <1>0, <1>1, <1>8
  <2>2. EndDone(h, acc, n, j)
    BY <1>8, <2>1 DEF PassOK
  <2> QED
    BY <1>0, <2>2 DEF EndDone
<1>9. DOMAIN acc2.result \subseteq {i \in 1..(n + 1) : D!isStart(h[i]) \/ D!isEnd(h[i])}
  BY <1>0, <1>r DEF PassOK
<1> QED
  BY <1>6, <1>7, <1>8, <1>9 DEF PassOK

\* An end with no open start of its id closes nothing, and nothing could be closed.
LEMMA PassOrphan ==
  ASSUME NEW h, Len(h) \in Nat, NEW acc, NEW n \in Nat, n + 1 <= Len(h), PassOK(h, acc, n),
         D!isEnd(h[n + 1]), D!Stack(acc.open, h[n + 1].scheduledId) = <<>>,
         NEW info, info.partnerIndex = None,
         NEW acc2, acc2.open = acc.open, acc2.result = D!Put(acc.result, n + 1, info)
  PROVE  PassOK(h, acc2, n + 1)
<1> DEFINE id0 == h[n + 1].scheduledId
           old(id) == D!Stack(acc.open, id)
<1>0. /\ \A x \in 1..(n + 1) : x \in 1..n \/ x = n + 1
      /\ \A x \in 1..n : x \in 1..(n + 1) /\ x # n + 1
      /\ n + 1 \in 1..Len(h) /\ n \in 0..Len(h)
  OBVIOUS
<1>1. ~ D!isStart(h[n + 1])
  BY StartNotEnd
<1>r. /\ DOMAIN acc2.result = DOMAIN acc.result \cup {n + 1} /\ acc2.result[n + 1] = info
      /\ \A x \in DOMAIN acc.result : x # n + 1 => acc2.result[x] = acc.result[x]
  <2> DEFINE new == D!Put(acc.result, n + 1, info)
  <2>1. /\ DOMAIN new = DOMAIN acc.result \cup {n + 1} /\ new[n + 1] = info
        /\ \A x \in DOMAIN acc.result : x # n + 1 => new[x] = acc.result[x]
    BY DEF D!Put
  <2> HIDE DEF new
  <2> QED
    BY <2>1 DEF new
<1>s. StacksOK(h, acc, n)
  BY DEF PassOK
<1>2. ASSUME NEW id
      PROVE  /\ Held(St(h, id), En(h, id), old(id), n + 1)
             /\ \A p \in 1..Len(old(id)) : old(id)[p] \notin DOMAIN acc2.result
  <2>1. Held(St(h, id), En(h, id), old(id), n)
    BY <1>s DEF StacksOK
  <2>2. n + 1 \notin St(h, id)
    BY <1>1 DEF St
  <2>3. Held(St(h, id), En(h, id), old(id), n + 1)
    <3>1. CASE id = id0
      <4>1. old(id) = <<>> /\ <<>> \in Seq(Nat) /\ Len(<<>>) = 0
        BY <3>1
      <4> QED
        BY <4>1 DEF Held
    <3>2. CASE id # id0
      <4>1. n + 1 \notin En(h, id)
        BY <3>2 DEF En
      <4> QED
        BY <2>1, <2>2, <4>1, HeldIdle
    <3> QED
      BY <3>1, <3>2
  <2>4. ASSUME NEW p \in 1..Len(old(id))
        PROVE  old(id)[p] \notin DOMAIN acc2.result
    <3>1. old(id)[p] \in 1..n /\ old(id)[p] \notin DOMAIN acc.result
      BY <1>s DEF StacksOK, Held, St
    <3> QED
      BY <1>0, <1>r, <3>1
  <2> QED
    BY <2>3, <2>4
<1>3. StacksOK(h, acc2, n + 1)
  BY <1>2 DEF StacksOK
<1>4. ASSUME NEW i \in 1..(n + 1), D!isStart(h[i]) PROVE StartDone(h, acc2, n + 1, i)
  <2>1. i \in 1..n /\ i # n + 1
    BY <1>0, <1>1, <1>4
  <2>2. StartDone(h, acc, n, i)
    BY <1>4, <2>1 DEF PassOK
  <2> QED
    BY <1>0, <1>r, <2>1, <2>2 DEF StartDone
<1>5. ASSUME NEW i PROVE ~ Pair(h, id0, i, n + 1)
  <2> SUFFICES ASSUME Pair(h, id0, i, n + 1) PROVE FALSE
    OBVIOUS
  <2>1. i \in St(h, id0) /\ i < n + 1
    BY DEF Pair, Match
  <2>2. i \in 1..n /\ D!isStart(h[i]) /\ h[i].sequenceId = id0
    BY <2>1 DEF St
  <2>3. StartDone(h, acc, n, i)
    BY <2>2 DEF PassOK
  <2>4. Len(D!Stack(acc.open, h[i].sequenceId)) = 0
    BY <2>2
  <2>5. /\ acc.result[i].partnerIndex \in 1..n
        /\ Pair(h, id0, i, acc.result[i].partnerIndex)
    BY <2>2, <2>3, <2>4 DEF StartDone
  <2>6. acc.result[i].partnerIndex = n + 1
    BY <2>5, PlacesApart, OneEnd DEF Pair
  <2> QED
    BY <1>0, <2>5, <2>6
<1>6. ASSUME NEW j \in 1..(n + 1), D!isEnd(h[j]) PROVE EndDone(h, acc2, n + 1, j)
  <2>1. CASE j = n + 1
    BY <1>5, <1>r, <2>1 DEF EndDone
  <2>2. CASE j \in 1..n
    <3>1. EndDone(h, acc, n, j) /\ j # n + 1
      BY <1>0, <1>6, <2>2 DEF PassOK
    <3> QED
      BY <1>0, <1>r, <3>1 DEF EndDone
  <2> QED
    BY <1>0, <2>1, <2>2
<1>7. DOMAIN acc2.result \subseteq {i \in 1..(n + 1) : D!isStart(h[i]) \/ D!isEnd(h[i])}
  BY <1>0, <1>r DEF PassOK
<1> QED
  BY <1>3, <1>4, <1>6, <1>7 DEF PassOK

\* An end with open starts of its id closes the latest, and that is the one it matches.
LEMMA PassClose ==
  ASSUME NEW h, Len(h) \in Nat, NEW acc, NEW n \in Nat, n + 1 <= Len(h), PassOK(h, acc, n),
         D!isEnd(h[n + 1]), NEW id0, id0 = h[n + 1].scheduledId,
         NEW stk, stk = D!Stack(acc.open, id0), stk # <<>>,
         NEW top, top = stk[Len(stk)], NEW rest, rest = SubSeq(stk, 1, Len(stk) - 1),
         NEW start, start.partnerIndex = n + 1, NEW end, end.partnerIndex = top,
         NEW acc2, acc2.open = D!Put(acc.open, id0, rest),
         acc2.result = D!Put(D!Put(acc.result, n + 1, end), top, start)
  PROVE  PassOK(h, acc2, n + 1)
<1> DEFINE old(id) == D!Stack(acc.open, id)
           new(id) == D!Stack(acc2.open, id)
<1>0. /\ \A x \in 1..(n + 1) : x \in 1..n \/ x = n + 1
      /\ \A x \in 1..n : x \in 1..(n + 1) /\ x # n + 1
      /\ n + 1 \in 1..Len(h) /\ n \in 0..Len(h) /\ n + 1 \in 1..(n + 1)
  OBVIOUS
<1>1. ~ D!isStart(h[n + 1])
  BY StartNotEnd
<1>2. \A id : new(id) = IF id = id0 THEN rest ELSE old(id)
  <2>1. \A x : D!Stack(D!Put(acc.open, id0, rest), x) = IF x = id0 THEN rest ELSE D!Stack(acc.open, x)
    BY DEF D!Put, D!Stack
  <2> QED
    BY <2>1
<1>s. StacksOK(h, acc, n)
  BY DEF PassOK
<1>3. \A id : Held(St(h, id), En(h, id), old(id), n)
  BY <1>s DEF StacksOK
<1>4. n + 1 \in En(h, id0) /\ \A id : n + 1 \notin St(h, id) /\ (id # id0 => n + 1 \notin En(h, id))
  BY <1>0, <1>1 DEF St, En
<1>5. /\ Match(St(h, id0), En(h, id0), top, n + 1) /\ top \in 1..n
      /\ Held(St(h, id0), En(h, id0), rest, n + 1)
      /\ \A p \in 1..(Len(stk) - 1) : rest[p] = stk[p] /\ stk[p] # top
      /\ Len(rest) = Len(stk) - 1 /\ Len(stk) \in 1..Len(stk)
  <2>1. Held(St(h, id0), En(h, id0), stk, n)
    BY <1>3
  <2> QED
    BY <1>4, <2>1, HeldPop
<1>n. Len(stk) \in Nat
  BY <1>3 DEF Held
<1>6. \A id : \A p \in 1..Len(old(id)) :
        /\ old(id)[p] \in 1..n /\ h[old(id)[p]].sequenceId = id
        /\ old(id)[p] \notin DOMAIN acc.result
  BY <1>s DEF StacksOK, Held, St
<1>7. top \notin DOMAIN acc.result /\ h[top].sequenceId = id0
  BY <1>5, <1>6
<1>r. /\ DOMAIN acc2.result = DOMAIN acc.result \cup {n + 1, top}
      /\ acc2.result[n + 1] = end /\ acc2.result[top] = start
      /\ \A x \in DOMAIN acc.result : x # n + 1 => acc2.result[x] = acc.result[x]
  <2> DEFINE res == D!Put(D!Put(acc.result, n + 1, end), top, start)
  <2>1. /\ DOMAIN res = DOMAIN acc.result \cup {n + 1, top}
        /\ top # n + 1 => res[n + 1] = end
        /\ res[top] = start
        /\ \A x \in DOMAIN acc.result : x # n + 1 /\ x # top => res[x] = acc.result[x]
    BY DEF D!Put
  <2> HIDE DEF res
  <2>2. top # n + 1
    BY <1>0, <1>5
  <2> QED
    BY <1>7, <2>1, <2>2 DEF res
<1> HIDE DEF new
<1>8. ASSUME NEW id
      PROVE  /\ Held(St(h, id), En(h, id), new(id), n + 1)
             /\ \A p \in 1..Len(new(id)) : new(id)[p] \notin DOMAIN acc2.result
  <2>1. CASE id = id0
    <3>1. ASSUME NEW p \in 1..Len(new(id))
          PROVE  new(id)[p] \notin DOMAIN acc2.result
      <4>1. p \in 1..(Len(stk) - 1) /\ p \in 1..Len(stk)
        BY <1>2, <1>5, <1>n, <2>1
      <4>2. new(id)[p] = stk[p] /\ stk[p] # top
        BY <1>2, <1>5, <2>1, <4>1
      <4>3. stk[p] \in 1..n /\ stk[p] \notin DOMAIN acc.result
        BY <1>6, <4>1
      <4> QED
        BY <1>0, <1>r, <4>2, <4>3
    <3> QED
      BY <1>2, <1>5, <2>1, <3>1
  <2>2. CASE id # id0
    <3>1. new(id) = old(id)
      BY <1>2, <2>2
    <3>2. Held(St(h, id), En(h, id), old(id), n + 1)
      BY <1>3, <1>4, <2>2, HeldIdle
    <3>3. ASSUME NEW p \in 1..Len(old(id))
          PROVE  old(id)[p] \notin DOMAIN acc2.result
      <4>1. /\ old(id)[p] \in 1..n /\ h[old(id)[p]].sequenceId = id
            /\ old(id)[p] \notin DOMAIN acc.result
        BY <1>6
      <4>2. old(id)[p] # top /\ old(id)[p] # n + 1
        BY <1>0, <1>7, <2>2, <4>1
      <4> QED
        BY <1>r, <4>1, <4>2
    <3> QED
      BY <3>1, <3>2, <3>3
  <2> QED
    BY <2>1, <2>2
<1>9. StacksOK(h, acc2, n + 1)
  BY <1>8 DEF StacksOK, new
<1>10. ASSUME NEW i \in 1..(n + 1), D!isStart(h[i]) PROVE StartDone(h, acc2, n + 1, i)
  <2> DEFINE id == h[i].sequenceId
  <2>1. i \in 1..n /\ i # n + 1
    BY <1>0, <1>1, <1>10
  <2>2. StartDone(h, acc, n, i)
    BY <1>10, <2>1 DEF PassOK
  <2>3. ASSUME NEW p \in 1..Len(old(id)), old(id)[p] = i
        PROVE  StartDone(h, acc2, n + 1, i)
    <3>1. CASE id # id0
      <4>1. new(id) = old(id)
        BY <1>2, <3>1
      <4> QED
        BY <2>3, <4>1 DEF StartDone, new
    <3>2. CASE id = id0 /\ p = Len(stk)
      <4>1. i = top
        BY <2>3, <3>2
      <4>2. i \in DOMAIN acc2.result /\ acc2.result[i].partnerIndex = n + 1
        BY <1>r, <4>1
      <4>3. Pair(h, h[i].sequenceId, i, n + 1)
        BY <1>5, <3>2, <4>1 DEF Pair
      <4> QED
        BY <1>0, <4>2, <4>3 DEF StartDone
    <3>3. CASE id = id0 /\ p # Len(stk)
      <4>1. p \in 1..(Len(stk) - 1)
        BY <1>n, <3>3
      <4>2. p \in 1..Len(new(id)) /\ new(id)[p] = i
        BY <1>2, <1>5, <2>3, <3>3, <4>1
      <4> QED
        BY <4>2 DEF StartDone, new
    <3> QED
      BY <3>1, <3>2, <3>3
  <2>4. CASE /\ i \in DOMAIN acc.result /\ acc.result[i].partnerIndex \in 1..n
             /\ Pair(h, id, i, acc.result[i].partnerIndex)
    BY <1>0, <1>r, <2>1, <2>4 DEF StartDone
  <2> QED
    BY <2>2, <2>3, <2>4 DEF StartDone
<1>11. ASSUME NEW j \in 1..(n + 1), D!isEnd(h[j]) PROVE EndDone(h, acc2, n + 1, j)
  <2>1. CASE j = n + 1
    <3>1. j \in DOMAIN acc2.result /\ acc2.result[j].partnerIndex = top
      BY <1>r, <2>1
    <3>2. top \in 1..(n + 1) /\ Pair(h, h[j].scheduledId, top, j)
      BY <1>0, <1>5, <2>1 DEF Pair
    <3> QED
      BY <3>1, <3>2 DEF EndDone
  <2>2. CASE j \in 1..n
    <3>1. EndDone(h, acc, n, j) /\ j # n + 1
      BY <1>0, <1>11, <2>2 DEF PassOK
    <3> QED
      BY <1>0, <1>r, <3>1 DEF EndDone
  <2> QED
    BY <1>0, <2>1, <2>2
<1>12. DOMAIN acc2.result \subseteq {i \in 1..(n + 1) : D!isStart(h[i]) \/ D!isEnd(h[i])}
  <2>1. D!isStart(h[top]) /\ top \in 1..(n + 1)
    BY <1>0, <1>5 DEF Match, St
  <2> QED
    BY <1>0, <1>r, <2>1 DEF PassOK
<1> QED
  BY <1>9, <1>10, <1>11, <1>12 DEF PassOK

\* One event of the pass.
LEMMA PassEvent ==
  ASSUME NEW h, Len(h) \in Nat, NEW acc, NEW n \in Nat, n + 1 <= Len(h), PassOK(h, acc, n)
  PROVE  PassOK(h, D!pairEvent(h, acc, n + 1), n + 1)
<1> DEFINE acc2 == D!pairEvent(h, acc, n + 1)
           id0 == h[n + 1].scheduledId
           stk == D!Stack(acc.open, id0)
<1>1. CASE D!isStart(h[n + 1])
  <2>1. /\ acc2.open = D!pushed(acc.open, h[n + 1].sequenceId, n + 1)
        /\ acc2.result = acc.result
    BY <1>1 DEF D!pairEvent
  <2> HIDE DEF acc2
  <2>2. PassOK(h, acc2, n + 1)
    BY <1>1, <2>1, PassStart
  <2> QED
    BY <2>2 DEF acc2
<1>2. CASE ~ D!isStart(h[n + 1]) /\ ~ D!isEnd(h[n + 1])
  BY <1>2, PassIdle DEF D!pairEvent
<1>3. CASE ~ D!isStart(h[n + 1]) /\ D!isEnd(h[n + 1]) /\ stk = <<>>
  <2> DEFINE info == D!PairInfo(id0, "end", None, None)
  <2>1. acc2.open = acc.open /\ acc2.result = D!Put(acc.result, n + 1, info)
    BY <1>3 DEF D!pairEvent
  <2>2. info.partnerIndex = None
    BY DEF D!PairInfo
  <2> HIDE DEF acc2, info
  <2>3. PassOK(h, acc2, n + 1)
    BY <1>3, <2>1, <2>2, PassOrphan
  <2> QED
    BY <2>3 DEF acc2
<1>4. CASE ~ D!isStart(h[n + 1]) /\ D!isEnd(h[n + 1]) /\ stk # <<>>
  <2> DEFINE top == stk[Len(stk)]
             rest == SubSeq(stk, 1, Len(stk) - 1)
             end == D!PairInfo(id0, "end", top, D!durationMs(h[top], h[n + 1]))
             start == D!PairInfo(id0, "start", n + 1, None)
  <2>1. D!Front(stk) = rest /\ D!Last(stk) = top
    BY DEF D!Front, D!Last
  <2>2. /\ acc2.open = D!Put(acc.open, id0, D!Front(stk))
        /\ acc2.result = D!closed(h, acc.result, id0, D!Last(stk), n + 1)
    BY <1>4 DEF D!pairEvent
  <2>3. D!closed(h, acc.result, id0, top, n + 1) = D!Put(D!Put(acc.result, n + 1, end), top, start)
    BY DEF D!closed
  <2>4. start.partnerIndex = n + 1 /\ end.partnerIndex = top
    BY DEF D!PairInfo
  <2>5. acc2.open = D!Put(acc.open, id0, rest)
    BY <2>1, <2>2
  <2>6. acc2.result = D!Put(D!Put(acc.result, n + 1, end), top, start)
    BY <2>1, <2>2, <2>3
  <2> HIDE DEF acc2, end, start
  <2>7. PassOK(h, acc2, n + 1)
    BY <1>4, <2>4, <2>5, <2>6, PassClose
  <2> QED
    BY <2>7 DEF acc2
<1> QED
  BY <1>1, <1>2, <1>3, <1>4

\* The pass over a whole history.
LEMMA PassHolds ==
  ASSUME NEW h, Len(h) \in Nat
  PROVE  PassOK(h, D!pairPass(h)[Len(h)], Len(h))
<1> DEFINE pass == D!pairPass(h)
           Bad == {n \in 0..Len(h) : ~ PassOK(h, pass[n], n)}
<1>1. /\ pass[0] = [open |-> <<>>, result |-> <<>>]
      /\ \A n \in 1..Len(h) : pass[n] = D!pairEvent(h, pass[n - 1], n)
  BY PassUnfolds
<1> HIDE DEF pass
<1>2. PassOK(h, pass[0], 0)
  <2>1. pass[0].open = <<>> /\ pass[0].result = <<>> /\ DOMAIN (<<>>) = {}
    BY <1>1
  <2>2. \A id : D!Stack(pass[0].open, id) = <<>>
    BY <2>1 DEF D!Stack
  <2>3. <<>> \in Seq(Nat) /\ Len(<<>>) = 0
    OBVIOUS
  <2>4. ASSUME NEW X, NEW Y PROVE Held(X, Y, <<>>, 0)
    BY <2>3 DEF Held
  <2>5. StacksOK(h, pass[0], 0)
    BY <2>2, <2>3, <2>4 DEF StacksOK
  <2> QED
    BY <2>1, <2>5 DEF PassOK
<1>3. Bad = {}
  <2> SUFFICES ASSUME Bad # {} PROVE FALSE
    OBVIOUS
  <2>1. Bad \subseteq Nat /\ Bad \subseteq 0..Len(h)
    OBVIOUS
  <2>2. PICK n \in Bad : \A x \in Bad : n <= x
    BY <2>1, LeastNat
  <2>3. n \in 0..Len(h) /\ n # 0 /\ ~ PassOK(h, pass[n], n)
    BY <1>2, <2>2
  <2>4. n - 1 \in Nat /\ (n - 1) + 1 = n /\ n - 1 \in 0..Len(h) /\ ~(n <= n - 1) /\ n \in 1..Len(h)
    BY <2>3
  <2>5. n - 1 \notin Bad
    BY <2>2, <2>4
  <2>6. PassOK(h, pass[n - 1], n - 1)
    BY <2>4, <2>5
  <2>7. PassOK(h, D!pairEvent(h, pass[n - 1], (n - 1) + 1), (n - 1) + 1)
    <3>1. (n - 1) + 1 <= Len(h)
      BY <2>4
    <3> DEFINE m == n - 1
    <3>2. m \in Nat /\ m + 1 <= Len(h) /\ PassOK(h, pass[m], m)
      BY <2>4, <2>6, <3>1
    <3> HIDE DEF m
    <3>3. PassOK(h, D!pairEvent(h, pass[m], m + 1), m + 1)
      BY <3>2, PassEvent
    <3> QED
      BY <3>3 DEF m
  <2>8. PassOK(h, D!pairEvent(h, pass[n - 1], n), n)
    BY <2>4, <2>7
  <2>9. pass[n] = D!pairEvent(h, pass[n - 1], n)
    BY <1>1, <2>4
  <2> QED
    BY <2>3, <2>8, <2>9
<1>4. Len(h) \in 0..Len(h)
  OBVIOUS
<1> QED
  BY <1>3, <1>4 DEF pass

\* The start and end of one another, told by counting up to each place.
LEMMA PartnersPair ==
  ASSUME NEW h, Len(h) \in Nat, NEW i \in 1..Len(h), NEW j \in 1..Len(h)
  PROVE  D!Partners(h, i, j) <=> Pair(h, h[i].sequenceId, i, j) /\ D!isStart(h[i])
<1> DEFINE id == h[i].sequenceId
           X == St(h, id)
           Y == En(h, id)
<1>1. \A Z : D!Cardinality(Z) = Cardinality(Z)
  BY Zenon DEF D!Cardinality, Cardinality
<1>2. ASSUME NEW n \in Int, n < j
      PROVE  /\ D!Cardinality(D!StartsIn(h, id, i + 1, n)) = Cnt(X, i + 1, n)
             /\ D!Cardinality(D!EndsIn(h, id, i + 1, n)) = Cnt(Y, i + 1, n)
  <2>1. \A x : x \in (i + 1)..n => x \in 1..Len(h)
    BY <1>2
  <2>2. D!StartsIn(h, id, i + 1, n) = X \cap ((i + 1)..n)
    BY <2>1 DEF D!StartsIn, St
  <2>3. D!EndsIn(h, id, i + 1, n) = Y \cap ((i + 1)..n)
    BY <2>1 DEF D!EndsIn, En
  <2> QED
    BY <1>1, <2>2, <2>3 DEF Cnt
<1>3. /\ j - 1 \in Int /\ j - 1 < j /\ \A n \in i..(j - 1) : n \in Int /\ n < j
  OBVIOUS
<1>4. i \in X <=> D!isStart(h[i])
  BY DEF St
<1>5. j \in Y <=> D!isEnd(h[j]) /\ h[j].scheduledId = id
  BY DEF En
<1> HIDE DEF id, X, Y
<1> DEFINE starts(n) == D!Cardinality(D!StartsIn(h, id, i + 1, n))
           ends(n) == D!Cardinality(D!EndsIn(h, id, i + 1, n))
<1>6. D!Partners(h, i, j)
        <=> /\ i < j /\ D!isStart(h[i]) /\ D!isEnd(h[j]) /\ h[j].scheduledId = id
            /\ starts(j - 1) = ends(j - 1)
            /\ \A n \in i..(j - 1) : ends(n) <= starts(n)
  BY DEF D!Partners, id
<1>7. /\ starts(j - 1) = Cnt(X, i + 1, j - 1) /\ ends(j - 1) = Cnt(Y, i + 1, j - 1)
      /\ \A n \in i..(j - 1) : starts(n) = Cnt(X, i + 1, n) /\ ends(n) = Cnt(Y, i + 1, n)
  BY <1>2, <1>3
<1> HIDE DEF starts, ends
<1>8. D!Partners(h, i, j) <=> Match(X, Y, i, j)
  BY <1>4, <1>5, <1>6, <1>7 DEF Match
<1>9. Match(X, Y, i, j) => D!isStart(h[i])
  BY <1>4 DEF Match
<1> QED
  BY <1>8, <1>9 DEF Pair, X, Y, id

\* buildPairIndex joins each start with the end that closes it and nothing else.
LEMMA PairsFound ==
  ASSUME NEW h, Len(h) \in Nat, DOMAIN h = 1..Len(h)
  PROVE  LET pairs == D!buildPairIndex(h) IN
         /\ DOMAIN pairs = {i \in DOMAIN h : D!isStart(h[i]) \/ D!isEnd(h[i])}
         /\ \A i \in DOMAIN pairs :
              LET partners == {j \in DOMAIN h : IF D!isStart(h[i]) THEN D!Partners(h, i, j)
                                                ELSE D!Partners(h, j, i)}
              IN  IF partners = {} THEN pairs[i].partnerIndex = None
                  ELSE partners = {pairs[i].partnerIndex}
<1> DEFINE N == Len(h)
           acc == D!pairPass(h)[N]
           stk(id) == D!Stack(acc.open, id)
           running == UNION {D!Range(acc.open[id]) : id \in DOMAIN acc.open}
           pairs == D!buildPairIndex(h)
           partners(i) == {j \in DOMAIN h : IF D!isStart(h[i]) THEN D!Partners(h, i, j)
                                            ELSE D!Partners(h, j, i)}
<1>1. PassOK(h, acc, N)
  BY PassHolds
<1>2. pairs = [i \in running \cup DOMAIN acc.result |->
                 IF i \in running THEN D!PairInfo(h[i].sequenceId, "start", None, None)
                 ELSE acc.result[i]]
  BY DEF D!buildPairIndex
<1> HIDE DEF acc, pairs
<1>3. \A id : Held(St(h, id), En(h, id), stk(id), N)
  BY <1>1 DEF PassOK, StacksOK
<1>4. \A id : stk(id) \in Seq(Nat)
  BY <1>3 DEF Held
<1>5. \A i : i \in running <=> \E id : \E p \in 1..Len(stk(id)) : stk(id)[p] = i
  <2>1. \A id : id \in DOMAIN acc.open => stk(id) = acc.open[id]
    BY DEF D!Stack
  <2>2. \A id : id \notin DOMAIN acc.open => Len(stk(id)) = 0
    BY DEF D!Stack
  <2>3. \A id : DOMAIN stk(id) = 1..Len(stk(id))
    BY <1>4
  <2>4. \A id \in DOMAIN acc.open : \A i :
          i \in D!Range(acc.open[id]) <=> \E p \in 1..Len(stk(id)) : stk(id)[p] = i
    <3> SUFFICES ASSUME NEW id \in DOMAIN acc.open, NEW i
                 PROVE  i \in D!Range(acc.open[id]) <=> \E p \in 1..Len(stk(id)) : stk(id)[p] = i
      OBVIOUS
    <3>1. acc.open[id] = stk(id) /\ DOMAIN stk(id) = 1..Len(stk(id))
      BY <2>1, <2>3
    <3>2. D!Range(stk(id)) = {stk(id)[p] : p \in DOMAIN stk(id)}
      BY DEF D!Range
    <3> HIDE DEF stk
    <3> QED
      BY <3>1, <3>2
  <2> HIDE DEF stk
  <2>5. ASSUME NEW i, i \in running
        PROVE  \E id : \E p \in 1..Len(stk(id)) : stk(id)[p] = i
    <3>1. PICK id \in DOMAIN acc.open : i \in D!Range(acc.open[id])
      BY <2>5
    <3> QED
      BY <2>4, <3>1
  <2>6. ASSUME NEW i, NEW id, NEW p \in 1..Len(stk(id)), stk(id)[p] = i
        PROVE  i \in running
    <3>1. id \in DOMAIN acc.open
      BY <2>2
    <3>2. i \in D!Range(acc.open[id])
      BY <2>4, <2>6, <3>1
    <3> QED
      BY <3>1, <3>2
  <2> QED
    BY <2>5, <2>6
<1>6. ASSUME NEW i \in running
      PROVE  /\ i \in 1..N /\ D!isStart(h[i]) /\ i \notin DOMAIN acc.result
             /\ \E p \in 1..Len(stk(h[i].sequenceId)) : stk(h[i].sequenceId)[p] = i
  <2>1. PICK id : \E p \in 1..Len(stk(id)) : stk(id)[p] = i
    BY <1>5
  <2>2. PICK p \in 1..Len(stk(id)) : stk(id)[p] = i
    BY <2>1
  <2>3. StacksOK(h, acc, N) /\ N \in 0..Len(h)
    BY <1>1 DEF PassOK
  <2>4. i \in 1..N /\ D!isStart(h[i]) /\ h[i].sequenceId = id /\ i \notin DOMAIN acc.result
    BY <2>2, <2>3 DEF StacksOK, Held, St
  <2> QED
    BY <2>2, <2>4
<1>7. ASSUME NEW i \in 1..N, D!isStart(h[i]), i \notin running
      PROVE  /\ i \in DOMAIN acc.result /\ acc.result[i].partnerIndex \in 1..N
             /\ Pair(h, h[i].sequenceId, i, acc.result[i].partnerIndex)
  <2>1. StartDone(h, acc, N, i)
    BY <1>1, <1>7 DEF PassOK
  <2> QED
    BY <1>5, <1>7, <2>1 DEF StartDone
<1>8. ASSUME NEW i \in 1..N, D!isEnd(h[i])
      PROVE  EndDone(h, acc, N, i) /\ i \in DOMAIN acc.result
  <2>1. EndDone(h, acc, N, i)
    BY <1>1, <1>8 DEF PassOK
  <2> QED
    BY <2>1 DEF EndDone
<1> HIDE DEF running, stk
<1>9. DOMAIN pairs = {i \in DOMAIN h : D!isStart(h[i]) \/ D!isEnd(h[i])}
  <2>1. DOMAIN pairs = running \cup DOMAIN acc.result
    BY <1>2
  <2>2. DOMAIN acc.result \subseteq {i \in 1..N : D!isStart(h[i]) \/ D!isEnd(h[i])}
    BY <1>1 DEF PassOK
  <2>3. \A i \in 1..N : D!isStart(h[i]) \/ D!isEnd(h[i]) => i \in running \cup DOMAIN acc.result
    BY <1>7, <1>8
  <2> QED
    BY <1>6, <2>1, <2>2, <2>3
<1>10. ASSUME NEW i \in DOMAIN pairs
       PROVE  IF partners(i) = {} THEN pairs[i].partnerIndex = None
              ELSE partners(i) = {pairs[i].partnerIndex}
  <2>0. i \in 1..N /\ (D!isStart(h[i]) \/ D!isEnd(h[i]))
    BY <1>9
  <2>p. \A id : Apart(St(h, id), En(h, id))
    BY PlacesApart
  <2>1. CASE i \in running
    <3>1. D!isStart(h[i])
      BY <1>6, <2>1
    <3>2. PICK p \in 1..Len(stk(h[i].sequenceId)) : stk(h[i].sequenceId)[p] = i
      BY <1>6, <2>1
    <3>3. ASSUME NEW j \in 1..N PROVE ~ D!Partners(h, i, j)
      <4>1. ~ Match(St(h, h[i].sequenceId), En(h, h[i].sequenceId), i, j)
        BY <1>3, <2>p, <3>2, HeldOpen
      <4> QED
        BY <2>0, <4>1, PartnersPair DEF Pair
    <3>4. partners(i) = {}
      BY <3>1, <3>3
    <3>5. pairs[i].partnerIndex = None
      BY <1>2, <2>1 DEF D!PairInfo
    <3> QED
      BY <3>4, <3>5
  <2>2. CASE i \notin running /\ D!isStart(h[i])
    <3> DEFINE q == acc.result[i].partnerIndex
    <3>1. q \in 1..N /\ Pair(h, h[i].sequenceId, i, q) /\ pairs[i].partnerIndex = q
      BY <1>2, <1>7, <2>0, <2>2
    <3> HIDE DEF q
    <3>2. ASSUME NEW j \in 1..N PROVE D!Partners(h, i, j) <=> j = q
      <4>1. D!Partners(h, i, j) <=> Pair(h, h[i].sequenceId, i, j)
        BY <2>0, <2>2, PartnersPair
      <4>2. Pair(h, h[i].sequenceId, i, j) => j = q
        BY <2>p, <3>1, OneEnd DEF Pair
      <4> QED
        BY <3>1, <4>1, <4>2
    <3>3. partners(i) = {q}
      BY <2>2, <3>1, <3>2
    <3> QED
      BY <3>1, <3>3
  <2>3. CASE i \notin running /\ ~ D!isStart(h[i])
    <3> DEFINE id == h[i].scheduledId
               q == acc.result[i].partnerIndex
    <3>1. EndDone(h, acc, N, i) /\ pairs[i].partnerIndex = q
      BY <1>2, <1>8, <2>0, <2>3
    <3>2. ASSUME NEW j \in 1..N PROVE D!Partners(h, j, i) <=> Pair(h, id, j, i)
      <4>1. D!Partners(h, j, i) <=> Pair(h, h[j].sequenceId, j, i) /\ D!isStart(h[j])
        BY <2>0, PartnersPair
      <4>2. Pair(h, h[j].sequenceId, j, i) => h[j].sequenceId = id
        BY DEF Pair, Match, En
      <4>3. Pair(h, id, j, i) => h[j].sequenceId = id /\ D!isStart(h[j])
        BY DEF Pair, Match, St
      <4> QED
        BY <4>1, <4>2, <4>3
    <3>3. CASE q = None /\ \A x : ~ Pair(h, id, x, i)
      <4>1. partners(i) = {}
        BY <2>3, <3>2, <3>3
      <4> QED
        BY <3>1, <3>3, <4>1
    <3>4. CASE q \in 1..N /\ Pair(h, id, q, i)
      <4>1. ASSUME NEW j \in 1..N PROVE D!Partners(h, j, i) <=> j = q
        <5>1. Pair(h, id, j, i) => j = q
          BY <2>p, <3>4, OneStart DEF Pair
        <5> QED
          BY <3>2, <3>4, <5>1
      <4>2. partners(i) = {q}
        <5> HIDE DEF q
        <5> QED
          BY <2>3, <3>4, <4>1
      <4> QED
        BY <3>1, <4>2
    <3> QED
      BY <3>1, <3>3, <3>4 DEF EndDone
  <2> QED
    BY <2>1, <2>2, <2>3
<1> QED
  BY <1>9, <1>10 DEF pairs

\* Each row of the timeline carries the place of its own event.
LEMMA RowsAnchored ==
  ASSUME NEW hist, hist \in Histories, hist # None
  PROVE  LET h == D!sortHistoryForDisplay(hist) IN
         /\ Len(h) \in Nat /\ DOMAIN h = 1..Len(h)
         /\ \A x \in 1..Len(h) : D!Reverse(h)[x] = h[Len(h) + 1 - x]
<1> DEFINE h == D!sortHistoryForDisplay(hist)
           N == Len(hist)
           V == {h[x] : x \in 1..N}
<1>1. N \in Nat /\ DOMAIN hist = 1..N
  BY DEF Histories
<1>2. h = [x \in 1..N |-> hist[D!displayOrder(hist)[x]]]
  BY <1>1 DEF D!sortHistoryForDisplay
<1> HIDE DEF h, N
<1>3. h \in [1..N -> V]
  BY <1>2
<1>4. h \in Seq(V) /\ Len(h) = N /\ DOMAIN h = 1..N
  <2> HIDE DEF V
  <2> QED
    BY <1>1, <1>3
<1>5. D!Reverse(h) = [x \in 1..Len(h) |-> h[(Len(h) - x) + 1]]
  BY DEF D!Reverse
<1>6. \A x \in 1..Len(h) : (Len(h) - x) + 1 = Len(h) + 1 - x
  BY <1>1, <1>4
<1>7. \A x \in 1..Len(h) : D!Reverse(h)[x] = h[Len(h) + 1 - x]
  BY <1>5, <1>6
<1> QED
  BY <1>1, <1>4, <1>7 DEF h

\* The loaded page's pairs and rows.
LEMMA PagePairs ==
  ASSUME DetailShape
  PROVE  D!PairsMatch
<1> SUFFICES ASSUME D!Loaded PROVE
      LET h == D!history
          pairs == D!buildPairIndex(h)
      IN  /\ DOMAIN pairs = {i \in DOMAIN h : D!isStart(h[i]) \/ D!isEnd(h[i])}
          /\ \A i \in DOMAIN pairs :
               LET partners == {j \in DOMAIN h : IF D!isStart(h[i]) THEN D!Partners(h, i, j)
                                                 ELSE D!Partners(h, j, i)}
               IN  IF partners = {} THEN pairs[i].partnerIndex = None
                   ELSE partners = {pairs[i].partnerIndex}
          /\ \A x \in DOMAIN D!timeline : D!timeline[x].event = h[D!timeline[x].anchor]
  BY DEF D!PairsMatch
<1> DEFINE h == D!history
           hist == dcache[d.inst]
           N == Len(h)
<1>1. hist \in Histories /\ hist # None
  BY DEF DetailShape, D!Loaded
<1>2. h = D!sortHistoryForDisplay(hist)
  BY DEF D!history
<1> HIDE DEF h, hist
<1>3. /\ N \in Nat /\ DOMAIN h = 1..N
      /\ \A x \in 1..N : D!Reverse(h)[x] = h[N + 1 - x]
  BY <1>1, <1>2, RowsAnchored
<1>4. ASSUME NEW x \in DOMAIN D!timeline
      PROVE  D!timeline[x].event = h[D!timeline[x].anchor]
  <2> DEFINE place == IF d.order = "desc" THEN N + 1 - x ELSE x
             shown == D!orderHistoryForDisplay(hist, d.order)
  <2>1. x \in 1..N /\ D!timeline[x].event = shown[x] /\ D!timeline[x].anchor = place
    BY DEF D!timeline, h, hist
  <2>2. shown = IF d.order = "desc" THEN D!Reverse(h) ELSE h
    BY <1>2 DEF D!orderHistoryForDisplay
  <2> HIDE DEF shown
  <2> QED
    BY <1>3, <2>1, <2>2
<1>5. LET pairs == D!buildPairIndex(h) IN
      /\ DOMAIN pairs = {i \in DOMAIN h : D!isStart(h[i]) \/ D!isEnd(h[i])}
      /\ \A i \in DOMAIN pairs :
           LET partners == {j \in DOMAIN h : IF D!isStart(h[i]) THEN D!Partners(h, i, j)
                                             ELSE D!Partners(h, j, i)}
           IN  IF partners = {} THEN pairs[i].partnerIndex = None
               ELSE partners = {pairs[i].partnerIndex}
  BY <1>3, PairsFound
<1> QED
  BY <1>4, <1>5 DEF h

-----------------------------------------------------------------------------
(* The pages under the router. *)

PageInv == DetailInv /\ LogsInv /\ ReadInv

\* A step of the application is a step of one page.
LEMMA PageStep == PageInv /\ [Next]_vars => PageInv'
<1> SUFFICES ASSUME PageInv, [Next]_vars PROVE PageInv'
  OBVIOUS
<1>1. UNCHANGED dvars => DetailInv'
  BY DEF PageInv, dvars, DetailInv, DetailShape, Settled
<1>2. UNCHANGED lvars => LogsInv' /\ ReadInv'
  BY DEF PageInv, lvars, LogsInv, LogsShape, L!FollowPinned, ReadInv, WrittenOK
<1>3. /\ D!DNext \/ UNCHANGED dvars
      /\ L!LNext \/ UNCHANGED lvars
  BY DEF Next, Workflows, State, WorkflowDetail, Logs, BuildComponent, BuildResiliency,
     Applications, StoreConnections, vars
<1> QED
  BY <1>1, <1>2, <1>3, DetailStep, LogsStep, ReadStep DEF PageInv

\* The pages' invariants hold at first.
LEMMA PageInit == Init => PageInv
  BY DetailInit, LogsInit, ReadInit DEF Init, PageInv

\* A selection the user dismissed on the workflow page stays dismissed while the
\* history is polled: an answer never selects again what the address names and was
\* already taken up (WorkflowDetail.tsx jumpToHash).
THEOREM DismissalsLast == Spec => []DismissedStaysDismissed
<1>1. PageInv => DismissedStaysDismissed
  BY DEF PageInv, DetailInv, Settled, DismissedStaysDismissed, D!DismissedStaysDismissed
<1> QED
  BY <1>1, PageInit, PageStep, PTL DEF Spec

\* A log view that follows is at the bottom, at the line cap too, unless a filter or
\* another source let rows back in and no line has come since (useFollowScroll.ts).
THEOREM FollowingIsPinned == Spec => []FollowPinned
<1>1. PageInv => FollowPinned
  BY DEF PageInv, LogsInv, FollowPinned
<1> QED
  BY <1>1, PageInit, PageStep, PTL DEF Spec

\* The log viewer shows lines of the chosen target and sources only; until a connection
\* breaks it shows each stream's lines in the order they came, and of a stream's lines
\* after one it shows none is missing: the merge by time and the cap cut only the oldest
\* (Logs.tsx tagStream, mergeStreams).
THEOREM StreamsStayInOrder == Spec => []StreamOrderKept
<1>1. PageInv => StreamOrderKept
  BY ReadsInOrder DEF PageInv, StreamOrderKept
<1> QED
  BY <1>1, PageInit, PageStep, PTL DEF Spec

\* The history's starts and ends are paired as brackets are, whatever order they were
\* recorded in and however often an id comes back, and every row of the timeline carries
\* the anchor of its own event in either order (pairing.ts buildPairIndex, eventOrder.ts).
THEOREM PairsAlwaysMatch == Spec => []PairsMatch
<1>1. PageInv => PairsMatch
  BY PagePairs DEF PageInv, DetailInv, PairsMatch
<1> QED
  BY <1>1, PageInit, PageStep, PTL DEF Spec
=============================================================================
