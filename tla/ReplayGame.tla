---------------------------- MODULE ReplayGame ----------------------------
(***************************************************************************)
(* The REPLAY game (web/src/pages/replay/runtime): live play, crashes and  *)
(* their replay from history, the retry rewind, continue-as-new, saving to *)
(* localStorage and resuming, and playback of a run's tape.                *)
(*                                                                         *)
(* The Game object is one record; each method is an operator from a game   *)
(* to a game.  A call that reads the outside world takes the value it gets *)
(* as a parameter: v for Math.random() in the workflow, c for the chaos    *)
(* scheduler.  Screen-only state (notice, flash, trail, listeners, speed)  *)
(* is left out.                                                            *)
(***************************************************************************)
EXTENDS ReplayEngine

CONSTANTS
    ImpureValues, ChaosValues,  \* what the outside world may return
    RewindTicks,                \* REWIND_BUFFER_TICKS
    RewindBack,                 \* ticks a retry goes back at least
    SafeBehind, SafeAhead,      \* the clear cells a safe state has
    CrashAfterPickup,           \* <<lo, hi>>
    Seeds,                      \* day -> seedForDate
    MaxDay, MaxRuns, MaxWatches,\* bounds of an instance
    MaxTicks,                   \* bound: run number -> its live ticks
    MaxEvents                   \* bound: keys, pauses, saves and page loads together

ASSUME RewindAssumption == RewindTicks \in Nat \ {0}

VARIABLES
    game,    \* the Game object, with the browser storage it uses
    today,   \* the UTC date
    decoding,\* the run code being decoded for playback (a promise), or None
    ended,   \* history: how the last live run ended
    used     \* how much of each bound is spent

vars == <<game, today, decoding, ended, used>>

None == [none |-> TRUE]
PlayerInputs == {"jump", "jumpEnd", "slideStart", "slideEnd"}
emptyStats == [replays |-> 0, fromHistory |-> 0, executed |-> 0, incidents |-> 0,
               retriesUsed |-> 0, circuitTrips |-> 0, boostsLost |-> 0]
emptyTape(date) == [date |-> date, inputs |-> <<>>, impure |-> <<>>, chaos |-> <<>>,
                    restarts |-> <<>>, liveTick |-> 0]
nextLevel(l) == IF l >= TopLevel THEN TopLevel ELSE l + 1
Cfg(g) == Levels[g.start.level]

-----------------------------------------------------------------------------
(* validate.ts, tape.ts: what a stored save must satisfy to be loaded. *)

Ordered(ticks) == \A k \in 1..(Len(ticks) - 1) : ticks[k] <= ticks[k + 1]

isSaveBody(b) ==
    /\ b.tick >= 0 /\ b.start.retries >= 0 /\ b.start.shield >= 0
    /\ Ordered([k \in DOMAIN b.history |-> b.history[k].tick])
    /\ \A k \in DOMAIN b.history :
          IF isInputEvent(b.history[k]) THEN b.history[k].tick <= b.tick ELSE b.history[k].tick < b.tick

isTape(t) ==
    /\ Ordered([k \in DOMAIN t.inputs |-> t.inputs[k][1]])
    /\ \A k \in DOMAIN t.restarts : isSaveBody(t.restarts[k].save)

parseSave(s) == IF s # None /\ isSaveBody(s.body) /\ isTape(s.tape) THEN s ELSE None

-----------------------------------------------------------------------------
(* Sources: a recorder writes what the world returned, a player reads it. *)

ImpureOf(g, v) == IF ~g.playback THEN v
                  ELSE IF g.impureAt < Len(g.tape.impure) THEN g.tape.impure[g.impureAt + 1] ELSE 0
DrawImpure(g, v) ==
    IF ~g.playback THEN [g EXCEPT !.tape.impure = Append(@, v)]
    ELSE IF g.impureAt < Len(g.tape.impure) THEN [g EXCEPT !.impureAt = @ + 1]
    ELSE [g EXCEPT !.exhausted = TRUE]

ChaosOf(g, c) == IF ~g.playback THEN c
                 ELSE IF g.chaosAt < Len(g.tape.chaos) THEN g.tape.chaos[g.chaosAt + 1] ELSE 0
DrawChaos(g, c) ==
    IF ~g.playback THEN [g EXCEPT !.tape.chaos = Append(@, c)]
    ELSE IF g.chaosAt < Len(g.tape.chaos) THEN [g EXCEPT !.chaosAt = @ + 1]
    ELSE [g EXCEPT !.exhausted = TRUE]

-----------------------------------------------------------------------------
(* chaos.ts.  dueAt is 0 when no crash is scheduled. *)

scheduleNext(g, level, tick, c) ==
    IF Levels[level].chaosMean = 0 THEN [g EXCEPT !.dueAt = 0]
    ELSE [DrawChaos(g, c) EXCEPT !.dueAt = tick + (Levels[level].chaosMean * (1 + 2 * ChaosOf(g, c))) \div 2]

Between(w, r) == w[1] + r * (w[2] - w[1])

chaosStart(g, level, firstOfLevel, c) ==
    IF Levels[level].scriptedCrashAt # 0 THEN [g EXCEPT !.dueAt = Levels[level].scriptedCrashAt]
    ELSE IF firstOfLevel /\ Levels[level].firstCrash # <<>>
    THEN [DrawChaos(g, c) EXCEPT !.dueAt = Between(Levels[level].firstCrash, ChaosOf(g, c))]
    ELSE scheduleNext(g, level, 0, c)

onPickup(g, level, kind, tick, c) ==
    IF kind \notin Levels[level].crashAfterPickup THEN g
    ELSE LET at == tick + Between(CrashAfterPickup, ChaosOf(g, c))
         IN [DrawChaos(g, c) EXCEPT !.dueAt = IF @ = 0 \/ at < @ THEN at ELSE @]

isDue(g, tick) == g.dueAt # 0 /\ tick >= g.dueAt

-----------------------------------------------------------------------------
(* rewind.ts *)

hatSafe(p, es) ==
    /\ p.y = 0
    /\ \A k \in DOMAIN es : ~(/\ es[k].kind \in HAZARDS /\ ~es[k].taken
                              /\ es[k].x < SafeAhead /\ es[k].x + Width(es[k]) > -SafeBehind)
isSafe(s) == \A t \in DOMAIN tracks(s) : hatSafe(tracks(s)[t].player, tracks(s)[t].entities)

rewindReset(anchor) == [anchor |-> anchor, ring |-> <<>>, wrapped |-> FALSE]

rewindPush(b, s) ==
    IF Len(b.ring) < RewindTicks THEN [b EXCEPT !.ring = Append(@, s)]
    ELSE [b EXCEPT !.ring = Append(Tail(@), s), !.wrapped = TRUE]

rewindAll(b) == IF b.wrapped THEN b.ring ELSE <<b.anchor>> \o b.ring

pick(b, failedAt, minBack, floor) ==
    LET all == rewindAll(b)
        candidates == {k \in DOMAIN all : all[k].tick >= floor}
        safe == {k \in candidates : all[k].tick <= failedAt - minBack /\ isSafe(all[k])}
    IN IF safe # {} THEN all[Max(safe)]
       ELSE IF candidates # {} THEN all[Min(candidates)]
       ELSE all[Len(all)]

-----------------------------------------------------------------------------
(* game.ts: the small methods. *)

\* On entering play, queue the slide input that matches the key as it is now.
syncSlide(g) ==
    LET sliding == livePlayer(g.state).sliding
        jumps == AtPlaces(g.pending, {k \in DOMAIN g.pending : g.pending[k] = "jump"})
    IN [g EXCEPT !.pending = IF sliding /\ ~g.slideHeld THEN Append(jumps, "slideEnd")
                             ELSE IF ~sliding /\ g.slideHeld THEN Append(jumps, "slideStart")
                             ELSE jumps]

\* Mutant of setPhase: keys ignored during another phase are forgotten.
setPhaseOnly(g, phase) == [g EXCEPT !.phase = phase]

setPhase(g, phase) ==
    LET h == [g EXCEPT !.phase = phase] IN IF phase = "playing" THEN syncSlide(h) ELSE h

\* want is a history field: the state a replay of this save has to rebuild.
SaveBody(g) ==
    [date |-> g.runDate, start |-> g.start, history |-> g.history,
     tick |-> IF g.phase \in {"crashing", "replaying"} THEN g.crashTick ELSE g.state.tick,
     want |-> IF g.phase \in {"crashing", "replaying"} THEN g.want ELSE g.state,
     stats |-> g.stats, divergedAt |-> g.divergedAt, segments |-> g.segments, orbValues |-> g.orbValues]

save(g) ==
    IF g.playback \/ g.phase \in {"title", "resume", "over", "lost"} \/ ~Cfg(g).durable THEN g
    ELSE [g EXCEPT !.store.save = [body |-> SaveBody(g), tape |-> g.tape]]

suspend(g) == save(IF g.phase = "playing" THEN setPhase(g, "paused") ELSE g)

recordInput(g, e) == [g EXCEPT !.history = Append(@, e), !.queued = Append(@, e)]

loadDailyBest(g, date) == IF g.store.daily.date = date THEN g.store.daily.best ELSE 0

beginSegment(g, start, showTip, c) ==
    LET s == initialState(start)
        h == [g EXCEPT !.start = start, !.history = <<>>, !.orbValues = <<>>, !.state = s,
                       !.rewind = rewindReset(s), !.pending = <<>>, !.queued = <<>>]
    IN save(setPhase(chaosStart(h, start.level, showTip, c), IF showTip THEN "tip" ELSE "playing"))

closeSegment(g, endTick) ==
    IF ~Cfg(g).durable \/ Cfg(g).length >= Infinity THEN g
    ELSE [g EXCEPT !.segments = Append(@, [start |-> g.start, history |-> g.history,
                                           endTick |-> endTick, orbValues |-> g.orbValues])]

LevelStart(level, seed) ==
    [level |-> level, seed |-> seed, score |-> 0, elapsed |-> 0, distance |-> 0,
     boss |-> FALSE, retries |-> Levels[level].retries, shield |-> 0]

startRun(g, c) ==
    beginSegment([g EXCEPT !.stats = emptyStats, !.divergedAt = -1, !.segments = <<>>, !.liveTick = 0,
                           !.inputCursor = 1, !.restartCursor = 1],
                 LevelStart(0, Seeds[g.runDate]), TRUE, c)

leavePlayback(g) ==
    [g EXCEPT !.playback = FALSE, !.runDate = today, !.dailyBest = loadDailyBest(g, today)]

newRun(g, c) ==
    LET h == leavePlayback(g)
    IN startRun([h EXCEPT !.tape = emptyTape(h.runDate), !.exhausted = FALSE, !.store.save = None], c)

watch(g, tape, c) ==
    IF ~isTape(tape) THEN g
    ELSE startRun([g EXCEPT !.playback = TRUE, !.runDate = tape.date, !.tape = tape,
                            !.impureAt = 0, !.chaosAt = 0, !.exhausted = FALSE], c)

gameOver(g, reason) ==
    LET score == g.state.score
        b == IF score > g.best THEN [g EXCEPT !.best = score, !.store.best = score] ELSE g
        d == IF g.runDate = today /\ score > g.dailyBest
             THEN [b EXCEPT !.dailyBest = score, !.store.daily = [date |-> g.runDate, best |-> score]] ELSE b
    IN setPhase([(IF g.playback THEN g ELSE [d EXCEPT !.store.save = None]) EXCEPT !.reason = reason], "over")

\* Dismisses a tip or "Progress lost" card.
confirm(g, c) ==
    IF g.phase = "tip" THEN setPhase(g, "playing")
    ELSE beginSegment([g EXCEPT !.stats = emptyStats], LevelStart(1, seedFrom(Seeds[g.runDate])), TRUE, c)

\* Mutant of crash: nothing is saved before the replay.
crashUnsaved(g) == setPhase([g EXCEPT !.crashTick = g.state.tick, !.want = g.state], "crashing")

crash(g) == save(setPhase([g EXCEPT !.crashTick = g.state.tick, !.want = g.state], "crashing"))

startReplay(g) ==
    IF ~Cfg(g).durable
    THEN setPhase(IF g.playback THEN g ELSE [g EXCEPT !.store.save = None], "lost")
    ELSE LET r == createReplayer(g.start, g.history, g.crashTick)
         IN setPhase([g EXCEPT !.stats.replays = @ + 1, !.replayer = r, !.state = r.state,
                               !.rewind = rewindReset(r.state)], "replaying")

restoreSave(g, b, c) ==
    LET h == [g EXCEPT !.start = b.start, !.history = b.history, !.stats = b.stats, !.divergedAt = b.divergedAt,
                       !.segments = b.segments, !.orbValues = b.orbValues, !.runDate = b.date, !.want = b.want,
                       !.dailyBest = IF g.playback THEN @ ELSE loadDailyBest(g, b.date),
                       !.montage = <<>>, !.crashTick = b.tick, !.pending = <<>>, !.queued = <<>>]
    IN startReplay(chaosStart(h, b.start.level, FALSE, c))

\* Mutant of resumeSaved: the resume is not recorded on the tape.
resumeUnrecorded(g, c) ==
    restoreSave([g EXCEPT !.savedRun = None, !.tape = g.savedRun.tape, !.liveTick = g.savedRun.tape.liveTick],
                g.savedRun.body, c)

resumeSaved(g, c) ==
    LET s == g.savedRun
        entry == [liveTick |-> s.tape.liveTick, impureAt |-> Len(s.tape.impure),
                  chaosAt |-> Len(s.tape.chaos), save |-> s.body]
    IN restoreSave([g EXCEPT !.savedRun = None, !.tape = [s.tape EXCEPT !.restarts = Append(@, entry)],
                             !.liveTick = s.tape.liveTick], s.body, c)

-----------------------------------------------------------------------------
(* game.ts: a live tick, the retry rewind, the end of a replay. *)

\* The states of a rewind buffer up to a tick.
ringTo(ring, tick) == AtPlaces(ring, {k \in DOMAIN ring : ring[k].tick <= tick})

\* Mutant of rewindTo: the history keeps what the rewind undoes.
rewindStateOnly(g, hit, target, c) ==
    LET h == [g EXCEPT !.rewind.ring = ringTo(@, target.tick),
                       !.state = target, !.pending = <<>>, !.queued = <<>>, !.stats.retriesUsed = @ + 1]
    IN save(setPhase(recordInput(h,
           [type |-> "RetryAttempt", tick |-> target.tick,
            attempt |-> Levels[hit.level].retries - target.retries + 1, failedAt |-> hit.failedAt]), "rewinding"))

rewindTo(g, hit, target, c) ==
    LET h == [g EXCEPT !.history = AtPlaces(@, {k \in DOMAIN @ : @[k].tick < target.tick}),
                       !.rewind.ring = ringTo(@, target.tick),
                       !.state = target, !.pending = <<>>, !.queued = <<>>, !.stats.retriesUsed = @ + 1]
        scheduled(r) == IF r.dueAt = 0 THEN scheduleNext(r, target.level, target.tick, c) ELSE r
    IN save(setPhase(scheduled(recordInput(h,
           [type |-> "RetryAttempt", tick |-> target.tick,
            attempt |-> Levels[hit.level].retries - target.retries + 1, failedAt |-> hit.failedAt])), "rewinding"))

retry(g, hit, c) ==
    LET retried == {k \in DOMAIN g.history : g.history[k].type = "RetryAttempt"}
        floor == IF retried = {} THEN 0 ELSE g.history[Max(retried)].tick + 1
    IN rewindTo(g, hit, pick(g.rewind, hit.failedAt, RewindBack, floor), c)

\* The inputs this tick applies: the keys pressed since the last one, or the tape's.
TickInputs(g) ==
    IF ~g.playback THEN g.pending
    ELSE LET at == {k \in g.inputCursor..Len(g.tape.inputs) : g.tape.inputs[k][1] = g.liveTick}
         IN [k \in 1..Cardinality(at) |-> g.tape.inputs[g.inputCursor + k - 1][2]]

takeInputs(g) ==
    LET ins == TickInputs(g)
        events == [k \in DOMAIN ins |-> [type |-> "Input", tick |-> g.state.tick, kind |-> ins[k]]]
        h == [g EXCEPT !.queued = <<>>, !.pending = <<>>, !.liveTick = @ + 1, !.history = @ \o events]
    IN IF g.playback THEN [h EXCEPT !.inputCursor = @ + Len(ins)]
       ELSE [h EXCEPT !.tape.inputs = @ \o [k \in DOMAIN ins |-> <<g.liveTick, ins[k]>>],
                      !.tape.liveTick = g.liveTick + 1]

CountOf(events, types) == Cardinality({k \in DOMAIN events : events[k].type \in types})
Activities == {"ActivityCoinCollected", "ActivityCrateCollected"}

recordEvents(g, state, events, v, c) ==
    LET orbs == {k \in DOMAIN events : events[k].type = "OrbTaken"}
        h == [g EXCEPT !.state = state, !.history = @ \o events,
                       !.orbValues = [id \in DOMAIN @ \cup {events[k].id : k \in orbs} |->
                                        IF \E k \in orbs : events[k].id = id THEN v ELSE @[id]],
                       !.stats.executed = @ + CountOf(events, Activities),
                       !.stats.circuitTrips = @ + CountOf(events, {"CircuitBreakerTripped"}),
                       !.stats.boostsLost = @ + CountOf(events, {"BoostLost"})]
        orbed == IF orbs # {} THEN onPickup(h, state.level, "orb", state.tick, c) ELSE h
    IN IF CountOf(events, {"ActivityCrateCollected"}) > 0
       THEN onPickup(orbed, state.level, "crate", state.tick, c) ELSE orbed

\* The next level begins, and is saved, before the montage of this one plays.
levelDone(g, c) ==
    LET closed == closeSegment([g EXCEPT !.divergedAt = -1], g.state.tick)
        next == nextLevel(g.state.level)
        start == [continueAsNew(g.state) EXCEPT !.level = next, !.elapsed = 0, !.distance = 0,
                                                !.retries = Levels[next].retries]
        h == beginSegment([closed EXCEPT !.segments = <<>>], start, TRUE, c)
    IN IF Levels[g.state.level].durable /\ closed.segments # <<>>
       THEN setPhase([h EXCEPT !.montage = closed.segments], "montage") ELSE h

hotfix(g, c) ==
    beginSegment(closeSegment([g EXCEPT !.divergedAt = -1], g.state.tick), continueAsNew(g.state), FALSE, c)

afterTick(g, events, c) ==
    LET s == g.state
        pushed == [g EXCEPT !.rewind = rewindPush(@, s)]
    IN IF s.status = "failed"
       THEN gameOver(g, IF s.bossUntil > 0 /\ g.divergedAt # -1 THEN "non-determinism" ELSE "obstacle")
       ELSE IF s.status = "levelDone" THEN levelDone(g, c)
       ELSE IF s.bossUntil > 0 THEN (IF s.tick >= s.bossUntil THEN hotfix(pushed, c) ELSE pushed)
       ELSE IF isDue(g, s.tick) THEN crash(pushed)
       ELSE IF events # <<>> THEN save(pushed)
       ELSE pushed

\* g has taken its inputs; r is what the engine's step returned.
applyStep(g, r, v, c) ==
    IF r.state.status = "retry" THEN retry(g, r.state, c)
    ELSE afterTick(recordEvents(g, r.state, r.events, v, c), r.events, c)

tick(g, v, c) ==
    LET inputs == [k \in DOMAIN g.queued |-> inputOf(g.queued[k])] \o TickInputs(g)
        stepped(r) == applyStep(IF r.calls > 0 THEN DrawImpure(takeInputs(g), v) ELSE takeInputs(g), r, ImpureOf(g, v), c)
    IN stepped(step(g.state, inputs, [impure |-> ImpureOf(g, v), crates |-> <<>>]))

\* The replay reached the interruption: live play resumes where it was.
replayDone(g, r, c) ==
    LET at == r.state.tick
        h == [g EXCEPT !.queued = AtPlaces(g.history, {k \in DOMAIN g.history : isInputEvent(g.history[k]) /\ g.history[k].tick = at})]
    IN setPhase(recordInput(scheduleNext(h, r.state.level, at, c), [type |-> "OrchestratorStarted", tick |-> at]), "playing")

\* The replay diverged: the rest of the history is void, a boss phase begins.
replayDiverged(g, r, c) ==
    LET failed == closeSegment([g EXCEPT !.stats.incidents = @ + 1, !.divergedAt = r.divergedAt], g.crashTick)
    IN recordInput(beginSegment(failed, [continueAsNew(r.state) EXCEPT !.boss = TRUE], FALSE, c),
                   [type |-> "OrchestratorStarted", tick |-> 0])

finishReplay(g, r, c) ==
    LET served == IF r.divergedAt = -1 THEN g.history ELSE SubSeq(g.history, 1, r.divergedAt)
        h == [g EXCEPT !.replayer = None, !.stats.fromHistory = @ + CountOf(served, Activities)]
    IN IF r.divergedAt = -1 THEN replayDone(h, r, c) ELSE replayDiverged(h, r, c)

\* One replayed tick a frame; the code runs several, which nothing else can see.
advanceReplay(g, v, c) ==
    LET shown(h, r) == [h EXCEPT !.replayer = r, !.state = r.state,
                                 !.rewind = IF r.state.status = "running" THEN rewindPush(@, r.state) ELSE @]
        drawn(a) == shown(IF a.calls > 0 THEN DrawImpure(g, v) ELSE g, a.r)
        settled(h) == IF h.replayer.done THEN finishReplay(h, h.replayer, c) ELSE h
    IN settled(IF g.replayer.done THEN g ELSE drawn(advance(g.replayer, ImpureOf(g, v))))

-----------------------------------------------------------------------------
(* Frames. *)

restartDue(g) ==
    /\ g.playback /\ g.restartCursor <= Len(g.tape.restarts)
    /\ g.tape.restarts[g.restartCursor].liveTick = g.liveTick

\* Playback dismisses cards by itself and repeats the recorded resumes.
autoplay(g, c) ==
    LET h == IF g.phase \in {"tip", "lost"} THEN confirm(g, c) ELSE g
        r == g.tape.restarts[g.restartCursor]
    IN IF restartDue(g) /\ g.phase \notin {"over", "title"}
       THEN restoreSave([h EXCEPT !.restartCursor = @ + 1, !.impureAt = r.impureAt, !.chaosAt = r.chaosAt], r.save, c)
       ELSE h

endMontage(g) == setPhase([g EXCEPT !.montage = <<>>], "tip")

framePhase(g, v, c) ==
    CASE g.phase = "playing" -> IF restartDue(g) THEN g ELSE tick(g, v, c)
      [] g.phase = "crashing" -> startReplay(g)
      [] g.phase = "replaying" -> advanceReplay(g, v, c)
      [] g.phase = "rewinding" -> setPhase(g, "playing")
      [] g.phase = "montage" -> endMontage(g)
      [] OTHER -> g

endEarly(g) == IF g.playback /\ g.exhausted /\ g.phase # "over" THEN gameOver(g, "ended early") ELSE g

frame(g, v, c) == endEarly(framePhase(IF g.playback THEN autoplay(g, c) ELSE g, v, c))

-----------------------------------------------------------------------------
(* Commands. *)

commandIn(g, k, c) ==
    CASE g.phase \in {"title", "over"} /\ k = "confirm" -> newRun(g, c)
      [] g.phase = "resume" /\ k = "confirm" -> resumeSaved(g, c)
      [] g.phase = "resume" /\ k = "cancel" ->
           setPhase([g EXCEPT !.savedRun = None, !.store.save = None], "title")
      [] g.phase \in {"tip", "lost"} /\ k = "confirm" -> confirm(g, c)
      [] g.phase = "montage" /\ k = "confirm" -> endMontage(g)
      [] g.phase = "playing" /\ k \in {"cancel", "pause"} -> save(setPhase(g, "paused"))
      [] g.phase = "playing" /\ k \in PlayerInputs -> [g EXCEPT !.pending = Append(@, k)]
      [] g.phase = "paused" /\ k \in {"cancel", "pause", "confirm"} -> setPhase(g, "playing")
      [] OTHER -> g

command(g, k, c) ==
    LET h == IF k = "slideStart" THEN [g EXCEPT !.slideHeld = TRUE]
             ELSE IF k = "slideEnd" THEN [g EXCEPT !.slideHeld = FALSE] ELSE g
    IN IF ~g.playback THEN commandIn(h, k, c)
       ELSE IF k = "confirm" /\ g.phase = "over" THEN newRun(h, c)
       ELSE IF k = "cancel" /\ g.phase # "paused" THEN setPhase(leavePlayback(h), "title")
       ELSE IF k \in {"pause", "cancel"} \/ (k = "confirm" /\ g.phase = "paused") THEN commandIn(h, k, c)
       ELSE h

\* The constructor: a saved run is offered, nothing else survives a page load.
boot(store) ==
    LET s == initialState(LevelStart(0, 1))
        saved == parseSave(store.save)
    IN [phase |-> IF saved # None THEN "resume" ELSE "title", reason |-> "",
        runDate |-> today, dailyBest |-> IF store.daily.date = today THEN store.daily.best ELSE 0,
        best |-> store.best, start |-> LevelStart(0, 1), history |-> <<>>, state |-> s, stats |-> emptyStats,
        divergedAt |-> -1, tape |-> emptyTape(today), playback |-> FALSE, liveTick |-> 0, inputCursor |-> 1,
        restartCursor |-> 1, impureAt |-> 0, chaosAt |-> 0, exhausted |-> FALSE, pending |-> <<>>,
        queued |-> <<>>, slideHeld |-> FALSE, segments |-> <<>>, orbValues |-> <<>>, montage |-> <<>>,
        replayer |-> None, crashTick |-> 0, want |-> s, savedRun |-> saved, dueAt |-> 0,
        rewind |-> rewindReset(s), store |-> store]

-----------------------------------------------------------------------------
(* Actions. *)

Init ==
    /\ today = 1
    /\ game = boot([save |-> None, best |-> 0, daily |-> [date |-> 0, best |-> 0]])
    /\ decoding = None /\ ended = None
    /\ used = [runs |-> 0, events |-> 0, watches |-> 0]

\* Every step of the game goes through here: a live run that ends is remembered.
Become(g) ==
    /\ game' = g
    /\ ended' = IF g.phase = "over" /\ ~g.playback /\ game.phase # "over"
                THEN [tape |-> g.tape, state |-> g.state, stats |-> g.stats, reason |-> g.reason]
                ELSE ended
    /\ UNCHANGED today

\* The animation loop calls frame().
Frame ==
    /\ game.phase \notin {"title", "resume", "paused", "over"}
    /\ game.phase \in {"tip", "lost"} => game.playback
    /\ game.phase = "playing" /\ ~game.playback => game.liveTick < MaxTicks[used.runs]
    /\ \E v \in ImpureValues, c \in ChaosValues : Become(frame(game, v, c))
    /\ UNCHANGED <<decoding, used>>

\* A player key, in any phase; letting a held slide key go spends no bound.
Key(k) ==
    /\ Become(command(game, k, 0)) /\ game' # game
    /\ LET released == k = "slideEnd" /\ game.slideHeld
       IN /\ released \/ used.events < MaxEvents
          /\ used' = [used EXCEPT !.events = IF released THEN @ ELSE @ + 1]
    /\ UNCHANGED decoding

\* Enter, Escape, p.
Command(k) ==
    /\ \E c \in ChaosValues : Become(command(game, k, c)) /\ game' # game
    /\ LET pauses == game.phase = "playing" /\ game'.phase = "paused"
           starts == game.phase \in {"title", "over"} /\ game'.phase = "tip"
       IN /\ pauses => used.events < MaxEvents
          /\ starts => used.runs < MaxRuns
          /\ used' = [used EXCEPT !.events = IF pauses THEN @ + 1 ELSE @, !.runs = IF starts THEN @ + 1 ELSE @]
    /\ UNCHANGED decoding

\* The tab is hidden, loses focus or leaves the page.
Suspend ==
    /\ used.events < MaxEvents
    /\ Become(suspend(game)) /\ game' # game
    /\ used' = [used EXCEPT !.events = @ + 1]
    /\ UNCHANGED decoding

\* pagehide saves without pausing.
PageHide ==
    /\ used.events < MaxEvents
    /\ Become(save(game)) /\ game' # game
    /\ used' = [used EXCEPT !.events = @ + 1]
    /\ UNCHANGED decoding

\* The page goes away, with or without having saved, and is opened again.
Reload ==
    /\ used.events < MaxEvents
    /\ Become(boot(game.store))
    /\ decoding' = None
    /\ used' = [used EXCEPT !.events = @ + 1]

\* "Replay entire run" on the end card, or a pasted execution ID on the title card.
RequestWatch ==
    /\ used.watches < MaxWatches /\ decoding = None
    /\ \/ game.phase = "over" /\ decoding' = game.tape
       \/ game.phase = "title" /\ ended # None /\ decoding' = ended.tape
    /\ used' = [used EXCEPT !.watches = @ + 1]
    /\ UNCHANGED <<game, today, ended>>

\* The decoded tape is watched, whatever the game is doing by then.
Decoded ==
    /\ decoding # None
    /\ Become(watch(game, decoding, 0))
    /\ decoding' = None
    /\ UNCHANGED used

\* Nothing reads the date while the game plays: midnight passes at a card.
NextDay ==
    /\ today < MaxDay /\ game.phase \in {"paused", "over"}
    /\ today' = today + 1
    /\ UNCHANGED <<game, decoding, ended, used>>

Next ==
    \/ Frame
    \/ \E k \in PlayerInputs : Key(k)
    \/ \E k \in {"confirm", "cancel", "pause"} : Command(k)
    \/ Suspend
    \/ PageHide
    \/ Reload
    \/ RequestWatch
    \/ Decoded
    \/ NextDay

Spec == Init /\ [][Next]_vars

-----------------------------------------------------------------------------
(* Properties. *)

\* A replay that reports no NonDeterministicError rebuilds exactly the state the
\* crash or the closed tab interrupted, though an orb drew a fresh value: the
\* hashes in the history notice (game.ts advanceReplay; title card: "Replaying it
\* rebuilds your run exactly where you left it").
ReplayRebuilds ==
    [][game.phase = "replaying" /\ game'.phase = "playing" /\ game'.stats.incidents = game.stats.incidents
         => game'.state = game.want]_vars

\* Watching a finished run's tape ends where the run ended, for the same reason
\* and with the same statistics (tape.ts: "A Game fed a tape reproduces the run
\* exactly"), and never asks the tape for more than was recorded.
PlaybackFaithful ==
    game.playback /\ ended # None /\ game.tape = ended.tape =>
        /\ game.liveTick <= game.tape.liveTick
        /\ game.phase = "over" => /\ game.state = ended.state /\ game.stats = ended.stats
                                  /\ game.reason = ended.reason

\* A saved history is the history up to a place after which there is no activity.
Covers(saved, history) ==
    /\ Len(saved) <= Len(history)
    /\ \A k \in DOMAIN saved : history[k] = saved[k]
    /\ \A k \in (Len(saved) + 1)..Len(history) : history[k].type \notin Activities

\* While a durable level is played outside a boss phase, every activity in the
\* history is in the stored save: closing the tab loses none (game.ts save).
ActivitiesSaved ==
    game.phase \in {"playing", "rewinding", "crashing"} /\ ~game.playback /\ Cfg(game).durable /\ game.state.bossUntil = 0 =>
        game.store.save # None /\ Covers(game.store.save.body.history, game.history)

\* Whether the hat slides once the keys have been applied: a slide that nothing ends.
WillSlide(sliding, keys) ==
    \/ sliding /\ \A k \in DOMAIN keys : keys[k] # "slideEnd"
    \/ \E k \in DOMAIN keys : /\ keys[k] = "slideStart"
                             /\ \A j \in DOMAIN keys : j > k => keys[j] # "slideEnd"

\* A slide never sticks: if the hat slides in live play while the key is up, its
\* end is already queued, whatever was ignored during crashes, cards and pauses.
SlideNeverSticks ==
    game.phase = "playing" /\ ~game.playback /\ WillSlide(livePlayer(game.state).sliding, game.pending)
        => game.slideHeld

\* A segment as the montage replays it: crates from history, orbs as played.
montageRun(seg) ==
    LET orbs == AtPlaces(seg.history, {k \in DOMAIN seg.history : seg.history[k].type = "OrbTaken"})
        run[n \in 0..seg.endTick] ==
            IF n = 0 THEN [r |-> createReplayer(seg.start, seg.history, seg.endTick), used |-> 0]
            ELSE LET x == run[n - 1]
                     v == IF x.used < Len(orbs) THEN seg.orbValues[orbs[x.used + 1].id] ELSE 0
                     a == advance(x.r, v)
                 IN IF x.r.done THEN x ELSE [r |-> a.r, used |-> x.used + a.calls]
    IN run[seg.endTick].r

\* What was recorded rebuilds what was played.  The save written at a crash, a
\* pause or a rewind is accepted when it is loaded (validate.ts), and its history,
\* replayed with the orb values it was played with, gives the state it was written
\* in: no retry, segment or input leaves an event behind that makes a deterministic
\* run diverge.  Every closed segment replays to its end for the montage, also one
\* that a NonDeterministicError ended (montage.ts).
RecordsRebuild ==
    /\ game.phase \in {"crashing", "paused", "rewinding"} /\ game.store.save # None =>
           LET b == game.store.save.body
               r == montageRun([start |-> b.start, history |-> b.history, endTick |-> b.tick,
                                orbValues |-> b.orbValues])
           IN parseSave(game.store.save) # None /\ r.divergedAt = -1 /\ r.state = b.want
    /\ \A k \in DOMAIN (game.segments \o game.montage) :
           LET seg == (game.segments \o game.montage)[k]
               r == montageRun(seg)
           IN r.divergedAt = -1 /\ r.state.tick = seg.endTick

=============================================================================
