--------------------------- MODULE ReplayEngine ---------------------------
(***************************************************************************)
(* The engine of the REPLAY game (web/src/pages/replay/engine): one tick   *)
(* of the world (step.ts) as a function of the state, the inputs and the   *)
(* values its ports return, and the replayer that runs it again over a     *)
(* recorded history (replay.ts).                                           *)
(*                                                                         *)
(* Pixels become cells: the world moves one cell a tick, the hat stands at *)
(* cell 0, an entity is hit or taken while it covers cell 0.  Heights      *)
(* become what the hat must do: jump over low racks, slide under high      *)
(* ones.  Everything that is counted in ticks keeps its counter.           *)
(***************************************************************************)
EXTENDS Integers, Sequences, SequencesExt, FiniteSetsExt

CONSTANTS
    Levels,            \* LEVELS: level number -> LevelConfig record
    TopLevel,          \* the last level, which repeats
    RngStates,         \* mulberry32's state is taken modulo this number
    Infinity,          \* larger than every distance and tick of an instance
    SPAWN_X, GAP,      \* where entities appear, cells between two of them
    FIRST_SPAWN_AT, FAN_CLEAR, \* first spawn; clear run before a gate, after a merge
    JUMP_TICKS, JUMP_CUT_TICKS, COYOTE_TICKS, JUMP_BUFFER_TICKS,
    PIT_W, PIT_HIT_DEPTH,
    BOOST_TICKS, BOSS_TICKS, SHIELD_FULL,
    GRACE_RESUME, GRACE_RETRY, GRACE_BOOST, GRACE_BARGE,
    FAN_LANES

ASSUME LevelsAssumption ==
    /\ DOMAIN Levels = 0..TopLevel
    /\ RngStates \in Nat \ {0}
    /\ FAN_LANES \in Nat \ {0}

MERGE_LANE == 1
RACKS == {"low", "high"}
HAZARDS == RACKS \cup {"pit"}

\* The members of s at the places of K, in their order.
AtPlaces(s, K) ==
    [n \in 1..Cardinality(K) |-> s[CHOOSE k \in K : Cardinality({j \in K : j <= k}) = n]]

NoFan == [until |-> 0, lanes |-> <<>>]

-----------------------------------------------------------------------------
(* rng.ts: a generator with injective mixing, on a small ring. *)

nextRandom(s) == (s + 1) % RngStates
mix(s, v) == (s + v) % RngStates
seedFrom(s) == nextRandom(s)

-----------------------------------------------------------------------------
(* Players, entities, initial state. *)

\* y counts ticks until the hat lands; 0 is standing, below 0 sunk in a pit.
newPlayer ==
    [y |-> 0, sliding |-> FALSE, jumpHeld |-> FALSE,
     coyoteUntil |-> 0, jumpBufferUntil |-> 0]

firstGate(cfg, distance) ==
    IF cfg.fanEvery = 0 THEN Infinity
    ELSE ((distance \div cfg.fanEvery) + 1) * cfg.fanEvery

initialState(start) ==
    [level |-> start.level, tick |-> 0, elapsed |-> start.elapsed,
     rng |-> start.seed, score |-> start.score, multiplier |-> 1,
     multUntil |-> 0, player |-> newPlayer, scroll |-> 0,
     distance |-> start.distance, nextSpawnAt |-> FIRST_SPAWN_AT,
     nextId |-> 1, entities |-> <<>>,
     bossUntil |-> IF start.boss THEN BOSS_TICKS ELSE 0,
     status |-> "running", retries |-> start.retries,
     shield |-> start.shield, graceUntil |-> 0, failedAt |-> 0,
     fan |-> NoFan,
     nextGateAt |-> firstGate(Levels[start.level], start.distance)]

\* The start input of the segment that follows state s.
continueAsNew(s) ==
    [level |-> s.level, seed |-> seedFrom(s.rng), score |-> s.score,
     elapsed |-> s.elapsed, distance |-> s.distance + s.scroll,
     boss |-> FALSE, retries |-> s.retries, shield |-> s.shield]

\* The three draws of a spawn (kind, height, gap) are one: the level's table
\* says which kind a generator state yields.
spawn(table, s, x) == [id |-> s.nextId, kind |-> table[s.rng], x |-> x, taken |-> FALSE]

Width(e) == IF e.kind = "pit" THEN PIT_W ELSE 1
AtHat(e) == e.x <= 0 /\ e.x + Width(e) > 0

overPit(es) == \E i \in DOMAIN es : es[i].kind = "pit" /\ AtHat(es[i])

-----------------------------------------------------------------------------
(* Movement of one hat. *)

launch(p) ==
    [p EXCEPT !.y = JUMP_TICKS, !.sliding = FALSE,
              !.coyoteUntil = 0, !.jumpBufferUntil = 0]

applyInput(p, input, tick, atGround) ==
    IF input = "jump"
    THEN LET q == [p EXCEPT !.jumpHeld = TRUE]
         IN IF atGround \/ tick < q.coyoteUntil THEN launch(q)
            ELSE [q EXCEPT !.jumpBufferUntil = tick + JUMP_BUFFER_TICKS]
    ELSE IF input = "jumpEnd"
    THEN [p EXCEPT !.jumpHeld = FALSE, !.y = IF @ > JUMP_CUT_TICKS THEN JUMP_CUT_TICKS ELSE @]
    ELSE IF input = "slideStart" THEN [p EXCEPT !.sliding = TRUE]
    ELSE IF input = "slideEnd" THEN [p EXCEPT !.sliding = FALSE]
    ELSE p

applyInputs(p, inputs, tick) ==
    LET steered[n \in 0..Len(inputs)] ==
          IF n = 0 THEN p ELSE applyInput(steered[n - 1], inputs[n], tick, p.y = 0)
    IN steered[Len(inputs)]

fall(p, tick, pit) ==
    LET q == IF p.y = 0 THEN [p EXCEPT !.coyoteUntil = tick + COYOTE_TICKS] ELSE p
        y == IF pit /\ q.y \in {0, 1} THEN -1 ELSE q.y - 1
    IN IF y = 0 /\ tick < q.jumpBufferUntil
       THEN launch([q EXCEPT !.y = 0])
       ELSE [q EXCEPT !.y = y]

movePlayer(p, inputs, tick, es) ==
    LET pit == overPit(es)
        q == applyInputs(p, inputs, tick)
    IN IF q.y = 0 /\ ~pit THEN q ELSE fall(q, tick, pit)

\* Does a hat at height p.y meet an entity that covers its cell?
Meets(p, e) ==
    /\ AtHat(e) /\ ~e.taken
    /\ CASE e.kind = "low" -> p.y <= 0
         [] e.kind = "high" -> ~(p.sliding /\ p.y <= 0)
         [] e.kind \in {"coin", "orb"} -> p.y <= 0 /\ ~p.sliding
         [] e.kind = "crate" -> p.y > 0
         [] OTHER -> FALSE

-----------------------------------------------------------------------------
(* Tracks: the main hat, or one lane each during a fan-out. *)

tracks(s) == IF s.fan = NoFan THEN <<[player |-> s.player, entities |-> s.entities]>>
             ELSE s.fan.lanes

WithPlayer(s, t, p) == IF s.fan = NoFan THEN [s EXCEPT !.player = p]
                       ELSE [s EXCEPT !.fan.lanes[t].player = p]
WithEntities(s, t, es) == IF s.fan = NoFan THEN [s EXCEPT !.entities = es]
                          ELSE [s EXCEPT !.fan.lanes[t].entities = es]

\* The hat the keys steer.
livePlayer(s) == tracks(s)[MERGE_LANE].player

moveTracks(s, inputs) ==
    LET moved(track) == movePlayer(track.player, inputs, s.tick, track.entities)
    IN IF s.fan = NoFan THEN [s EXCEPT !.player = moved(s)]
       ELSE [s EXCEPT !.fan.lanes = [t \in DOMAIN @ |-> [@[t] EXCEPT !.player = moved(s.fan.lanes[t])]]]

scrollTrack(es) ==
    LET scrolled == [i \in DOMAIN es |-> [es[i] EXCEPT !.x = @ - 1]]
    IN AtPlaces(scrolled, {i \in DOMAIN es : scrolled[i].x + Width(scrolled[i]) > 0})

scrollTracks(s) ==
    LET r == [s EXCEPT !.scroll = @ + 1]
    IN IF s.fan = NoFan THEN [r EXCEPT !.entities = scrollTrack(s.entities)]
       ELSE [r EXCEPT !.fan.lanes = [t \in DOMAIN @ |-> [@[t] EXCEPT !.entities = scrollTrack(s.fan.lanes[t].entities)]]]

-----------------------------------------------------------------------------
(* Spawning, gates and lanes. *)

AtGate(s, cfg) == s.distance + s.scroll >= s.nextGateAt - FAN_CLEAR /\ cfg.fanEvery > 0 /\ s.bossUntil = 0

spawnMain(s, cfg) ==
    IF AtGate(s, cfg)
    THEN IF /\ s.distance + s.scroll >= s.nextGateAt
            /\ \A i \in DOMAIN s.entities : s.entities[i].kind # "fanout"
         THEN [s EXCEPT !.entities = Append(@, [id |-> s.nextId, kind |-> "fanout", x |-> SPAWN_X, taken |-> FALSE]),
                        !.nextId = @ + 1]
         ELSE s
    ELSE IF s.scroll < s.nextSpawnAt THEN s
    ELSE [s EXCEPT !.entities = Append(@, spawn(IF s.bossUntil > 0 THEN cfg.bossKinds ELSE cfg.kinds, s, SPAWN_X)),
                   !.rng = nextRandom(@), !.nextId = @ + 1, !.nextSpawnAt = @ + GAP]

spawnLane(s, cfg, t) ==
    LET lane == s.fan.lanes[t]
    IN IF s.scroll < lane.nextSpawnAt THEN s
       ELSE [s EXCEPT !.fan.lanes[t] = [lane EXCEPT !.entities = Append(@, spawn(cfg.laneKinds, s, SPAWN_X)),
                                                    !.nextSpawnAt = @ + GAP],
                      !.rng = nextRandom(@), !.nextId = @ + 1]

\* One lane after the other draws from the generator.
spawnLanes(s, cfg) ==
    LET spawned[t \in 0..FAN_LANES] == IF t = 0 THEN s ELSE spawnLane(spawned[t - 1], cfg, t)
    IN IF s.fan.until - s.tick <= SPAWN_X + FAN_CLEAR THEN s ELSE spawned[FAN_LANES]

Event(type, s, id, result) == [type |-> type, tick |-> s.tick, id |-> id, result |-> result]

\* Each of the following returns the state and the events it pushed.
enterGate(s, cfg) ==
    IF \E i \in DOMAIN s.entities : s.entities[i].kind = "fanout" /\ s.entities[i].x <= 0
    THEN [s |-> [s EXCEPT !.entities = <<>>,
                          !.fan = [until |-> s.tick + cfg.fanTicks,
                                   lanes |-> [t \in 1..FAN_LANES |->
                                       [player |-> s.player, entities |-> <<>>,
                                        nextSpawnAt |-> s.scroll + FAN_CLEAR, coins |-> 0]]]],
          ev |-> <<Event("FanOut", s, 0, 0)>>]
    ELSE [s |-> s, ev |-> <<>>]

\* a is the accumulator of the tick's hits and pickups, below.
fanIn(a, cfg) ==
    LET s == a.s
    IN [a EXCEPT !.s = [s EXCEPT !.player = s.fan.lanes[MERGE_LANE].player, !.entities = <<>>, !.fan = NoFan,
                                 !.nextGateAt = s.distance + s.scroll + cfg.fanEvery,
                                 !.nextSpawnAt = s.scroll + FAN_CLEAR],
                 !.ev = Append(@, Event("FanIn", s, 0, [t \in DOMAIN s.fan.lanes |-> s.fan.lanes[t].coins]))]

-----------------------------------------------------------------------------
(* Hits and pickups.  An accumulator a carries the state, the events, how  *)
(* often impure() was called, and whether this tick's hit was resolved.    *)

bounce(a, t, pit) ==
    IF pit THEN [a EXCEPT !.s = WithPlayer(@, t, [tracks(@)[t].player EXCEPT !.y = JUMP_TICKS, !.sliding = FALSE])]
    ELSE a

\* i is the index of the rack in track t, 0 for a pit.
resolveHit(a, cfg, t, i) ==
    LET s == a.s
        pit == i = 0
        id == IF pit THEN 0 ELSE tracks(s)[t].entities[i].id
        smash(b) == IF pit THEN bounce(b, t, TRUE)
                    ELSE [b EXCEPT !.s = WithEntities(@, t, [tracks(@)[t].entities EXCEPT ![i].taken = TRUE])]
    IN IF s.tick < s.graceUntil THEN bounce(a, t, pit)
       ELSE IF cfg.shieldEnabled /\ s.shield >= SHIELD_FULL
       THEN smash([a EXCEPT !.s.shield = 0, !.s.graceUntil = s.tick + GRACE_BARGE,
                            !.ev = Append(@, Event("CircuitBreakerTripped", s, id, 0))])
       ELSE IF s.multiplier > 1
       THEN bounce([a EXCEPT !.s.multiplier = 1, !.s.multUntil = s.tick,
                             !.s.graceUntil = s.tick + GRACE_BOOST,
                             !.ev = Append(@, Event("BoostLost", s, id, 0))], t, pit)
       ELSE IF s.retries > 0 THEN [a EXCEPT !.s.status = "retry", !.s.failedAt = s.tick]
       ELSE [a EXCEPT !.s.status = "failed"]

boost(s) == [s EXCEPT !.multiplier = 3, !.multUntil = s.tick + BOOST_TICKS]

pickup(a, cfg, t, i, ports) ==
    LET e == tracks(a.s)[t].entities[i]
        s == WithEntities(a.s, t, [tracks(a.s)[t].entities EXCEPT ![i].taken = TRUE])
        coined == [s EXCEPT !.score = @ + s.multiplier,
                            !.shield = IF cfg.shieldEnabled /\ @ < SHIELD_FULL THEN @ + 1 ELSE @]
        known == e.id \in DOMAIN ports.crates
        v == IF e.kind = "crate" /\ known THEN ports.crates[e.id] ELSE ports.impure
        boosted == boost([s EXCEPT !.rng = mix(@, v)])
    IN IF e.kind = "coin"
       THEN [a EXCEPT !.s = IF s.fan = NoFan THEN coined ELSE [coined EXCEPT !.fan.lanes[t].coins = @ + 1],
                      !.ev = Append(@, Event("ActivityCoinCollected", s, e.id, 0))]
       ELSE IF e.kind = "orb"
       THEN [a EXCEPT !.s = boosted, !.calls = @ + 1,
                      !.ev = Append(@, Event("OrbTaken", s, e.id, 0))]
       ELSE [a EXCEPT !.s = [boosted EXCEPT !.score = @ + boosted.multiplier],
                      !.calls = IF known THEN @ ELSE @ + 1,
                      !.ev = Append(@, Event("ActivityCrateCollected", s, e.id, v))]

\* p is the hat as it was before this tick's hits.
touchEntity(a, cfg, t, i, p, ports) ==
    LET e == tracks(a.s)[t].entities[i]
    IN IF a.s.status # "running" \/ ~Meets(p, e) THEN a
       ELSE IF e.kind \notin RACKS THEN pickup(a, cfg, t, i, ports)
       ELSE IF a.hit THEN a
       ELSE [resolveHit(a, cfg, t, i) EXCEPT !.hit = TRUE]

\* The pit under the hat comes before the entities at it.
sink(a, cfg, t) ==
    IF ~a.hit /\ tracks(a.s)[t].player.y <= -PIT_HIT_DEPTH
    THEN [resolveHit(a, cfg, t, 0) EXCEPT !.hit = TRUE]
    ELSE a

collideTrack(a, cfg, t, ports) ==
    LET p == tracks(a.s)[t].player
        touched[i \in 0..Len(tracks(a.s)[t].entities)] ==
            IF i = 0 THEN sink(a, cfg, t) ELSE touchEntity(touched[i - 1], cfg, t, i, p, ports)
    IN touched[Len(tracks(a.s)[t].entities)]

collide(spawned, cfg, ports) ==
    LET collided[t \in 0..Len(tracks(spawned.s))] ==
            IF t = 0 THEN [s |-> spawned.s, ev |-> spawned.ev, calls |-> 0, hit |-> FALSE]
            ELSE collideTrack(collided[t - 1], cfg, t, ports)
    IN collided[Len(tracks(spawned.s))]

-----------------------------------------------------------------------------
(* One tick.  ports = [impure |-> the value impure() returns in this tick, *)
(* crates |-> recorded crate results by id].  At most one orb or crate is  *)
(* met in a tick, so one value is enough.                                  *)

\* FNV-1a over every field: taken to be injective.
hashState(s) == s

graceOf(s, input) ==
    IF input = "resume" THEN [s EXCEPT !.graceUntil = Max({@, s.tick + GRACE_RESUME})]
    ELSE IF input = "retry" THEN [s EXCEPT !.graceUntil = Max({@, s.tick + GRACE_RETRY}),
                                           !.retries = Max({0, @ - 1})]
    ELSE s

expire(s) == IF s.multiplier > 1 /\ s.tick >= s.multUntil THEN [s EXCEPT !.multiplier = 1] ELSE s

beginTick(s, inputs) ==
    LET begun[n \in 0..Len(inputs)] == IF n = 0 THEN expire(s) ELSE graceOf(begun[n - 1], inputs[n])
    IN begun[Len(inputs)]

spawnAll(s, cfg) ==
    IF s.fan # NoFan THEN [s |-> spawnLanes(s, cfg), ev |-> <<>>] ELSE enterGate(spawnMain(s, cfg), cfg)

mergeLanes(a, cfg) ==
    IF a.s.fan # NoFan /\ a.s.status = "running" /\ a.s.tick + 1 >= a.s.fan.until
    THEN fanIn(a, cfg) ELSE a

closeTick(a, cfg) ==
    LET s == a.s
        done == s.status = "running" /\ s.fan = NoFan /\ s.distance + s.scroll >= cfg.length
    IN [a EXCEPT !.s.status = IF done THEN "levelDone" ELSE @, !.s.tick = @ + 1, !.s.elapsed = @ + 1]

\* Every event of the tick carries the hash of the state the tick ends in.
hashed(e, s) == [f \in DOMAIN e \cup {"hash"} |-> IF f = "hash" THEN hashState(s) ELSE e[f]]

seal(a) ==
    [state |-> a.s, calls |-> a.calls, events |-> [k \in DOMAIN a.ev |-> hashed(a.ev[k], a.s)]]

step(prev, inputs, ports) ==
    IF prev.status # "running" THEN [state |-> prev, events |-> <<>>, calls |-> 0]
    ELSE seal(closeTick(mergeLanes(collide(
            spawnAll(scrollTracks(moveTracks(beginTick(prev, inputs), inputs)), Levels[prev.level]),
            Levels[prev.level], ports), Levels[prev.level]), Levels[prev.level]))

-----------------------------------------------------------------------------
(* replay.ts *)

isInputEvent(e) == e.type \in {"Input", "OrchestratorStarted", "RetryAttempt"}

inputOf(e) == IF e.type = "Input" THEN e.kind
              ELSE IF e.type = "OrchestratorStarted" THEN "resume" ELSE "retry"

\* Mutant of matches: the state hashes are not compared.
matchesByType(expected, actual) ==
    /\ Len(expected) = Len(actual)
    /\ \A k \in DOMAIN expected : expected[k].type = actual[k].type /\ expected[k].id = actual[k].id

matches(expected, actual) ==
    /\ Len(expected) = Len(actual)
    /\ \A k \in DOMAIN expected :
          expected[k].type = actual[k].type /\ expected[k].id = actual[k].id /\ expected[k].hash = actual[k].hash

\* Crate results by id, the last one recorded.
crateResults(history) ==
    LET at(id) == {k \in DOMAIN history : history[k].type = "ActivityCrateCollected" /\ history[k].id = id}
        ids == {history[k].id : k \in {j \in DOMAIN history : history[j].type = "ActivityCrateCollected"}}
    IN [id \in ids |-> history[Max(at(id))].result]

\* divergedAt counts from 0 as the code does; -1 is null.
createReplayer(start, history, toTick) ==
    [state |-> initialState(start), history |-> history, toTick |-> toTick,
     cursor |-> 1, divergedAt |-> -1, done |-> toTick <= 0]

\* What the replayer concludes from a tick that consumed the events before cursor.
conclude(r, next, cursor) ==
    LET others == {k \in r.cursor..(cursor - 1) : ~isInputEvent(r.history[k])}
        expected == AtPlaces(r.history, others)
        died == next.state.status \in {"failed", "retry"}
    IN [r |-> [r EXCEPT !.cursor = cursor,
                        !.divergedAt = IF @ # -1 THEN @
                                       ELSE IF ~matches(expected, next.events)
                                       THEN IF others # {} THEN Min(others) - 1 ELSE cursor - 1
                                       ELSE IF died THEN cursor - 1
                                       ELSE -1,
                        !.state = IF died THEN @ ELSE next.state,
                        !.done = died \/ next.state.tick >= r.toTick \/ next.state.status # "running"],
        calls |-> next.calls]

\* advance(1): one tick, with the value impure() would return.
advance(r, v) ==
    LET due == {k \in r.cursor..Len(r.history) : r.history[k].tick <= r.state.tick}
        cursor == r.cursor + Cardinality(due)
        inputs == AtPlaces(r.history, {k \in r.cursor..(cursor - 1) : isInputEvent(r.history[k])})
    IN conclude(r, step(r.state, [k \in DOMAIN inputs |-> inputOf(inputs[k])],
                        [impure |-> v, crates |-> crateResults(r.history)]), cursor)

=============================================================================
