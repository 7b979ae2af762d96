----------------------------- MODULE MCReplay -----------------------------
(* A short game: an in-memory level that crashes, one finite durable level *)
(* with orbs, crates and racks, and an endless one with fan-outs and pits. *)
EXTENDS ReplayGame

MCInfinity == 99

\* kinds: what each generator state spawns.
Table(a, b, c, d) == [r \in 0..3 |-> <<a, b, c, d>>[r + 1]]

Level0 ==
    [length |-> MCInfinity, kinds |-> Table("coin", "coin", "coin", "low"),
     bossKinds |-> Table("low", "low", "low", "low"), laneKinds |-> Table("low", "low", "low", "low"),
     durable |-> FALSE, chaosMean |-> 0, firstCrash |-> <<>>, scriptedCrashAt |-> 1,
     crashAfterPickup |-> {}, retries |-> 0, shieldEnabled |-> FALSE, fanEvery |-> 0, fanTicks |-> 0]

Level1 ==
    [Level0 EXCEPT !.length = 5, !.kinds = Table("crate", "pit", "orb", "low"), !.durable = TRUE,
                   !.bossKinds = Table("low", "high", "low", "high"),
                   !.chaosMean = 4, !.firstCrash = <<2, 3>>, !.scriptedCrashAt = 0,
                   !.crashAfterPickup = {"orb"}, !.retries = 1, !.shieldEnabled = TRUE]

Level2 ==
    [Level1 EXCEPT !.length = MCInfinity, !.kinds = Table("coin", "coin", "low", "low"),
                   !.laneKinds = Table("coin", "pit", "low", "coin"),
                   !.firstCrash = <<>>, !.retries = 0, !.fanEvery = 4, !.fanTicks = 2]

MCLevels == 0 :> Level0 @@ 1 :> Level1 @@ 2 :> Level2
MCMaxTicks == <<12, 0>>
MCSeeds == <<1, 2>>
MCCrashAfterPickup == <<1, 2>>

=============================================================================
