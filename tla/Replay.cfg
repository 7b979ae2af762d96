SPECIFICATION Spec
CONSTANTS
  Levels <- MCLevels
  TopLevel = 2
  RngStates = 4
  Infinity <- MCInfinity
  SPAWN_X = 1
  GAP = 1
  FIRST_SPAWN_AT = 1
  FAN_CLEAR = 1
  JUMP_TICKS = 2
  JUMP_CUT_TICKS = 1
  COYOTE_TICKS = 1
  JUMP_BUFFER_TICKS = 1
  PIT_W = 2
  PIT_HIT_DEPTH = 1
  BOOST_TICKS = 3
  BOSS_TICKS = 2
  SHIELD_FULL = 1
  GRACE_RESUME = 1
  GRACE_RETRY = 1
  GRACE_BOOST = 1
  GRACE_BARGE = 1
  FAN_LANES = 2
  ImpureValues = {0, 1}
  ChaosValues = {0, 1}
  RewindTicks = 2
  RewindBack = 1
  SafeBehind = 0
  SafeAhead = 1
  CrashAfterPickup <- MCCrashAfterPickup
  Seeds <- MCSeeds
  MaxDay = 2
  MaxRuns = 2
  MaxTicks <- MCMaxTicks
  MaxWatches = 1
  MaxEvents = 1
INVARIANTS
  PlaybackFaithful
  RecordsRebuild
  ActivitiesSaved
  SlideNeverSticks
PROPERTIES
  ReplayRebuilds
CHECK_DEADLOCK FALSE
