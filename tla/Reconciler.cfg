SPECIFICATION Spec
CONSTANTS
  Worlds <- MCWorlds
  Stores <- MCStores
  NoStore = NoStore
  NoWorld = NoWorld
  Fp <- MCFp
  Detected <- MCDetected
  Elect <- MCElect
  Provided <- MCProvided
  Pollers = {p1, p2}
  Seed = seed
  Deleters = {d1}
SYMMETRY Symmetry
INVARIANTS
  TypeOK
  OneReconcile
  ElectedRegistered
  HiddenOnlyByRace
PROPERTIES
  ClosedIsFinal
