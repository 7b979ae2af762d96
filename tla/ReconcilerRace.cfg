SPECIFICATION Spec
CONSTANTS
  Worlds <- MCWorlds
  Stores <- MCStores
  NoStore = NoStore
  NoWorld = NoWorld
  Fp <- MCFp
  Detected <- MCDetected
  Elect <- MCElect
  Provided <- MCProvided
  Pollers = {p1}
  Seed = seed
  Deleters = {d1}
INVARIANT ActiveNeverHidden
