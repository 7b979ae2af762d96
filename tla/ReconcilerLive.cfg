SPECIFICATION FairSpec
CONSTANTS
  Worlds <- MCWorlds
  Stores <- MCStores
  NoStore = NoStore
  NoWorld = NoWorld
  Fp <- MCFp
  Detected <- MCDetected
  Elect <- MCElect
  Provided <- MCProvided
  Pollers = {p1, p2}
  Seed = seed
  Deleters = {}
PROPERTY Converges
