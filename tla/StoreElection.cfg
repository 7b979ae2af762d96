SPECIFICATION Spec
CONSTANTS
  Instances <- MCInstances
  AppID <- UniqueAppIDs
  ResourcePaths <- MCPaths
  Components <- MCComponents
  HomePath <- Home
  Files <- MCFiles
  StateStorePath <- NoOverride
INVARIANTS
  BestElected
  FingerprintCovers
