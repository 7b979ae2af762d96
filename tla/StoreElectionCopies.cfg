SPECIFICATION Spec
CONSTANTS
  Instances <- CopyInstances
  AppID <- SameAppID
  ResourcePaths <- CopyPaths
  Components <- CopyComponents
  HomePath <- Home
  Files <- CopyFiles
  StateStorePath <- NoOverride
INVARIANT FingerprintCovers
