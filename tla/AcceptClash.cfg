SPECIFICATION Spec
CONSTANTS
  Runs = {"owner"}
  Outs = {"owner"}
  OutOf <- OwnOut
  PRs = {"smaller", "clash"}
  Heads <- MCHeads
  Names <- MCNames
  Versions <- MCVersions
  Blobs <- MCBlobs
  Labels <- MCLabels
  Files <- MCFiles
  FileName <- MCFileName
  Stem <- MCStem
  Paths <- MCPaths
  Index0 <- Index0Both
  Out0 <- MCOut0
  Mans0 <- MCMans0
  MaxTries = 2
  MaxFaults = 0
  MaxCrashes = 0
  None = None
INVARIANTS
  ListedPackagesDisjoint
CHECK_DEADLOCK FALSE
