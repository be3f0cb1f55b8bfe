SPECIFICATION Spec
CONSTANTS
  Runs = {"ann", "bob"}
  Outs = {"ann", "bob"}
  OutOf <- OwnOut
  PRs = {"update", "new"}
  Heads <- MCHeads
  Names <- MCNames
  Versions <- MCVersions
  Blobs <- MCBlobs
  Labels <- MCLabels
  Files <- MCFiles
  FileName <- MCFileName
  Stem <- MCStem
  Paths <- MCPaths
  Index0 <- MCIndex0
  Out0 <- MCOut0
  Mans0 <- MCMans0
  MaxTries = 2
  MaxFaults = 0
  MaxCrashes = 0
  None = None
INVARIANTS
  PromiseKept
CHECK_DEADLOCK FALSE
