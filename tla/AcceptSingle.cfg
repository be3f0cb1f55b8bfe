SPECIFICATION FairSpec
CONSTANTS
  Runs = {"owner"}
  Outs = {"owner"}
  OutOf <- OwnOut
  PRs = {"rebuild", "two"}
  Heads <- MCHeads
  Names <- MCNames
  Versions <- MCVersions
  Blobs <- MCBlobs
  Labels <- MCLabels
  Files <- MCFiles
  FileName <- MCFileName
  Stem <- MCStem
  Paths <- MCPaths
  Index0 <- MCIndex0
  Out0 <- MCOut0
  Mans0 <- MCMans0
  MaxTries = 2
  MaxFaults = 2
  MaxCrashes = 1
  None = None
INVARIANTS
  TypeOK
  OnlyReviewedReleased
  VerifiedListingIsWhole
  PromiseKept
  OutPackagesDisjoint
PROPERTIES
  StaysStopped
  ImplementsRegistry
  SignedIsServed
CHECK_DEADLOCK FALSE
