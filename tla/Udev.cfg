\* Two cards and an event that come and go, scanned with and without matches,
\* and the lifetimes of every object.
SPECIFICATION Spec
CONSTANTS
  c1 = c1
  c2 = c2
  c3 = c3
  None = None
  Cells <- ThreeCells
  Nodes <- TwoCards
  SubsystemPatterns <- OneSubsystem
  SysnamePatterns <- OneSysname
  MaxMatches = 1
  MaxScan = 2
  MaxHeld = 2
  MaxResult = 1
SYMMETRY CellSymmetry
INVARIANTS
  TypeOK
  RefsExact
  InUseIsLive
  NothingLeft
  ParentRight
  ScanRight
PROPERTIES
  ParentStays
