SPECIFICATION FairSpec
CONSTANTS
  c1 = c1
  c2 = c2
  h1 = h1
  h2 = h2
  d1 = d1
  d2 = d2
  s1 = s1
  s2 = s2
  Decos <- TwoRecords
  Windows <- TwoWindows
  Desktops <- TwoDesktops
  Surfaces <- OneSurface
  None = None
CHECK_DEADLOCK FALSE
INVARIANTS
  TypeOK
  NothingDangles
  ToldInEffect
PROPERTIES
  PromisedIsDrawn
