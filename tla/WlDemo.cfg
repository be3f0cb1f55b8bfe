\* wldemo and another client, two addresses that are used again, two frames.
SPECIFICATION FairDemo
CONSTANTS
  wldemo = wldemo
  Clients = {wldemo, other}
  Addresses = {r1, r2}
  Buffers = {b1, b2}
  None = None
  MAX_SURFACES = 2
  MaxFrames = 2
CHECK_DEADLOCK FALSE
INVARIANTS
  TypeOK
  ShownIsOwn
  NeverTorn
  EachFrameOnce
PROPERTIES
  DemoEnds
