\* Seven machines; a ring of two events; two channels and four lumps.
SPECIFICATION DoomSpec
CONSTANTS
  KQ_SIZE = 3
  Event = {0, 1}
  Zero = 0
  Nothing = Nothing
  None = None
  Effects <- MCEffects
  Lump <- MCLumps
  CERVUS_RATE = 2
  CERVUS_CHANNELS = 2
  CERVUS_CHUNK = 2
  OUT_MAX = 20000
  Settings <- MCSettings
  Machines <- MCMachines
  RESX = 4
  RESY = 3
  BIG <- MCBig
  UNSIGNED = 64
INVARIANTS
  SoundTypeOK
  PictureFits
  GivenBack
PROPERTIES
  ImplementsFifo
  ImplementsMixer
  EffectsEnd
CHECK_DEADLOCK FALSE
