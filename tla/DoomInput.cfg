\* A window, the devices or a terminal; a queue of two events that overflows.
SPECIFICATION FairSpec
CONSTANTS
  Sources = {"window", "evdev", "tty"}
  Codes = {17, 29, 97}
  Chars = {1119, 1027}
  Keys <- MCKeys
  MenuKey <- MCMenuKey
  GameKey <- MCGameKey
  Buttons = {272}
  WheelBits = {3}
  KQ_SIZE = 3
  MaxEvents = 4
  None = None
INVARIANTS
  TypeOK
  NoStuckKey
  DownIsHeld
  OutOfFocusIsIdle
PROPERTIES
  LetGoComesUp
CHECK_DEADLOCK FALSE
