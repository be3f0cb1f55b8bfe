\* Windows of up to two rows of two characters.
SPECIFICATION Spec
CONSTANTS
  Texts = {"prompt"}
  Drawn = "drawn"
  Blank = "blank"
  None = None
  MaxHeight = 2
  MaxWidth = 2
INVARIANTS
  NoTrace
PROPERTIES
  MainComesBack
