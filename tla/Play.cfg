SPECIFICATION FairSpec
CONSTANTS
  MaxKeys = 2
  MaxSwitches = 3
  MaxResizes = 1
  MaxRefusals = 1
INVARIANTS
  SearchIsAlone
  NoUseAfterFree
  NoStaleStart
PROPERTIES
  NoStartAfterError
  RecorderLife
  ErrorEndsProgram
  GameOffEndsUi
  CursesQuits
  SearchFindsUnlessStuck
