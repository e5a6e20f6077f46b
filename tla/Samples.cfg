SPECIFICATION Spec
CONSTANTS
  Samples = 3
  MaxStride = 2
  MaxDrive = 8
INVARIANTS
  TypeOK
  PassedSlotsSampled
  OldSamplesGone
