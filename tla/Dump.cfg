SPECIFICATION Spec
CONSTANTS
  Shapes <- MCShapes
  MaxFaults = 1
INVARIANTS
  StaysInBuffers
  RowsPairTheLaps
  ListsTurnedPoints
  NeutralIsHidden
