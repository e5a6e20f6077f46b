SPECIFICATION Spec
CONSTANTS
  SessionTypes = {1, 2}
  GameNames <- SameNames
  Registered <- NoNames
  MaxLap = 1
  MaxChanges = 3
  MaxFaults = 0
  MaxRuns = 1
PROPERTIES
  LapValidUntilItIsNot
