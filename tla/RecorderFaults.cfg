SPECIFICATION Spec
CONSTANTS
  SessionTypes = {1, 2}
  GameNames <- TwoTracks
  Registered <- OneName
  MaxLap = 1
  MaxChanges = 1
  MaxFaults = 1
  MaxRuns = 2
INVARIANTS
  ParentsExist
  OneTelemetryPerLap
  LapClosedOnce
  NamesRegisteredOnce
PROPERTIES
  EarlierRunsKept
  ImplementsThread
