SPECIFICATION FairSpec
CONSTANTS
  SessionTypes = {1, 2}
  GameNames <- SameNames
  Registered <- NoNames
  MaxLap = 1
  MaxChanges = 4
  MaxFaults = 0
  MaxRuns = 1
INVARIANTS
  TypeOK
  ShutdownFinishesRun
  OneOpenRowPerRun
  StintCounts
  StintsPerPitEntry
PROPERTIES
  StopEndsRecorder
