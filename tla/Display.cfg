SPECIFICATION FairSpec
CONSTANTS
  MaxCars = 3
  Tables <- MCTables
  Times <- MCTimes
  Sizes <- MCSizes
INVARIANTS
  TypeOK
  StandingsRight
  ReadsTheTable
  TimesRight
PROPERTIES
  FramesEnd
