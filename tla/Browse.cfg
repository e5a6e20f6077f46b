SPECIFICATION Spec
CONSTANTS
  Limit = 2
  MaxSessions = 2
  MaxStints = 2
  MaxLaps = 2
INVARIANTS
  LapsShownBelong
  SelectionIsShown
  LabelsMatchMarks
PROPERTIES
  MarksWhatIsShown
