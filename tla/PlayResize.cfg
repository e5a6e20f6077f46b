SPECIFICATION FairSpec
CONSTANTS
  MaxKeys = 1
  MaxSwitches = 2
  MaxResizes = 1
  MaxRefusals = 0
PROPERTIES
  SearchFinds
