SPECIFICATION FairSpec
CONSTANTS
  MaxKeys = 2
  MaxSwitches = 1
  MaxResizes = 0
  MaxRefusals = 0
PROPERTIES
  CliQuits
