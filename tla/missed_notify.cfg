SPECIFICATION FairSpec
CONSTANTS
  Servers = {sa}
  MaxTries = 2
  MaxSerial = 3
  Failures = FALSE
  Remappings <- AsTheyAre
PROPERTY EveryChangeMeasured
