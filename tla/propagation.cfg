SPECIFICATION FairSpec
CONSTANTS
  Servers = {sa, sb}
  MaxTries = 2
  MaxSerial = 3
  Failures = TRUE
  Remappings <- MCRemappings
INVARIANTS TypeOK FreshTarget OkMeansPropagated
PROPERTIES ImplementsLifecycle AcceptedIsMeasured
