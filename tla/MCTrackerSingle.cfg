SPECIFICATION Spec
CONSTANTS
  g1 = g1
  g2 = g2
  Gateways = {g1}
  NoGateway = NoGateway
  BufSize = 1
  GracePeriod = 0
  Timeouts = {0, 1}
  Pausable = {g1}
  Removable = {g1}
  MaxTime = 1
  MaxRestarts = 1
CHECK_DEADLOCK FALSE
INVARIANTS TrackerInv OfflineImpliesAlerted PausedSilenced
PROPERTY ImplementsReporting
