SPECIFICATION Spec
CONSTANTS
  g1 = g1
  g2 = g2
  Gateways = {g1}
  NoGateway = NoGateway
  BufSize = 1
  GracePeriod = 1
  Timeouts = {1}
  Pausable = {g1}
  Removable = {g1}
  MaxTime = 2
  MaxRestarts = 0
CHECK_DEADLOCK FALSE
INVARIANT MarkNeverMissesAnOutage
