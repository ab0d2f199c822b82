SPECIFICATION Spec
CONSTANTS
  g1 = g1
  g2 = g2
  Gateways = {g1, g2}
  NoGateway = NoGateway
  BufSize = 2
  GracePeriod = 0
  Timeouts = {1}
  Pausable = {}
  Removable = {}
  MaxTime = 1
  MaxRestarts = 1
SYMMETRY Symmetry
CHECK_DEADLOCK FALSE
INVARIANTS TypeOK StatusAgreement OfflineImpliesAlerted NewestUpdateWins CloseDrains
PROPERTY LastSeenNeverGoesBack
