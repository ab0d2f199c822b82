SPECIFICATION Spec
CONSTANTS
  m1 = m1
  m2 = m2
  bad = bad
  Msgs = {m1, m2, bad}
  Bad = {bad}
  Refused = {}
  NoMsg = NoMsg
  Many = 2
  BatchSize = 2
  MaxCopies = 2
  MaxRestarts = 1
SYMMETRY MCSymmetry
CHECK_DEADLOCK FALSE
INVARIANTS TypeOK LostOnlyByCommit TermedIsMalformed OneRowPerDelivery StoredIsHeard
  TelemetryInv
