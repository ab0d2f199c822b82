SPECIFICATION Spec
CONSTANTS
  m1 = m1
  m2 = m2
  bad = bad
  Msgs = {m1, m2}
  Bad = {}
  Refused = {}
  NoMsg = NoMsg
  Many = 1
  BatchSize = 2
  MaxCopies = 1
  MaxRestarts = 0
CHECK_DEADLOCK FALSE
INVARIANT AckedIsStored
