SPECIFICATION LiveSpec
CONSTANTS
  m1 = m1
  m2 = m2
  bad = bad
  Msgs = {m1, m2}
  Bad = {}
  Refused = {m2}
  NoMsg = NoMsg
  Many = 2
  BatchSize = 2
  MaxCopies = 1
  MaxRestarts = 0
CHECK_DEADLOCK FALSE
PROPERTY StorableIsStored
