SPECIFICATION PipelineSpec
CONSTANTS
  m1 = m1
  bad = bad
  g1 = g1
  Msgs = {m1}
  Bad = {}
  Refused = {}
  NoMsg = NoMsg
  Many = 1
  BatchSize = 1
  MaxCopies = 1
  MaxRestarts = 0
  Gateways = {g1}
  Sender <- MCSender
  Timeout = 1
  Grace = 0
CHECK_DEADLOCK FALSE
INVARIANT DecommissionedNotAlerted
