SPECIFICATION PipelineLiveSpec
CONSTANTS
  m1 = m1
  bad = bad
  g1 = g1
  Msgs = {m1, bad}
  Bad = {bad}
  Refused = {}
  NoMsg = NoMsg
  Many = 1
  BatchSize = 2
  MaxCopies = 1
  MaxRestarts = 1
  Gateways = {g1}
  Sender <- MCSender
  Timeout = 2
  Grace = 1
CHECK_DEADLOCK FALSE
PROPERTIES SilentGatewayNoticed EveryMessageSettled
