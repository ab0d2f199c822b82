SPECIFICATION LiveSpec
CONSTANTS
  t1 = t1
  gw1 = gw1
  gw2 = gw2
  NoId = NoId
  Garbage = Garbage
  Tenants = {t1}
  GatewayIds = {gw1, gw2}
  Lists <- MCLists
  DefaultTimeout = 9
  MaxRetries = 3
  InitialBackoff = 2
  MaxBackoff = 5
  MaxChanges = 1
  RRMaxRetries = 2
  RRTimeout = 5
  RRBackoff <- MCBackoff
CHECK_DEADLOCK FALSE
INVARIANTS TimeoutsFollowList CallIsBounded DelayDoublesToCap CacheInv
PROPERTIES RefreshIsFresh CatchesUp RunReturns
