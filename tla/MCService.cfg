SPECIFICATION LiveSpec
CONSTANTS
  e1 = e1
  bad = bad
  NotSet = NotSet
  NotANumber = NotANumber
  NoError = NoError
  NoEnvironment = NoEnvironment
  NoConfig = NoConfig
  Defaults <- MCDefaults
  MaxInt = 127
  MaxInt32 = 15
  NanosPerMilli = 3
  Events = {e1, bad}
  Malformed = {bad}
  NoEvent = NoEvent
  Listing <- MCListing
  Environments <- MCEnvironments
  Successors <- MCSuccessors
  MaxPings = 1
  MaxRestarts = 1
CHECK_DEADLOCK FALSE
INVARIANTS TypeOK ConfigurationIsReported ExitLeavesNothingOpen UsedWhileOpen StartsOnFullSchema  ClosedEventsAreDone 
PROPERTIES ShutsDown EventsSettled
