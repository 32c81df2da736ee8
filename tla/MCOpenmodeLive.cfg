\* Safety: one camera, one call of the user besides starts, up to the first named race.
SPECIFICATION Spec
CONSTANTS
  HangLimit = 0
  AbnormalLimit = 1
  LoginLimit = 0
  StayLimit = 0
  MaxQueue = 1
  MaxJobs = 1
  MaxChains = 1
  MaxCalls = 1
  Followed = {}
INVARIANTS
  TypeOK
  SilentLossHasCause
PROPERTIES
  NoJobOpensAfterStop
CHECK_DEADLOCK FALSE
