\* Finding: recovery resets a camera that has just been opened.
SPECIFICATION Spec
CONSTANTS
  HangLimit = 1
  AbnormalLimit = 1
  LoginLimit = 1
  StayLimit = 1
  MaxQueue = 1
  MaxJobs = 1
  MaxChains = 1
  MaxCalls = 0
  Followed = {"recount"}
INVARIANTS
  RecoveryLosesNoStream
CHECK_DEADLOCK FALSE
