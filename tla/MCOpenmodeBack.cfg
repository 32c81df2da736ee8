\* Liveness: one camera, a user who only starts the service, up to the first named race.
SPECIFICATION FairSpec
CONSTANTS
  HangLimit = 1
  AbnormalLimit = 1
  LoginLimit = 0
  StayLimit = 0
  MaxQueue = 1
  MaxJobs = 1
  MaxChains = 1
  MaxCalls = 0
  Followed = {}
PROPERTIES
  CameraComesBack
CHECK_DEADLOCK FALSE
