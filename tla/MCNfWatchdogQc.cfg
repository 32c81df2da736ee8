\* The QC upgrade reports a watchdog it has not disabled.
SPECIFICATION Spec
CONSTANTS
  Members = {2, 6, 13}
  SST = 2
  MAIN_TIMER = 6
  NOTIFY = 13
  FwMembers = {6, 13}
  Interval <- MCInterval
  DiskOps = {"start"}
  LongInterval = 4
  KillSecond = 9
  PreAlarm = 1
  MaxRecFail = 1
INVARIANTS
  QcDisables
CHECK_DEADLOCK FALSE
