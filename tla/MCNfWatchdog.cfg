\* The disk, the main timer and the notify thread; the watchdog thread is fair.
SPECIFICATION FairSpec
CONSTANTS
  Members = {2, 6, 13}
  SST = 2
  MAIN_TIMER = 6
  NOTIFY = 13
  FwMembers = {6, 13}
  Interval <- MCInterval
  DiskOps = {"start", "stop", "rtlimit"}
  LongInterval = 4
  KillSecond = 9
  PreAlarm = 1
  MaxRecFail = 1
INVARIANTS
  TypeOK
  AlarmBeforeDiskReset
  DiskResetOnlyInOperation
  ResetIsPrompt
PROPERTIES
  AlarmCleared
  SilenceLeadsToReset
CHECK_DEADLOCK FALSE
