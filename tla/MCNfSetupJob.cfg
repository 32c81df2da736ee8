\* Two callers race for one slot; the proof is for any number.
SPECIFICATION FairSpec
CONSTANTS
  Requests = {r1, r2}
  None = None
  Mgr = Mgr
  Ways = {"plain", "ssl", "library"}
INVARIANTS
  TypeOK
  ToldAtMostOnce
  SuccessWasAnswered
  UndisturbedIsKept
PROPERTIES
  PromiseSpec
  UndisturbedIsTold
CHECK_DEADLOCK FALSE
