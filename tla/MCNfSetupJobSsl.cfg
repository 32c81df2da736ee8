\* One caller, a camera with SSL whose digest answer cannot be sent.
SPECIFICATION Spec
CONSTANTS
  Requests = {r1}
  None = None
  Mgr = Mgr
  Ways = {"ssl"}
INVARIANTS
  SuccessMeansAnswered
CHECK_DEADLOCK FALSE
