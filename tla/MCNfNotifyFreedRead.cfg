\* A reader copies from the block nf_notify_set_property has just freed.
SPECIFICATION Spec
CONSTANTS
  vloss = vloss
  analog_rec = analog_rec
  h1 = h1
  h2 = h2
  r1 = r1
  Props <- MCProps
  Kinds = {"chmap"}
  InitProp = analog_rec
  Handlers = {}
  PropOf <- MCPropOf0
  NoHandler = NoHandler
  Readers = {r1}
  MaxFires = 2
INVARIANTS
  NoFreedRead
CHECK_DEADLOCK FALSE
