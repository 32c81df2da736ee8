\* A payload of more than 1 MiB is freed twice.
SPECIFICATION Spec
CONSTANTS
  vloss = vloss
  analog_rec = analog_rec
  h1 = h1
  h2 = h2
  r1 = r1
  Props <- MCProps
  Kinds = {"chmap", "oversize"}
  InitProp = analog_rec
  Handlers = {}
  PropOf <- MCPropOf0
  NoHandler = NoHandler
  Readers = {}
  MaxFires = 2
INVARIANTS
  NoDoubleFree
CHECK_DEADLOCK FALSE
