\* Two handlers of one property, one reader, every kind of payload.
SPECIFICATION FairSpec
CONSTANTS
  vloss = vloss
  analog_rec = analog_rec
  h1 = h1
  h2 = h2
  r1 = r1
  Props <- MCProps
  Kinds = {"chmap", "shortchmap", "oversize"}
  InitProp = analog_rec
  Handlers = {h1, h2}
  PropOf <- MCPropOf2
  NoHandler = NoHandler
  Readers = {r1}
  MaxFires = 3
INVARIANTS
  TypeOK
  LatchedIsLastApplied
  DeliveryExact
  RemovedRunsAtMostOnce
PROPERTIES
  DeliveredInOrder
  ReaderNeverGoesBack
  BusSpec
  EveryFireDispatched
CHECK_DEADLOCK FALSE
