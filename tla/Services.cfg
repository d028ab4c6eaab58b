SPECIFICATION Spec
CONSTANTS
  Fibers = {"r", "w"}
  Connectors = {"w"}
  Timed = {"r", "w"}
  MaxCalls = 2
  MaxFiles = 2
  MaxDrains = 1
  Users = {"u", "v", "w"}
  Conns = {1, 2, 3}
  MaxAlive = 1
  MaxRequest = 2
  Now = 2
  HeadLen = 4
  LenFirst = 2
  LenLast = 3
  BodyLen = 2
  BuffSize = 8
  Requests = 2
  MaxFails = 2
  BaseSize = 2
  Byte = {0, 1}
  MaxCapacity = 5
  MaxLen = 3
  MaxStarts = 2
  MaxClients = 2
  MaxSize = 3
  MaxPayload = 1
  MaxFrames = 3
  Setters = {"s", "t"}
  Listeners = {1, 2}
  Values = {0, 1, 2}
  MaxSets = 3
INVARIANTS
  TypeOK
  Wakeable
  OwnTimeout
  
  FreshContext
  PoolCount
  PoolReuse
  InStep
  WsIntact
  ListenersAgree
PROPERTIES
  TimedReturns
  SessionEnds
  TapeSpec
  ServerStops
\* Callers, users and sessions end when their bounds are used up.
CHECK_DEADLOCK FALSE
