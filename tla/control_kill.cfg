SPECIFICATION ControlSpec
CONSTANTS
  AIn = AIn
  AOut = AOut
  rA = rA
  rB = rB
  wA = wA
  Drivers = {AIn, AOut}
  Reads = {rA, rB}
  Writes = {wA}
  DriverOf <- MCDriverOf
  ReqCount <- MCReqCount
  AtInterrupt = {rB}
  Blocking = {wA}
  Registered <- Both
  Entries = 3
  PayloadSize = 1
  MaxFed = 2
  MayFail = FALSE
  MaxOpens = 0
  NoDriver = NoDriver
  NoReq = NoReq
INVARIANT ServesQueuedOnly
CHECK_DEADLOCK FALSE
