SPECIFICATION ControlSpec
CONSTANTS
  AIn = AIn
  AOut = AOut
  rA = rA
  rB = rB
  wA = wA
  Drivers = {AIn, AOut}
  Reads = {rA, rB}
  Writes = {wA}
  DriverOf <- MCDriverOf
  ReqCount <- MCReqCount
  AtInterrupt = {rB}
  Blocking = {wA}
  Registered <- Both
  Entries = 3
  PayloadSize = 1
  MaxFed = 2
  MayFail = TRUE
  MaxOpens = 1
  NoDriver = NoDriver
  NoReq = NoReq
INVARIANTS ControlTypeOK OpenKeepsMutex SaneUnlessRaced BytesMoveAtMostOnce AnswerIsTrue OnlyKillIOMixesRequests
CHECK_DEADLOCK FALSE
