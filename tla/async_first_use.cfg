SPECIFICATION Spec
CONSTANTS
  Fuji = Fuji
  AIn = AIn
  AOut = AOut
  rA = rA
  rB = rB
  wA = wA
  wB = wB
  Drivers = {Fuji, AIn, AOut}
  Reads = {rA}
  Writes = {wA}
  DriverOf <- MCDriverOf
  ReqCount <- MCReqCount
  AtInterrupt = {rA}
  Blocking = {wA}
  Registered <- FujiOnly
  Entries = 4
  PayloadSize = 2
  MaxFed = 3
  MayFail = FALSE
  NoDriver = NoDriver
  NoReq = NoReq
INVARIANT OldestIsKeptOnce
