SPECIFICATION FairSpec
CONSTANTS
  Fuji = Fuji
  AIn = AIn
  AOut = AOut
  rA = rA
  rB = rB
  wA = wA
  wB = wB
  Drivers = {Fuji, AIn, AOut}
  Reads = {rA, rB}
  Writes = {wA}
  DriverOf <- MCDriverOf
  ReqCount <- MCSmallCount
  AtInterrupt = {rB}
  Blocking = {wA}
  Registered <- FujiOnly
  Entries = 4
  PayloadSize = 2
  MaxFed = 2
  MayFail = TRUE
  NoDriver = NoDriver
  NoReq = NoReq
PROPERTY EveryRequestEnds
