SPECIFICATION Spec
CONSTANTS
  Fuji = Fuji
  AIn = AIn
  AOut = AOut
  rA = rA
  rB = rB
  wA = wA
  wB = wB
  Drivers = {Fuji, AIn, AOut}
  Reads = {rA}
  Writes = {wA, wB}
  DriverOf <- MCDriverOf
  ReqCount <- MCReqCount
  AtInterrupt = {wB}
  Blocking = {wA}
  Registered <- FujiOnly
  Entries = 4
  PayloadSize = 2
  MaxFed = 3
  MayFail = TRUE
  NoDriver = NoDriver
  NoReq = NoReq
INVARIANTS TypeOK VblMutexExcludes OldestIsKeptOnce CompletesWhatItServed StatsExact SaneCounters
PROPERTY ImplementsSerialPort
