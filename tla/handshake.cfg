SPECIFICATION Spec
CONSTANTS
  Drives = {1, 2}
  Sectors = {0, 70, 85, 9}
  NegativeLBA = 99
  KnockSeq <- ShortKnock
  PayloadSize = 1
  FifoSize = 1
  Loopback = TRUE
  MaxUsb = 0
  MacDrive = 1
  FileSector = 9
  Others <- MCOthers
  Values = {1}
  MaxMessages = 1
INVARIANTS TypeOK AgreeOnSector OthersDataIntact
