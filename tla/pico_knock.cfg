SPECIFICATION Spec
CONSTANTS
  Drives = {1}
  Sectors = {0, 70, 85, 74, 73}
  NegativeLBA = 99
  KnockSeq <- CodeKnock
  PayloadSize = 1
  FifoSize = 2
  Loopback = FALSE
  MaxUsb = 0
  Blocks = {}
INVARIANT KnockIsHeardAnyTime
