SPECIFICATION Spec
CONSTANTS
  Drives = {1, 2}
  Sectors = {0, 70, 85, 9}
  NegativeLBA = 99
  KnockSeq <- ShortKnock
  PayloadSize = 1
  FifoSize = 2
  Loopback = FALSE
  MaxUsb = 3
  Blocks <- MCBlocks
INVARIANTS TypeOK UsbBytesInOrder AvailIsTrue
PROPERTY ArmedByKnockOnly
