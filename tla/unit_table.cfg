SPECIFICATION Spec
CONSTANTS
  Ports <- MCPorts
  TestPorts = {1}
  RomDrivers <- MCRom
  OtherNames = {"other"}
  FirstFree = 2
  FirstEntries = 3
  GrowBy = 2
  MaxEntries = 5
  MaxHandles = 6
  InfoEntries = 5
CHECK_DEADLOCK FALSE
INVARIANTS TypeOK NamesAreUnique StubsForward PortsAreWhole DrvrInfoHasEndMark WhatIsShownIsTrue
PROPERTY OthersKeepUnits
