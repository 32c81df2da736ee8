\* The first upgrade announces ping and writes pong.
SPECIFICATION Spec
CONSTANTS
  NImages = 2
  FirstSeq = 2
  Blank = 15
  MaxUpgrades = 1
  MaxFaults = 0
INVARIANTS
  AnnouncedIsWritten
CHECK_DEADLOCK FALSE
