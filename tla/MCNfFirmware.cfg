\* Safety: three upgrades, three faults.
SPECIFICATION Spec
CONSTANTS
  NImages = 2
  FirstSeq = 2
  Blank = 15
  MaxUpgrades = 3
  MaxFaults = 3
INVARIANTS
  TypeOK
  FaultsSurvived
  NoTie
  TakesEffect
PROPERTIES
  NeverOlder
  UnitSpec
CHECK_DEADLOCK FALSE
