SPECIFICATION Spec
CONSTANTS
  Machines <- AllMachines
  SIZEOF_FADT = 288
  SIZEOF_MCFG = 300
  MADT_RECORDS = 44
  MOD24 = 8
  MOD32 = 16
  WAIT = 3
  PM_PER_MS = 2
  RATE = 3
  MaxGap = 2
INVARIANTS
  TypeOK
  MadtFaithful
  MadtFound
  CalibrationAccurate
  IoApicsFit
  RoutedWhole
PROPERTIES
  BootFinishes
  KeysServed
