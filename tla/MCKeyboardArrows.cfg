SPECIFICATION Spec
CONSTANTS
  Keys <- ArrowKeys
  MaxEvents = 4
  MaxWire = 6
INVARIANT ExtendedKeysIgnored
