SPECIFICATION Spec

CONSTANTS
  Https = {"http"}
  Clis = {"cli"}
  MaxSets = 2
  MaxFaults = 1
  Stale = Stale

INVARIANTS
  FilesInv
  DisabledStaysDisabled

PROPERTIES
  RetiredStaysAway
