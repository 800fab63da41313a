SPECIFICATION FairSpec
CONSTANTS
  Processes = {p, q}
  Units = {u, w}
  Current = 2
  Latest = 3
  MaxSnaps = 2
  MaxFaults = 1
  None = None
INVARIANTS
  TypeOK
  NoHalfMigration
  Preserved
PROPERTY
  InterruptedHeals
CHECK_DEADLOCK FALSE
