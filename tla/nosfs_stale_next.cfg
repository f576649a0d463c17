SPECIFICATION Spec
CONSTANTS
  Names = {a, b}
  Vals = {v1, v2}
  SectorSize = 1
  VolSects = 6
  DirSects = 2
  PerSect = 1
  Lens = {0, 1, 2}
  MaxFaults = 0
  MaxBadReads = 0
  MaxCrashes = 2
  NoName = NoName
  Missing = Missing
  Unknown = Unknown
  Zero = Zero
INVARIANTS NextDataIsFree
SYMMETRY Sym
CHECK_DEADLOCK FALSE
