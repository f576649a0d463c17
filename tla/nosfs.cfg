SPECIFICATION Spec
CONSTANTS
  Names = {a, b, c}
  Vals = {v1, v2}
  SectorSize = 1
  VolSects = 6
  DirSects = 2
  PerSect = 1
  Lens = {0, 1, 2, 4}
  MaxFaults = 1
  MaxBadReads = 1
  MaxCrashes = 1
  NoName = NoName
  Missing = Missing
  Unknown = Unknown
  Zero = Zero
SYMMETRY Sym
CHECK_DEADLOCK FALSE
INVARIANTS TypeOK NoOverlap VolumeReadsBack
PROPERTIES ImplementsFileStore
