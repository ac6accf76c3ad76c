SPECIFICATION SSpec
CONSTANTS
  Keys = {1, 2}
  BadKeys = {}
  Data = {a, b}
  Tomb = Tomb
  Absent = Absent
  Merging = FALSE
  MemTableSize = 2
  MaxValueSize = 1
  LLimit = 3
  IndexStep = 2
  IOMayFail = FALSE
  MaxFiles = 3
  NoEnd = NoEnd
  Limits = {0}
INVARIANTS ScanReadsSnapshot MissingOnlyAfterCompaction
CONSTRAINT NoAnswerYet
SYMMETRY DataSymmetry
CHECK_DEADLOCK FALSE
