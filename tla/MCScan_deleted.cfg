SPECIFICATION SSpec
CONSTANTS
  Keys = {1}
  BadKeys = {}
  Data = {a, b}
  Tomb = Tomb
  Absent = Absent
  Merging = FALSE
  MemTableSize = 2
  MaxValueSize = 2
  LLimit = 2
  IndexStep = 1
  IOMayFail = FALSE
  MaxFiles = 3
  NoEnd = NoEnd
  Limits = {0}
INVARIANTS ScanHidesDeleted
CHECK_DEADLOCK FALSE
