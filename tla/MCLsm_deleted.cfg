SPECIFICATION Spec
CONSTANTS
  Keys = {1}
  BadKeys = {}
  Data = {a, b}
  Tomb = Tomb
  Absent = Absent
  Merging = FALSE
  MemTableSize = 1
  MaxValueSize = 2
  LLimit = 2
  IndexStep = 2
  IOMayFail = FALSE
  MaxFiles = 8
  Deletable = {1}
INVARIANTS DeletedStaysDeleted
