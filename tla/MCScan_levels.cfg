SPECIFICATION SSpec
CONSTANTS
  Keys = {1, 2}
  BadKeys = {}
  Data = {a}
  Tomb = Tomb
  Absent = Absent
  Merging = FALSE
  MemTableSize = 2
  MaxValueSize = 1
  LLimit = 2
  IndexStep = 2
  IOMayFail = FALSE
  MaxFiles = 5
  NoEnd = NoEnd
  Limits = {0, 1}
INVARIANTS ScanReadsSnapshot PanicsOnlyFromStart
CONSTRAINT NoAnswerYet
CHECK_DEADLOCK FALSE
