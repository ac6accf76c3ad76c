SPECIFICATION Spec
CONSTANTS
  Keys = {0, 1, 2}
  BadKeys = {0}
  Data = {a, b}
  Tomb = Tomb
  Absent = Absent
  Merging = FALSE
  MemTableSize = 3
  MaxValueSize = 1
  LLimit = 2
  IndexStep = 2
  IOMayFail = FALSE
  MaxFiles = 3
  Deletable = {1}
INVARIANTS UnreadableStaysOnTop
PROPERTIES MaintenanceInvisible
