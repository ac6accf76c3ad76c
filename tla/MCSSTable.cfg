SPECIFICATION Spec
CONSTANTS
  Keys = {0, 1, 2, 3, 4, 5}
  BadKeys = {0, 5}
  Data = {a, b}
  Tomb = Tomb
  Absent = Absent
  MaxKeySize = 4
  MaxValueSize = 1
  IndexStep = 2
  NoEnd = NoEnd
INVARIANTS IndexIsRight GetIsRight ScanIsRight CompactionIsRight
SYMMETRY DataSymmetry
CHECK_DEADLOCK FALSE
