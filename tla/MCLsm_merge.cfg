SPECIFICATION Spec
CONSTANTS
  Keys = {1, 2}
  BadKeys = {}
  Data = {a, b}
  Tomb = Tomb
  Absent = Absent
  Merging = TRUE
  MemTableSize = 2
  MaxValueSize = 2
  LLimit = 2
  IndexStep = 2
  IOMayFail = TRUE
  MaxFiles = 4
  Deletable = {1}
INVARIANTS HTypeOK NoPieceLost UnsplitKeyReadsWhole
PROPERTIES IsStore IsPlaces
