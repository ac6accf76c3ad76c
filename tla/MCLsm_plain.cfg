SPECIFICATION FairSpec
CONSTANTS
  Keys = {1, 2}
  BadKeys = {}
  Data = {a, b}
  Tomb = Tomb
  Absent = Absent
  Merging = FALSE
  MemTableSize = 2
  MaxValueSize = 2
  LLimit = 2
  IndexStep = 2
  IOMayFail = FALSE
  MaxFiles = 9
  Deletable = {1, 2}
INVARIANTS LastPutWins FullOnlyIfStuck
PROPERTIES OnlyCompactionRevives StuckForever LockReleased
