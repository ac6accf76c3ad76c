SPECIFICATION PartsSpec
CONSTANTS
  Items = {x, y}
  Half = 4
  MaxSize = 17
  MaxHashCount = 3
  NodeKeys = {0, 1, 2, 3, 4, 5, 6}
  NodeValues = {0, 2}
  NoValue = NoValue
  Highs = {0, 1}
  Lows = {0, 1, 2, 3}
  MaxArrayLen = 2
  Magic = Magic
  Words = {"be", "being", "tree", "trees"}
  Stops = {"be"}
  Stem <- MCStem
  MaxWords = 5
  MaxPhrase = 3
  Keys = {1, 2}
  BadKeys = {}
  Data = {a, b}
  Tomb = Tomb
  Absent = Absent
  Merging = TRUE
  MaxValueSize = 1
  IndexStep = 2
  Inputs = 3
  NoPending = NoPending
INVARIANTS
  NoFalseNegative InBounds
  InOrderIsWhatWasPut GetIsWhatWasPut Balanced Accounted
  BitmapIsSet OneFormPerSet
  PhraseIsInText MergeFnIsUnion CodecRoundTrip
  MergeIsMerged LeaksOnlyWhileOpening
SYMMETRY PartsSymmetry
CHECK_DEADLOCK FALSE
