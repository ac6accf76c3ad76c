SPECIFICATION IndexSpec
CONSTANTS
  Words = {"go", "goal", "the"}
  Stops = {"the"}
  Stem <- MCStem
  Docs = {0, 1, 2}
  Texts <- MCTexts
  BlockSize = 2
  Covers <- MCCovers
  Queries <- MCQueries
  Writers = {w1, w2}
  MaxPlaces = 3
  MaxCalls = 2
  TierSizes <- MCTiers
  Logs <- MCLogs
  Searches <- MCSearches
  MaxCounts = 3
SYMMETRY IndexSymmetry
CONSTRAINT NoAnswerYet
INVARIANTS
  DfCoversDocs AnswerIsBetween PostingsMatchCounts
  TieredIsTopK RankedAreHits NoNegativeScore
CHECK_DEADLOCK FALSE
