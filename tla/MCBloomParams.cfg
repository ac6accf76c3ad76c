SPECIFICATION ParamsSpec
CONSTANTS
  Items = {x, y}
  Half = 16
  MaxSize = 0
  MaxHashCount = 0
  MaxElements = 3
  MaxAlloc = 8
INVARIANTS SizedForRate
CHECK_DEADLOCK FALSE
