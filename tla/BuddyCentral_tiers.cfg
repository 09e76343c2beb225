SPECIFICATION Spec
CONSTANTS
  NumRegions = 2
  Tops = 1
  MaxOrder = 2
  OobMin = 1
  RowCap = 2
  DrainAt = 2
  Records = TRUE
  MaxLive = 3
INVARIANTS Tiled TiersAgree OrderKnown
PROPERTIES CallsEnd
