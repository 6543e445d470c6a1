SPECIFICATION Spec
CONSTANTS
  CityModels <- MCCityModels
  Url = {"brick", "tile", "lost"}
  NoTexture = "none"
  Untextured = {"roof", "wall"}
  Files = {"brick", "tile"}
  Debug = TRUE
  MaxReads = 3
INVARIANT TypeOK
INVARIANT DrawablesOfPolygons
INVARIANT EveryPolygonDrawn
INVARIANT NothingLeft
\* the reading ends after MaxReads
CHECK_DEADLOCK FALSE
