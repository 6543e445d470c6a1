SPECIFICATION Spec
CONSTANTS
  none = none
  dest = dest
  wgs = wgs
  wgsToo = wgsToo
  gk = gk
  misspelt = misspelt
  WGS = WGS
  GK = GK
  UTM = UTM
  unknown = unknown
  Name <- MCName
  NoName = none
  System <- MCSystem
  Unknown = unknown
  SystemOf <- MCSystemOf
  Destinations = {dest, misspelt}
  CityModels <- MCCityModels
INVARIANT TypeOK
INVARIANT TransformedOnce
INVARIANT SourceApplies
INVARIANT NamesMatchCoordinates
\* a transformation ends
CHECK_DEADLOCK FALSE
