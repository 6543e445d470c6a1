SPECIFICATION Spec
CONSTANTS
  CityModels <- MCCityModels
  Options <- MCOptions
  MaxDocuments = 2
INVARIANT TypeOK
INVARIANT OpenElementsNested
INVARIANT PlacedInOwner
INVARIANT TrueMeansComplete
INVARIANT PrefixesDeclared
INVARIANT AppearancesSaved
PROPERTY ErrorStopsWriting
\* a serializer is not used again after MaxDocuments
CHECK_DEADLOCK FALSE
