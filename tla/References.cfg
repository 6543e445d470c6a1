SPECIFICATION Spec
CONSTANTS
  NoId = NoId
  Id = {a, b}
  DataId = {}
  Theme = {t}
  Orientation = {"+"}
  Side = {TRUE}
  AppearanceHolder = {"model"}
  MaxObjects = 4
  MaxLinks = 2
  MaxData = 1
  MaxDefinitions = 2
SYMMETRY Ids
INVARIANT TypeOK
INVARIANT ReferencesResolved
INVARIANT TargetsAlive
INVARIANT AppearancesInherited
INVARIANT UnsharedHaveTexCoords
PROPERTY SlotsKept
\* a parse ends
CHECK_DEADLOCK FALSE
