SPECIFICATION Spec
CONSTANTS
  NoId = NoId
  Id = {a, b}
  DataId = {}
  Theme = {}
  Orientation = {"+", "-"}
  Side = {TRUE}
  AppearanceHolder = {}
  MaxObjects = 4
  MaxLinks = 1
  MaxData = 0
  MaxDefinitions = 0
SYMMETRY Ids
INVARIANT OrientationApplied
\* a parse ends
CHECK_DEADLOCK FALSE
