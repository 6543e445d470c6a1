SPECIFICATION Spec
CONSTANTS
  NoId = NoId
  Id = {a}
  DataId = {d}
  Theme = {t, u}
  Orientation = {"+", "-"}
  Side = {TRUE, FALSE}
  AppearanceHolder = {"model", "cityobject"}
  MaxObjects = 3
  MaxLinks = 0
  MaxData = 2
  MaxDefinitions = 2
SYMMETRY Themes
INVARIANT FirstDefinitionAssigned
INVARIANT ThemesListed
\* a parse ends
CHECK_DEADLOCK FALSE
