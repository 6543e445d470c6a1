SPECIFICATION Spec
CONSTANTS
  Alphabet <- GeoRefAlphabet
  Name <- MCName
  Node <- MCNode
  NoNode <- MCNoNode
  NoName <- MCNoName
  NodeOf <- MCNodeOf
  Kind <- MCKind
  RootKind = "CityModel"
  Binds <- MCBinds
  ChildStart <- MCChildStart
  ChildEnd <- MCChildEnd
  Roots <- MCRoots
  Content <- MCContent
  NeverNested <- MCNeverNested
  MaxDepth = 8
INVARIANT ControlReturned
\* a parse ends
CHECK_DEADLOCK FALSE
