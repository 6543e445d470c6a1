SPECIFICATION Spec
CONSTANTS
  Alphabet <- LenientAlphabet
  Name <- MCName
  Node <- MCNode
  NoNode <- MCNoNode
  NoName <- MCNoName
  NodeOf <- MCNodeOf
  Kind <- MCKind
  RootKind = "CityModel"
  Binds <- MCBinds
  ChildStart <- MCChildStart
  ChildEnd <- MCChildEnd
  Roots <- MCRoots
  Content <- MCContent
  NeverNested <- MCNeverNested
  MaxDepth = 9
PROPERTY ParserOnlyWithoutXlink
\* a parse ends
CHECK_DEADLOCK FALSE
