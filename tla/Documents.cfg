SPECIFICATION Spec
CONSTANTS
  Alphabet <- DocumentAlphabet
  Name <- MCName
  Node <- MCNode
  NoNode <- MCNoNode
  NoName <- MCNoName
  NodeOf <- MCNodeOf
  Kind <- MCKind
  RootKind = "CityModel"
  Binds <- MCBinds
  ChildStart <- MCChildStart
  ChildEnd <- MCChildEnd
  Roots <- MCRoots
  Content <- MCContent
  NeverNested <- MCNeverNested
  MaxDepth = 9
INVARIANT TypeOK
INVARIANT SkipBalanced
INVARIANT StackAligned
INVARIANT EndTagHasParser
INVARIANT NothingLeftOpen
INVARIANT EndTagsExpected
PROPERTY OwnersStable
\* a parse ends
CHECK_DEADLOCK FALSE
