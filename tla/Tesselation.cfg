SPECIFICATION Spec
CONSTANTS
  Documents <- MCDocuments
  MaxPolygons = 2
  MaxCombined = 1
  MaxEmitted = 4
INVARIANT TypeOK
INVARIANT IndicesInVertices
INVARIANT RingsCleaned
INVARIANT OwnVertices
INVARIANT OwnTexCoords
INVARIANT TrianglesOfPrimitives
\* a load ends after MaxPolygons
CHECK_DEADLOCK FALSE
