-------------------------- MODULE PolygonTesselation --------------------------
(***************************************************************************)
(* Polygon::finish: the rings of a polygon are rid of duplicate vertices,  *)
(* together with the texture coordinates for them, and then tesselated. A  *)
(* load finishes one polygon after the other with the same tesselator.     *)
(***************************************************************************)
EXTENDS Tesselator

CONSTANTS
  Documents,   \* polygons as they are parsed: records of the fields named below
  MaxPolygons  \* bound: polygons of a load

(* The rings with the points of their vertices, in the order of addRing;   *)
(* a texture definition (a number) for each theme, front themes first; and *)
(* the texture coordinates of a definition for a ring, by their number.    *)
ASSUME DocumentsAssumption ==
  \A d \in Documents :
    /\ d.rings \in Seq([exterior : BOOLEAN, points : Seq(Nat)])
    /\ d.themes \in Seq(Nat)
    /\ d.coordinates \in Seq([of : Range(d.themes), ring : DOMAIN d.rings, length : Nat])

ASSUME MaxPolygonsAssumption == MaxPolygons \in Nat

VARIABLES
  document,     \* the polygon as it was parsed
  rings,        \* m_exteriorRing, if there is one, and m_interiorRings
  coordinates,  \* the TextureCoordinates of its definitions
  nextRing,     \* the next ring to add as a contour
  optimize, keepVertices,  \* of ParserParams
  polygon,      \* its m_vertices, m_indices and texture coordinates by theme
  polygons,     \* how many polygons were begun
  phase         \* "idle", "contours", "glu", "primitive" or "emitted"

vars == <<tesselatorVars, document, rings, coordinates, nextRing, optimize, keepVertices,
          polygon, polygons, phase>>

NoPolygon == [vertices |-> <<>>, indices |-> <<>>, texCoords |-> <<>>]
NoDocument == [rings |-> <<>>, themes |-> <<>>, coordinates |-> <<>>]

-----------------------------------------------------------------------------
(* What is parsed. A vertex is the set of the one place in a ring of the   *)
(* document it stands for, and so is a texture coordinate.                 *)
Place(r, k) == [ring |-> r, at |-> k]

VerticesOf(d, r) == [k \in DOMAIN d.rings[r].points |-> {Place(r, k)}]

addRingsInOrder(d) ==  \* mutant: exterior rings are treated like the others
  [r \in DOMAIN d.rings |-> [id |-> r, vertices |-> VerticesOf(d, r)]]

(* addRing: of several exterior rings the first is kept.                   *)
addRings(d) ==
  LET Ring(r) == [id |-> r, vertices |-> VerticesOf(d, r)]
      exterior == {r \in DOMAIN d.rings : d.rings[r].exterior}
  IN (IF exterior = {} THEN <<>> ELSE <<Ring(Min(exterior))>>)
     \o FlattenSeq([r \in DOMAIN d.rings |-> IF r \in exterior THEN <<>> ELSE <<Ring(r)>>])

ParsedCoordinates(d) ==
  [c \in DOMAIN d.coordinates |->
     [k \in 1..d.coordinates[c].length |-> {Place(d.coordinates[c].ring, k)}]]

-----------------------------------------------------------------------------
(* LinearRing::removeDuplicateVertices. Points that are no further apart   *)
(* than DBL_EPSILON are taken to be equal.                                 *)
PointOf(d, v) == LET p == CHOOSE p \in v : TRUE IN d.rings[p.ring].points[p.at]

(* TextureCoordinates::eraseCoordinate                                     *)
eraseCoordinate(list, i) == IF i <= Len(list) THEN RemoveAt(list, i) ELSE list

(* A ring in the loop: its vertices, the lists of texture coordinates for  *)
(* it and the vertex the loop is at, which goes.                           *)
Erased(ring) ==
  [i |-> ring.i,
   vertices |-> RemoveAt(ring.vertices, ring.i),
   lists |-> [c \in DOMAIN ring.lists |-> eraseCoordinate(ring.lists[c], ring.i)]]

RemoveWithoutWrap(d, ring) ==  \* mutant: the last vertex is not compared with the first
  LET i == ring.i
      vs == ring.vertices
  IN IF i >= Len(vs) \/ Len(vs) <= 2 THEN ring
     ELSE IF PointOf(d, vs[i]) = PointOf(d, vs[i + 1]) THEN Erased(ring)
     ELSE [ring EXCEPT !.i = i + 1]

(* A round of the loop: a vertex goes that equals the one after it, the    *)
(* first again after the last, as long as there are more than two.         *)
RemoveNext(d, ring) ==
  LET i == ring.i
      vs == ring.vertices
  IN IF i > Len(vs) \/ Len(vs) <= 2 THEN ring
     ELSE IF PointOf(d, vs[i]) = PointOf(d, vs[(i % Len(vs)) + 1]) THEN Erased(ring)
     ELSE [ring EXCEPT !.i = i + 1]

(* Every round removes a vertex or goes on to the next one: there are as   *)
(* many as the ring has vertices.                                          *)
Cleaned(d, r) ==
  LET Round(ring, k) == RemoveNext(d, ring)
      lists == {c \in DOMAIN d.coordinates : d.coordinates[c].ring = r}
  IN FoldLeft(Round, [i |-> 1, vertices |-> VerticesOf(d, r),
                      lists |-> [c \in lists |-> ParsedCoordinates(d)[c]]],
              d.rings[r].points)

removeDuplicateVertices(d) ==
  /\ rings' = [i \in DOMAIN addRings(d) |->
       LET r == addRings(d)[i].id IN [id |-> r, vertices |-> Cleaned(d, r).vertices]]
  /\ coordinates' = [c \in DOMAIN d.coordinates |->
       LET r == d.coordinates[c].ring
       IN IF \E i \in DOMAIN addRings(d) : addRings(d)[i].id = r
          THEN Cleaned(d, r).lists[c] ELSE ParsedCoordinates(d)[c]]

-----------------------------------------------------------------------------
Init ==
  /\ TesselatorInit
  /\ document = NoDocument
  /\ rings = <<>>
  /\ coordinates = <<>>
  /\ nextRing = 1
  /\ optimize \in BOOLEAN
  /\ keepVertices \in BOOLEAN
  /\ polygon = NoPolygon
  /\ polygons = 0
  /\ phase = "idle"

(* Polygon::finish, computeIndices, and the beginning of                   *)
(* createIndicesWithTesselation.                                           *)
Finish(d) ==
  /\ phase = "idle"
  /\ polygons < MaxPolygons
  /\ document' = d
  /\ IF optimize THEN removeDuplicateVertices(d)
     ELSE rings' = addRings(d) /\ coordinates' = ParsedCoordinates(d)
  /\ init
  /\ polygon' = NoPolygon
  /\ polygons' = polygons + 1
  /\ nextRing' = 1
  /\ phase' = "contours"
  /\ UNCHANGED <<optimize, keepVertices>>

(* getTexCoordsForRingAndTheme; the last list for a ring is in the map.    *)
TexCoordsForRing(ring, definition) ==
  LET lists == {c \in DOMAIN document.coordinates : /\ document.coordinates[c].of = definition
                                                    /\ document.coordinates[c].ring = ring}
  IN IF lists = {} THEN <<>> ELSE coordinates[Max(lists)]

AddContour ==
  /\ phase = "contours"
  /\ nextRing \in DOMAIN rings
  /\ LET ring == rings[nextRing]
     IN addContour(ring.vertices, [t \in DOMAIN document.themes |->
                                     TexCoordsForRing(ring.id, document.themes[t])])
  /\ rings' = IF keepVertices THEN rings ELSE [rings EXCEPT ![nextRing].vertices = <<>>]
  /\ nextRing' = nextRing + 1
  /\ UNCHANGED <<document, coordinates, optimize, keepVertices, polygon, polygons, phase>>

PolygonStays == UNCHANGED <<document, rings, coordinates, nextRing, optimize, keepVertices,
                            polygon, polygons>>

Compute ==
  /\ phase = "contours"
  /\ nextRing \notin DOMAIN rings
  /\ processContours
  /\ phase' = "glu"
  /\ PolygonStays

(* GLU merges vertices and finds crossings first, of two vertices or four; *)
(* then it makes primitives, or reports an error and makes none.           *)
GluCombine ==
  /\ phase = "glu"
  /\ Cardinality({i \in known : Cardinality(vertices[i + 1]) > 1}) < MaxCombined
  /\ \E from \in SUBSET known : Cardinality(from) \in {2, 4} /\ combineCallback(from)
  /\ PolygonStays /\ UNCHANGED phase

GluBegin ==
  /\ phase \in {"glu", "emitted"}
  /\ Emitted + 3 <= MaxEmitted
  /\ known # {}
  /\ \E mode \in {Triangles, Fan, Strip} : beginCallback(mode)
  /\ phase' = "primitive"
  /\ PolygonStays

GluVertex ==
  /\ phase = "primitive"
  /\ Emitted < MaxEmitted
  /\ \E i \in known : vertexDataCallback(i)
  /\ PolygonStays /\ UNCHANGED phase

GluEnd ==
  /\ phase = "primitive"
  /\ Len(curIndices) >= 3
  /\ curMode = Triangles => Len(curIndices) % 3 = 0
  /\ endCallback
  /\ phase' = "emitted"
  /\ PolygonStays

(* The end of createIndicesWithTesselation.                                *)
TakeOver ==
  /\ phase \in {"glu", "emitted"}
  /\ polygon' = [vertices |-> vertices, indices |-> outIndices,
                 texCoords |-> IF vertices = <<>> THEN <<>>
                               ELSE [t \in DOMAIN document.themes |-> texCoordsLists[t]]]
  /\ phase' = "idle"
  /\ UNCHANGED <<tesselatorVars, document, rings, coordinates, nextRing, optimize, keepVertices,
                 polygons>>

Next ==
  \/ \E d \in Documents : Finish(d)
  \/ AddContour
  \/ Compute
  \/ GluCombine
  \/ GluBegin
  \/ GluVertex
  \/ GluEnd
  \/ TakeOver

Spec == Init /\ [][Next]_vars

-----------------------------------------------------------------------------
(* Properties.                                                             *)
PlacesOf(d) == UNION {{Place(r, k) : k \in DOMAIN d.rings[r].points} : r \in DOMAIN d.rings}

(* A list of texture coordinates may be longer than its ring.              *)
TexturePlacesOf(d) ==
  UNION {{Place(d.coordinates[c].ring, k) : k \in 1..d.coordinates[c].length} :
           c \in DOMAIN d.coordinates}

Places == PlacesOf(document)

TypeOK ==
  /\ vertices \in Seq(SUBSET Places)
  /\ indices \in Seq(Nat) /\ outIndices \in Seq(Nat) /\ curIndices \in Seq(Nat)
  /\ curMode \in {"none", Triangles, Fan, Strip}
  /\ \A k \in DOMAIN texCoordsLists : texCoordsLists[k] \in Seq(SUBSET TexturePlacesOf(document))
  /\ known \subseteq Nat
  /\ nextRing \in 1..(Len(rings) + 1)
  /\ polygons \in 0..MaxPolygons
  /\ phase \in {"idle", "contours", "glu", "primitive", "emitted"}

(* The assertions of tesselator.cpp, tesselatorbase.cpp and polygon.cpp,   *)
(* and the reads they do not cover: indices and texture coordinates stay   *)
(* parallel to the vertices, a contour of three vertices or more lies in   *)
(* them, and every index GLU gets or gives back is one of a vertex.        *)
IndicesInVertices ==
  /\ Len(indices) = Len(vertices)
  /\ \A i \in DOMAIN indices : indices[i] = i - 1
  /\ \A k \in DOMAIN texCoordsLists : Len(texCoordsLists[k]) = Len(vertices)
  /\ vertices # <<>> => Len(texCoordsLists) = Len(document.themes)
  /\ \A c \in DOMAIN contourQueue :
       contourQueue[c].length < 3 \/ contourQueue[c].index + contourQueue[c].length <= Len(vertices)
  /\ known \subseteq 0..(Len(vertices) - 1)
  /\ Range(curIndices) \cup Range(outIndices) \subseteq known

(* addContour is to "Add contour to queue, and process later": each contour *)
(* in the queue has vertices of its own, those that were added for it. The *)
(* code does not satisfy it for contours of less than three points.        *)
ContoursAdded ==
  \A c \in DOMAIN contourQueue :
    contourQueue[c].index + contourQueue[c].length <=
      IF c = Len(contourQueue) THEN Len(vertices) ELSE contourQueue[c + 1].index

Matches(d, c) == d.coordinates[c].length = Len(d.rings[d.coordinates[c].ring].points)

(* When duplicates are removed, the vertices that stay are those of the    *)
(* ring in their order, every point among them and no two neighbours       *)
(* equal, and texture coordinates that match the vertices go with them,    *)
(* also when a definition is in several themes.                            *)
RingsCleaned ==
  phase = "contours" /\ nextRing = 1 /\ optimize =>
    \A i \in DOMAIN rings :
      LET vs == rings[i].vertices
          Point(k) == PointOf(document, vs[k])
          At(k) == LET p == CHOOSE p \in vs[k] : TRUE IN p.at
      IN /\ Range(vs) \subseteq Range(VerticesOf(document, rings[i].id))
         /\ \A k \in DOMAIN vs : k > 1 => At(k - 1) < At(k)
         /\ {Point(k) : k \in DOMAIN vs} = Range(document.rings[rings[i].id].points)
         /\ Len(vs) > 2 => \A k \in DOMAIN vs : Point(k) # Point((k % Len(vs)) + 1)
         /\ \A c \in DOMAIN coordinates :
              document.coordinates[c].ring = rings[i].id /\ Matches(document, c) => coordinates[c] = vs

(* The contour of a ring, and those that are handed to GLU.                *)
ContourOf(i) ==
  IF optimize THEN Cleaned(document, rings[i].id).vertices ELSE VerticesOf(document, rings[i].id)

Contours ==
  FlattenSeq([i \in DOMAIN rings |-> IF Len(ContourOf(i)) < 3 THEN <<>> ELSE ContourOf(i)])

(* A finished polygon has the vertices of its own rings, of exterior ones  *)
(* the first, before the interior ones, then those GLU has made between    *)
(* two or more of them, and whole triangles: nothing of the polygon before *)
(* it. With keepVertices the rings still have their vertices.              *)
OwnVertices ==
  phase = "idle" =>
    /\ IsPrefix(Contours, polygon.vertices)
    /\ \A k \in DOMAIN polygon.vertices : k > Len(Contours) =>
         /\ \E p, q \in polygon.vertices[k] : p # q
         /\ polygon.vertices[k] \subseteq UNION Range(Contours)
    /\ \A i \in DOMAIN rings, r \in DOMAIN document.rings :
         document.rings[r].exterior =>
           /\ document.rings[rings[i].id].exterior <=> i = 1
           /\ rings[1].id <= r
    /\ keepVertices => \A i \in DOMAIN rings : rings[i].vertices = ContourOf(i)
    /\ Len(polygon.indices) % 3 = 0

(* In every theme each vertex of a finished polygon has the coordinate the *)
(* document gives for it, interpolated ones included, when the lists match *)
(* the rings; where there is no list it has (0, 0).                        *)
OwnTexCoords ==
  phase = "idle" /\ (\A c \in DOMAIN document.coordinates : Matches(document, c)) =>
    \A t \in DOMAIN polygon.texCoords :
      /\ Len(polygon.texCoords[t]) = Len(polygon.vertices)
      /\ \A k \in DOMAIN polygon.vertices :
           polygon.texCoords[t][k] =
             {p \in polygon.vertices[k] : \E c \in DOMAIN document.coordinates :
                /\ document.coordinates[c].of = document.themes[t]
                /\ document.coordinates[c].ring = p.ring}

(* What OpenGL draws for a primitive, with the winding of each triangle.   *)
Drawn(p) ==
  LET v == p.indices
  IN CASE p.mode = Triangles -> v
       [] p.mode = Fan -> FlattenSeq([k \in 1..(Len(v) - 2) |-> <<v[1], v[k + 1], v[k + 2]>>])
       [] p.mode = Strip -> FlattenSeq([k \in 1..(Len(v) - 2) |->
            IF k % 2 = 1 THEN <<v[k], v[k + 1], v[k + 2]>> ELSE <<v[k + 1], v[k], v[k + 2]>>])

(* The indices of a finished polygon are the triangles GLU has made for it *)
(* (endCallback).                                                          *)
TrianglesOfPrimitives ==
  phase = "idle" => polygon.indices = FlattenSeq([k \in DOMAIN primitives |-> Drawn(primitives[k])])
=============================================================================
