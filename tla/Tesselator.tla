------------------------------ MODULE Tesselator ------------------------------
(* The tesselator of the library (tesselatorbase.cpp, tesselator.cpp): the  *)
(* contours of one polygon after the other are gathered and handed to GLU,  *)
(* which answers through callbacks. GLU is external: it makes vertices      *)
(* where edges cross, and primitives over the vertices it knows.            *)
(* A vertex is abstracted to the vertices of the rings it is made from, a   *)
(* texture coordinate to the coordinates of the document it is made from.   *)
EXTENDS Naturals, Sequences, FiniteSets, SequencesExt

CONSTANTS
  MaxCombined,  \* bound: vertices GLU makes for a polygon
  MaxEmitted    \* bound: vertices of all primitives GLU makes for a polygon

VARIABLES
  vertices,       \* _vertices
  indices,        \* _indices, from 0
  outIndices,     \* _outIndices
  curIndices,     \* _curIndices
  curMode,        \* _curMode, "none" as long as it is uninitialised
  texCoordsLists, \* _texCoordsLists
  contourQueue,   \* _contourQueue
  known,          \* the vertices GLU knows, as their indices
  primitives      \* the primitives GLU has made for the polygon

tesselatorVars == <<vertices, indices, outIndices, curIndices, curMode, texCoordsLists,
                    contourQueue, known, primitives>>

Origin == {}      \* the texture coordinate (0, 0) comes from no place

Triangles == "GL_TRIANGLES"
Fan       == "GL_TRIANGLE_FAN"
Strip     == "GL_TRIANGLE_STRIP"

TesselatorInit ==
  /\ vertices = <<>> /\ indices = <<>> /\ outIndices = <<>> /\ curIndices = <<>>
  /\ curMode = "none"
  /\ texCoordsLists = <<>>
  /\ contourQueue = <<>>
  /\ known = {}
  /\ primitives = <<>>

initKeepsTexCoords ==  \* mutant: _texCoordsLists is not cleared
  /\ vertices' = <<>> /\ indices' = <<>> /\ outIndices' = <<>> /\ curIndices' = <<>>
  /\ known' = {} /\ primitives' = <<>>
  /\ UNCHANGED <<curMode, contourQueue, texCoordsLists>>

(* The queue is emptied by compute, the mode of the last polygon stays.    *)
init ==
  /\ vertices' = <<>> /\ indices' = <<>> /\ outIndices' = <<>> /\ curIndices' = <<>>
  /\ texCoordsLists' = <<>>
  /\ known' = {} /\ primitives' = <<>>
  /\ UNCHANGED <<curMode, contourQueue>>

Repeat(x, n) == [i \in 1..n |-> x]

(* std::vector::resize *)
Resize(s, n) == IF Len(s) >= n THEN SubSeq(s, 1, n) ELSE s \o Repeat(Origin, n - Len(s))

(* The list of each theme goes on with the coordinates of the contour, the *)
(* first one may come after vertices without coordinates.                  *)
AppendedTexCoords(lists, n) ==
  [i \in 1..(IF Len(lists) > Len(texCoordsLists) THEN Len(lists) ELSE Len(texCoordsLists)) |->
     (IF i <= Len(texCoordsLists) THEN texCoordsLists[i] ELSE Repeat(Origin, Len(vertices)))
     \o (IF i <= Len(lists) THEN Resize(lists[i], n) ELSE Repeat(Origin, n))]

(* A contour that is too short adds no vertices, but it is queued.         *)
addContour(pts, lists) ==
  /\ IF Len(pts) < 3
     THEN UNCHANGED <<vertices, indices, texCoordsLists>>
     ELSE /\ texCoordsLists' = AppendedTexCoords(lists, Len(pts))
          /\ vertices' = vertices \o pts
          /\ indices' = indices \o [i \in DOMAIN pts |-> Len(vertices) + i - 1]
  /\ contourQueue' = Append(contourQueue, [index |-> Len(vertices), length |-> Len(pts)])
  /\ UNCHANGED <<outIndices, curIndices, curMode, known, primitives>>

(* The vertices read for a contour. For one that was too short these are   *)
(* vertices of the next contour; what is read past the end, when there is  *)
(* none, is undefined, and not known to GLU afterwards: GLU drops contours *)
(* of less than three vertices.                                            *)
OfContour(c) ==
  {indices[k] : k \in ((c.index + 1)..(c.index + c.length)) \cap DOMAIN indices}

processContours ==
  /\ known' = UNION {OfContour(contourQueue[k]) : k \in DOMAIN contourQueue}
  /\ contourQueue' = <<>>
  /\ UNCHANGED <<vertices, indices, outIndices, curIndices, curMode, texCoordsLists, primitives>>

Emitted == FoldLeft(LAMBDA n, p : n + Len(p.indices), Len(curIndices), primitives)

combineCallbackNoTexCoords(from) ==  \* mutant: no texture coordinates for the new vertex
  /\ indices' = Append(indices, Len(indices))
  /\ vertices' = Append(vertices, UNION {vertices[i + 1] : i \in from})
  /\ known' = known \cup {Len(indices)}
  /\ UNCHANGED <<outIndices, curIndices, curMode, contourQueue, primitives, texCoordsLists>>

(* A vertex between up to four others, whose texture coordinates are       *)
(* interpolated. A list that is empty stays empty.                         *)
combineCallback(from) ==
  /\ indices' = Append(indices, Len(indices))
  /\ vertices' = Append(vertices, UNION {vertices[i + 1] : i \in from})
  /\ texCoordsLists' = [k \in DOMAIN texCoordsLists |->
       IF texCoordsLists[k] = <<>> THEN <<>>
       ELSE Append(texCoordsLists[k], UNION {texCoordsLists[k][i + 1] : i \in from})]
  /\ known' = known \cup {Len(indices)}
  /\ UNCHANGED <<outIndices, curIndices, curMode, contourQueue, primitives>>

beginCallback(mode) ==
  /\ curMode' = mode
  /\ UNCHANGED <<vertices, indices, outIndices, curIndices, texCoordsLists, contourQueue,
                 known, primitives>>

vertexDataCallback(index) ==
  /\ curIndices' = Append(curIndices, index)
  /\ UNCHANGED <<vertices, indices, outIndices, curMode, texCoordsLists, contourQueue,
                 known, primitives>>

TrianglesUnturned(mode, cur) ==  \* mutant: the triangles of a strip are not turned
  IF mode = Triangles THEN cur
  ELSE FlattenSeq([k \in 1..(Len(cur) - 2) |->
         <<cur[IF mode = Fan THEN 1 ELSE k], cur[k + 1], cur[k + 2]>>])

(* The triangles of a fan or strip; every second one of a strip is turned. *)
TrianglesOf(mode, cur) ==
  LET Triangle(t, i) ==  \* i counts the vertices from 0
        [out |-> t.out \o (IF mode = Fan \/ i % 2 = 0 THEN <<t.first>> ELSE <<>>) \o <<t.prev>>
                 \o (IF mode = Strip /\ i % 2 = 1 THEN <<t.first>> ELSE <<>>) \o <<cur[i + 1]>>,
         first |-> IF mode = Strip THEN t.prev ELSE t.first,
         prev |-> cur[i + 1]]
  IN IF mode = Triangles THEN cur
     ELSE FoldLeft(Triangle, [out |-> <<>>, first |-> cur[1], prev |-> cur[2]],
                   [k \in 1..(Len(cur) - 2) |-> k + 1]).out

endCallback ==
  /\ outIndices' = outIndices \o TrianglesOf(curMode, curIndices)
  /\ curIndices' = <<>>
  /\ primitives' = Append(primitives, [mode |-> curMode, indices |-> curIndices])
  /\ UNCHANGED <<vertices, indices, curMode, texCoordsLists, contourQueue, known>>
=============================================================================
