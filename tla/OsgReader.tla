------------------------------- MODULE OsgReader -------------------------------
(***************************************************************************)
(* The OpenSceneGraph plugin (ReaderWriterCityGML.cpp): readNode loads a   *)
(* document and makes a scene of it, either a group with a geode for each  *)
(* city object, whose polygons are gathered by their texture, or, with the *)
(* option singleObject, one geode with a drawable for each texture. The    *)
(* functions that recur are the stack calls. The theme is one that was     *)
(* chosen, a texture is its url, and a vertex is the polygon it is of and  *)
(* its number there.                                                       *)
(***************************************************************************)
EXTENDS Integers, Sequences, FiniteSets, SequencesExt

CONSTANTS
  CityModels,  \* what load returns: records of the fields named below
  Url,         \* urls of textures
  NoTexture,   \* nullptr
  Untextured,  \* the names "roof" and "wall", which are keys like urls
  Files,       \* the urls for which there is an image
  Debug,       \* whether NDEBUG is not defined
  MaxReads     \* bound: how often readNode is called

ASSUME ReadsAssumption == MaxReads \in Nat

(* No image is named like a key for what has no texture: the polygons that *)
(* have it would be in the same array. A texture has an image (the schema  *)
(* requires the element imageURI).                                         *)
ASSUME UrlAssumption == Untextured \cap Url = {} /\ {"axaxaxax", ""} \cap Url = {}

(* There are two of these keys, "roof" and "wall".                         *)
ASSUME UntexturedAssumption == IsFiniteSet(Untextured)

(* A city model with objects. Objects, geometries and polygons are the     *)
(* numbers they have in children, polygons and triangles, and the vertices *)
(* of a polygon are numbered from 0: the triangles the tesselator makes    *)
(* have no others.                                                         *)
WellFormed(m) ==
  LET objects == DOMAIN m.children
      geometries == DOMAIN m.polygons
      polygons == DOMAIN m.triangles
  IN /\ m.roots \in Seq(objects)
     /\ m.children \in Seq(Seq(objects))
     /\ m.geometries \in [objects -> Seq(geometries)]
     /\ m.polygons \in Seq(Seq(polygons))
     /\ m.parts \in [geometries -> Seq(geometries)]
     /\ m.triangles \in Seq(Seq(Nat))
     /\ m.size \in [polygons -> Nat]
     /\ \A p \in polygons : Range(m.triangles[p]) \subseteq 0..m.size[p] - 1
     /\ m.texture \in [polygons -> Url \cup {NoTexture}]

ASSUME CityModelsAssumption == \A m \in CityModels : m.roots # <<>> => WellFormed(m)

(* Nothing is in the lists twice.                                          *)
Apart(lists) ==
  \A i, j \in DOMAIN lists : \A k \in DOMAIN lists[i], l \in DOMAIN lists[j] :
    lists[i][k] = lists[j][l] => i = j /\ k = l

(* CityModel and CityObject own their objects and geometries by unique_ptr, *)
(* and Geometry takes each of its parts as one. A polygon may be shared.   *)
ASSUME TreeAssumption ==
  \A m \in CityModels : m.roots # <<>> =>
    Apart(<<m.roots>> \o m.children) /\ Apart(m.geometries \o m.parts)

Switches == {"useMaxLODOnly", "singleObject"}

VARIABLES
  cout,        \* where std::cout and std::cerr write to: "console" or "notify"
  coutsb,      \* where they wrote to when readNode was called
  dataPath,    \* directories readNode has put before the others
  file,        \* whether it was called with the name of a file
  ma,          \* the global map of material arrays
  model,       \* the city model that was loaded
  options,     \* the switches of CityGMLSettings
  textureMap,  \* settings._textureMap
  calls,       \* calls still to make, the next one first
  batch,       \* the drawable that createOsgGeometryFromCityGMLGeometry fills
  texName,     \* the texture its polygons have
  drawables,   \* the drawables of the scene
  visited,     \* the geometries that were drawn, and the objects they are of
  reads,       \* how many calls of readNode were made
  thrown,      \* how many calls an exception left, and how many of them named a file
  phase        \* "idle", "loading" or "building"

streams == <<cout, coutsb, dataPath, file>>
vars == <<streams, ma, model, options, textureMap, calls, batch, texName, drawables,
          visited, reads, thrown, phase>>

NoModel == [roots |-> <<>>]
Nobody  == 0
Sentinel == "axaxaxax"  \* the name of no texture
None     == ""          \* the name for no texture

(* A drawable, or a material array; of: the polygons that were added to it. *)
EmptyDrawable == [object |-> Nobody, vertices |-> <<>>, indices |-> <<>>, texCoords |-> <<>>,
                  of |-> <<>>, texture |-> NoTexture, described |-> Nobody]

HasTriangles(p) == model.triangles[p] # <<>>

VertexList(p) == [k \in 1..model.size[p] |-> <<p, k - 1>>]

(* Indices, vertices and, for a front texture, texture coordinates.        *)
WithPolygon(d, p) ==
  [d EXCEPT !.indices = @ \o [i \in DOMAIN model.triangles[p] |->
                                model.triangles[p][i] + Len(d.vertices)],
            !.vertices = @ \o VertexList(p),
            !.texCoords = @ \o (IF p \in model.frontCoords THEN VertexList(p) ELSE <<>>),
            !.of = Append(@, p)]

-----------------------------------------------------------------------------
(* The levels of detail of an object, of its own geometries only: the one  *)
(* of a child that is higher is assigned the wrong way round.              *)
HighestLod(o) ==
  LET lods == {model.lod[g] : g \in Range(model.geometries[o])}
  IN IF lods = {} THEN 0 ELSE CHOOSE l \in lods : \A k \in lods : k <= l

SelectedFromAny(o, minimum) == model.geometries[o]  \* mutant: the option is not looked at

Selected(o, minimum) ==
  LET gs == model.geometries[o]
      Drawn(g) == "useMaxLODOnly" \in options =>
                    model.lod[g] >= HighestLod(o) /\ model.lod[g] >= minimum
  IN FlattenSeq([i \in DOMAIN gs |-> IF Drawn(gs[i]) THEN <<gs[i]>> ELSE <<>>])

Object(o, minimum) == [kind |-> "object", node |-> o, at |-> minimum, of |-> o]
Geometry(g, o)     == [kind |-> "geometry", node |-> g, at |-> 0, of |-> o]
Polygons(g, o, j)  == [kind |-> "polygons", node |-> g, at |-> j, of |-> o]

Objects(os, minimum) == [i \in DOMAIN os |-> Object(os[i], minimum)]
Geometries(gs, o)    == [i \in DOMAIN gs |-> Geometry(gs[i], o)]

-----------------------------------------------------------------------------
Init ==
  /\ cout = "console"
  /\ coutsb = "console"
  /\ dataPath = <<>>
  /\ file = FALSE
  /\ ma = <<>>
  /\ model = NoModel
  /\ options = {}
  /\ textureMap = {}
  /\ calls = <<>>
  /\ batch = EmptyDrawable
  /\ texName = Sentinel
  /\ drawables = <<>>
  /\ visited = {}
  /\ reads = 0
  /\ thrown = [calls |-> 0, files |-> 0]
  /\ phase = "idle"

ReturnKeepsPath ==  \* mutant: the directory is not taken off again
  /\ cout' = coutsb
  /\ phase' = "idle"
  /\ UNCHANGED <<coutsb, dataPath, file>>

(* Restore cout and cerr, and leave.                                       *)
Return ==
  /\ cout' = coutsb
  /\ dataPath' = IF file THEN Tail(dataPath) ELSE dataPath
  /\ phase' = "idle"
  /\ UNCHANGED <<coutsb, file>>

(* Both forms of readNode, with a file that is found or a stream, up to the *)
(* call of load.                                                           *)
readNode(opts, named) ==
  /\ phase = "idle"
  /\ reads < MaxReads
  /\ reads' = reads + 1
  /\ options' = opts
  /\ textureMap' = {}
  /\ coutsb' = cout
  /\ cout' = "notify"
  /\ file' = named
  /\ dataPath' = IF named THEN <<"directory">> \o dataPath ELSE dataPath
  /\ drawables' = <<>>
  /\ visited' = {}
  /\ phase' = "loading"
  /\ UNCHANGED <<ma, model, calls, batch, texName, thrown>>

(* Without NDEBUG nothing catches what the parser throws.                  *)
LoadThrows ==
  /\ phase = "loading"
  /\ Debug
  /\ thrown' = [calls |-> thrown.calls + 1, files |-> thrown.files + (IF file THEN 1 ELSE 0)]
  /\ phase' = "idle"
  /\ UNCHANGED <<streams, ma, model, options, textureMap, calls, batch, texName, drawables,
                 visited, reads>>

(* The material arrays a single object begins with.                        *)
FirstArrays ==
  [key \in Untextured \cup DOMAIN ma |-> IF key \in Untextured THEN EmptyDrawable ELSE ma[key]]

(* The beginning of readCity. No city model, or one without objects, makes *)
(* no scene.                                                               *)
readCity(m) ==
  /\ phase = "loading"
  /\ model' = m
  /\ IF m.roots = <<>>
     THEN /\ Return
          /\ UNCHANGED <<ma, calls>>
     ELSE /\ phase' = "building"
          /\ ma' = IF "singleObject" \in options THEN FirstArrays ELSE ma
          /\ calls' = Objects(m.roots, 0)
          /\ UNCHANGED streams
  /\ UNCHANGED <<options, textureMap, batch, texName, drawables, visited, reads, thrown>>

NextCall(kind) ==
  /\ phase = "building"
  /\ calls # <<>>
  /\ Head(calls).kind = kind
  /\ UNCHANGED <<streams, model, options, reads, thrown, phase>>

Single == "singleObject" \in options

(* createCityObject: children only if no geometry was drawn, and           *)
(* createSingleCityObject, with all children.                              *)
CreateObject ==
  /\ NextCall("object")
  /\ LET o == Head(calls).node
         gs == Selected(o, Head(calls).at)
     IN calls' = Geometries(gs, o)
                 \o (IF Single \/ gs = <<>> THEN Objects(model.children[o], HighestLod(o))
                     ELSE <<>>)
                 \o Tail(calls)
  /\ UNCHANGED <<ma, textureMap, batch, texName, drawables, visited>>

(* createOsgGeometryFromCityGMLGeometry, createSingleOsgGeometry...        *)
CreateGeometry ==
  /\ NextCall("geometry")
  /\ LET c == Head(calls)
     IN /\ visited' = visited \cup {<<c.of, c.node>>}
        /\ calls' = (IF model.polygons[c.node] # <<>> THEN <<Polygons(c.node, c.of, 1)>>
                     ELSE Geometries(model.parts[c.node], c.of)) \o Tail(calls)
  /\ batch' = EmptyDrawable
  /\ texName' = Sentinel
  /\ UNCHANGED <<ma, textureMap, drawables>>

TextureName(p) == IF model.texture[p] = NoTexture THEN None ELSE model.texture[p]

(* The condition as C++ binds it: a first polygon without texture ends a   *)
(* drawable that is still empty.                                           *)
TextureChanges(p) ==
  \/ texName # Sentinel /\ model.texture[p] # NoTexture /\ model.texture[p] # texName
  \/ model.texture[p] = NoTexture /\ texName # None

(* setTextureOnly: a texture whose file is found is loaded once.           *)
Loads(url) == url \in Files \cup textureMap

FinishedUnchecked(d, o, p) ==  \* mutant: a texture that was not found is used
  [d EXCEPT !.object = o, !.described = p, !.texture = model.texture[p]]

(* A drawable gets the material, the texture and the description of p.     *)
Finished(d, o, p) ==
  [d EXCEPT !.object = o, !.described = p,
            !.texture = IF model.texture[p] # NoTexture /\ Loads(model.texture[p])
                        THEN model.texture[p] ELSE NoTexture]

Loaded(p) ==
  IF model.texture[p] # NoTexture /\ Loads(model.texture[p])
  THEN textureMap \cup {model.texture[p]} ELSE textureMap

NextPolygon ==
  /\ NextCall("polygons")
  /\ ~Single
  /\ Head(calls).at \in DOMAIN model.polygons[Head(calls).node]

Advance == calls' = <<[Head(calls) EXCEPT !.at = @ + 1]>> \o Tail(calls)
ThisPolygon == model.polygons[Head(calls).node][Head(calls).at]

SkipPolygon ==
  /\ NextPolygon
  /\ ~HasTriangles(ThisPolygon)
  /\ Advance
  /\ UNCHANGED <<ma, textureMap, batch, texName, drawables, visited>>

AddPolygonWithoutFlush ==  \* mutant: the texture of the next polygon is not compared
  /\ NextPolygon
  /\ HasTriangles(ThisPolygon)
  /\ batch' = WithPolygon(batch, ThisPolygon)
  /\ texName' = TextureName(ThisPolygon)
  /\ Advance
  /\ UNCHANGED <<ma, visited, drawables, textureMap>>

(* A polygon with another texture starts a new drawable. The one before is *)
(* finished with the appearance of this polygon.                           *)
AddPolygon ==
  /\ NextPolygon
  /\ HasTriangles(ThisPolygon)
  /\ LET p == ThisPolygon
     IN IF TextureChanges(p)
        THEN /\ drawables' = Append(drawables, Finished(batch, Head(calls).of, p))
             /\ textureMap' = Loaded(p)
             /\ batch' = WithPolygon(EmptyDrawable, p)
        ELSE /\ batch' = WithPolygon(batch, p)
             /\ UNCHANGED <<drawables, textureMap>>
  /\ texName' = TextureName(ThisPolygon)
  /\ Advance
  /\ UNCHANGED <<ma, visited>>

EndPolygonsUntilTextureChanges ==  \* mutant: the last drawable is not added
  /\ NextCall("polygons")
  /\ Head(calls).at \notin DOMAIN model.polygons[Head(calls).node]
  /\ calls' = Geometries(model.parts[Head(calls).node], Head(calls).of) \o Tail(calls)
  /\ batch' = EmptyDrawable
  /\ UNCHANGED <<ma, drawables, textureMap, texName, visited>>

(* The last drawable gets the appearance of the last polygon, drawn or not. *)
EndPolygons ==
  /\ NextCall("polygons")
  /\ LET c == Head(calls)
         ps == model.polygons[c.node]
     IN /\ c.at \notin DOMAIN ps
        /\ IF batch.vertices # <<>>
           THEN /\ drawables' = Append(drawables, Finished(batch, c.of, Last(ps)))
                /\ textureMap' = Loaded(Last(ps))
           ELSE UNCHANGED <<drawables, textureMap>>
        /\ calls' = Geometries(model.parts[c.node], c.of) \o Tail(calls)
  /\ batch' = EmptyDrawable
  /\ UNCHANGED <<ma, texName, visited>>

NextSinglePolygon ==
  /\ NextCall("polygons")
  /\ Single
  /\ Head(calls).at \in DOMAIN model.polygons[Head(calls).node]
  /\ UNCHANGED <<batch, texName, drawables, visited>>

(* The key of the array for a polygon: its texture, or the type of its     *)
(* object if there is an array for that.                                   *)
Key(p) == IF model.texture[p] # NoTexture THEN model.texture[p] ELSE model.type[Head(calls).of]

HasKey(p) == model.texture[p] # NoTexture \/ Key(p) \in Untextured

NewArray(url) ==
  LET array == [EmptyDrawable EXCEPT !.texture = IF Loads(url) THEN url ELSE NoTexture]
  IN [key \in DOMAIN ma \cup {url} |-> IF key \in DOMAIN ma THEN ma[key] ELSE array]

SkipSinglePolygon ==
  /\ NextSinglePolygon
  /\ ~HasTriangles(ThisPolygon) \/ ~HasKey(ThisPolygon)
  /\ Advance
  /\ UNCHANGED <<ma, textureMap>>

(* When the texture cannot be loaded the array stays, without texture, and *)
(* the rest of the geometry is left out.                                   *)
MissingTexture ==
  /\ NextSinglePolygon
  /\ LET p == ThisPolygon
     IN /\ HasTriangles(p)
        /\ model.texture[p] # NoTexture
        /\ model.texture[p] \notin DOMAIN ma
        /\ ~Loads(model.texture[p])
        /\ ma' = NewArray(model.texture[p])
  /\ calls' = Tail(calls)
  /\ UNCHANGED textureMap

(* There are texture coordinates in an array only for a texture.           *)
WithSinglePolygon(d, p) ==
  [WithPolygon(d, p) EXCEPT !.texCoords = IF model.texture[p] = NoTexture THEN d.texCoords ELSE @]

AddSinglePolygon ==
  /\ NextSinglePolygon
  /\ LET p == ThisPolygon
         arrays == IF Key(p) \in DOMAIN ma THEN ma ELSE NewArray(Key(p))
     IN /\ HasTriangles(p)
        /\ HasKey(p)
        /\ Key(p) \in DOMAIN ma \/ (model.texture[p] # NoTexture /\ Loads(model.texture[p]))
        /\ ma' = [arrays EXCEPT ![Key(p)] = WithSinglePolygon(arrays[Key(p)], p)]
        /\ textureMap' = IF Key(p) \in DOMAIN ma THEN textureMap ELSE Loaded(p)
  /\ Advance

(* The drawable made of an array: textured if it has coordinates.          *)
Arrayed(key) == [ma[key] EXCEPT !.texture = IF ma[key].texCoords = <<>> THEN NoTexture ELSE @]

GatherKeepsArrays ==  \* mutant: ma.clear() is missing
  /\ phase = "building" /\ Single
  /\ calls = <<>>
  /\ LET keys == SetToSeq({key \in DOMAIN ma : ma[key].vertices # <<>>})
     IN drawables' = [i \in DOMAIN keys |-> Arrayed(keys[i])]
  /\ Return
  /\ UNCHANGED <<ma, model, options, textureMap, calls, batch, texName, visited, reads, thrown>>

(* The end of readCity for a single object: a drawable for every array     *)
(* with vertices.                                                          *)
Gather ==
  /\ phase = "building" /\ Single
  /\ calls = <<>>
  /\ LET keys == SetToSeq({key \in DOMAIN ma : ma[key].vertices # <<>>})
     IN drawables' = [i \in DOMAIN keys |-> Arrayed(keys[i])]
  /\ ma' = <<>>
  /\ Return
  /\ UNCHANGED <<model, options, textureMap, calls, batch, texName, visited, reads, thrown>>

EndRead ==
  /\ phase = "building" /\ ~Single
  /\ calls = <<>>
  /\ Return
  /\ UNCHANGED <<ma, model, options, textureMap, calls, batch, texName, drawables, visited,
                 reads, thrown>>

Next ==
  \/ \E opts \in SUBSET Switches, named \in BOOLEAN : readNode(opts, named)
  \/ LoadThrows
  \/ \E m \in CityModels : readCity(m)
  \/ CreateObject
  \/ CreateGeometry
  \/ SkipPolygon
  \/ AddPolygon
  \/ EndPolygons
  \/ SkipSinglePolygon
  \/ MissingTexture
  \/ AddSinglePolygon
  \/ Gather
  \/ EndRead

Spec == Init /\ [][Next]_vars

-----------------------------------------------------------------------------
Drawables == Range(drawables) \cup Range(ma) \cup {batch}

(* The corners of the triangles of a drawable, and those of its polygons.  *)
Corners(d) == [i \in DOMAIN d.indices |-> d.vertices[d.indices[i] + 1]]
CornersOf(p) == [i \in DOMAIN model.triangles[p] |-> <<p, model.triangles[p][i]>>]

(* Where the geometries have polygons, and where the drawables for an      *)
(* object have one.                                                        *)
Places == UNION {{g} \X DOMAIN model.polygons[g] : g \in DOMAIN model.polygons}

DrawnFor(o, p) ==
  {at \in UNION {{i} \X DOMAIN drawables[i].of : i \in DOMAIN drawables} :
     drawables[at[1]].object = o /\ drawables[at[1]].of[at[2]] = p}

(* Every component is in its set: in particular a drawable only has        *)
(* indices of vertices it has, in createOsgGeometryFromCityGMLGeometry as  *)
(* in the material arrays.                                                 *)
TypeOK ==
  /\ cout \in {"console", "notify"} /\ coutsb \in {"console", "notify"}
  /\ dataPath \in Seq({"directory"}) /\ file \in BOOLEAN
  /\ options \subseteq Switches
  /\ textureMap \subseteq Files
  /\ DOMAIN ma \subseteq Untextured \cup Url
  /\ texName \in Url \cup {Sentinel, None}
  /\ reads \in 0..MaxReads
  /\ phase \in {"idle", "loading", "building"}
  /\ \A d \in Drawables :
       /\ d.texture \in Files \cup {NoTexture}
       /\ Range(d.indices) \subseteq 0..Len(d.vertices) - 1

(* The triangles of a drawable are those of the polygons that were put in  *)
(* it, in their order, although each polygon numbers its vertices from 0.  *)
TrianglesOfPolygons ==
  \A d \in Drawables : Corners(d) = FlattenSeq([j \in DOMAIN d.of |-> CornersOf(d.of[j])])

(* Polygons share a drawable only if they have the same texture: a         *)
(* drawable has one state set.                                             *)
OneTextureEach ==
  \A d \in Drawables : \A i, j \in DOMAIN d.of :
    model.texture[d.of[i]] = model.texture[d.of[j]]

(* A drawable is a series of whole polygons that look alike.               *)
DrawablesOfPolygons == TrianglesOfPolygons /\ OneTextureEach

(* At the end of a call a group has every polygon with triangles as often  *)
(* as the geometries that were drawn have it in their lists, whatever      *)
(* drawables the changes of the texture have begun and ended.              *)
EveryPolygonDrawn ==
  phase = "idle" /\ ~Single /\ model # NoModel =>
    \A o \in DOMAIN model.children : \A p \in DOMAIN model.triangles :
      Cardinality(DrawnFor(o, p)) =
        IF HasTriangles(p)
        THEN Cardinality({at \in Places :
                            <<o, at[1]>> \in visited /\ model.polygons[at[1]][at[2]] = p})
        ELSE 0

(* A call that returns leaves the material arrays empty, cout where it     *)
(* was, and its directory off the path; one that an exception leaves keeps *)
(* its directory. Otherwise the next document would draw the arrays of     *)
(* this one, or find its textures in the directory of this one.            *)
NothingLeft ==
  phase = "idle" =>
    /\ ma = <<>>
    /\ thrown.calls = 0 => cout = "console"
    /\ Len(dataPath) = thrown.files

(* readNode is to "Restore cout/cerr streams": when a call is over they    *)
(* write where they wrote before it, also when an exception of load left   *)
(* it. The code does not satisfy it in the latter case.                    *)
StreamsRestored == phase = "idle" => cout = "console"

(* The option useMaxLODonly is to "Use the highest available LOD for       *)
(* geometry of one object", and getHighestLodForObject to "check for the   *)
(* highest LODs of Children": nothing is drawn of an object when a child   *)
(* has a geometry of a higher level. The code does not satisfy it: the     *)
(* level of the child is assigned the wrong way round, and the object is   *)
(* drawn without the child.                                                *)
HighestLodDrawn ==
  phase = "idle" /\ "useMaxLODOnly" \in options =>
    \A og \in visited : \A c \in Range(model.children[og[1]]) :
      \A h \in Range(model.geometries[c]) : model.lod[h] <= model.lod[og[2]]

(* With storegeomids the description of a drawable is the id of one of its *)
(* polygons. The code does not satisfy it: it takes the polygon that makes *)
(* the next drawable necessary.                                            *)
DescribedByOwn ==
  \A d \in Range(drawables) : d.of # <<>> /\ ~Single => d.described \in Range(d.of)

=============================================================================
