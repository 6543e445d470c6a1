----------------------------- MODULE ModelFinish -----------------------------
(***************************************************************************)
(* The postprocessing of a city model: when the factory is closed,         *)
(* CityModel::finish goes through all objects, hands the appearances of a  *)
(* geometry down to its child geometries and polygons, and tesselates      *)
(* every polygon, which computes the texture coordinates of its themes.    *)
(* The recursion of the finish methods is a stack of calls still to make.  *)
(***************************************************************************)
EXTENDS CityGMLFactory

VARIABLES
  calls,       \* finish calls still to be made, the next one first
  finished,    \* objects with m_finished
  texCoords,   \* m_themeToFrontTexCoordsMap and m_themeToBackTexCoordsMap
  modelThemes  \* m_themes of the city model

finishVars == <<calls, finished, texCoords, modelThemes>>
vars       == <<factoryVars, finishVars>>

(* A call of finish for obj; before it, obj gets the definitions of from.  *)
Calls(objs, from) == [i \in 1..Len(objs) |-> [obj |-> objs[i], from |-> from]]

TextureSlot == {s \in Appearances!Slot : s.kind = "texture"}

FinishInit ==
  /\ Init
  /\ calls = <<>>
  /\ finished = {}
  /\ texCoords = [o \in Object |-> {}]
  /\ modelThemes = {}

(* Without a tesselator the model is delivered as it was parsed.           *)
StartFinish(tesselator) ==
  /\ phase = "closed"
  /\ IF tesselator
     THEN /\ phase' = "finish"
          /\ calls' = Calls(children[0], 0)
          /\ UNCHANGED modelThemes
     ELSE /\ phase' = "unprocessed"
          /\ modelThemes' = themes
          /\ UNCHANGED calls
  /\ UNCHANGED <<objects, path, model, links, polygonManager, geometryManager, appearance,
                 appearanceManager, finished, texCoords>>

NextCall(kind) ==
  /\ phase = "finish"
  /\ calls # <<>>
  /\ KindOf(Head(calls).obj) = kind
  /\ UNCHANGED <<objects, path, model, links, phase, polygonManager, geometryManager, appearance,
                 surfaceData, appearances, targets, definitions, materialDefs, textureDefs,
                 themes, modelThemes>>

(* Its geometries, those of its implicit geometries, its children.         *)
FinishCityObject ==
  /\ NextCall("cityobject")
  /\ LET o == Head(calls).obj IN
       calls' = Calls(geometries[o] \o implicits[o] \o children[o], 0) \o Tail(calls)
  /\ UNCHANGED <<finished, texCoords, slots>>

FinishImplicitGeometry ==
  /\ NextCall("implicit")
  /\ calls' = Calls(geometries[Head(calls).obj], 0) \o Tail(calls)
  /\ UNCHANGED <<finished, texCoords, slots>>

(* addTargetDefinitionsOf, with the slots of the caller as they are now.   *)
Inherited(call) ==
  IF call.from = 0 THEN slots
  ELSE [slots EXCEPT ![call.obj] = Appearances!WithTargetDefinitionsOf(call.obj, call.from)]

FinishGeometryPolygonsOnly ==  \* mutant: the definitions are not handed to child geometries
  /\ NextCall("geometry")
  /\ LET g == Head(calls).obj
         parts == Calls(geometries[g], 0) \o Calls(polygons[g], g)
     IN  calls' = (IF g \in finished THEN <<>> ELSE parts) \o Tail(calls)
  /\ slots' = Inherited(Head(calls))
  /\ finished' = finished \cup {Head(calls).obj}
  /\ UNCHANGED texCoords

(* Only the first call goes on to the child geometries and the polygons.   *)
FinishGeometry ==
  /\ NextCall("geometry")
  /\ LET g == Head(calls).obj
         parts == Calls(geometries[g], g) \o Calls(polygons[g], g)
     IN  calls' = (IF g \in finished THEN <<>> ELSE parts) \o Tail(calls)
  /\ slots' = Inherited(Head(calls))
  /\ finished' = finished \cup {Head(calls).obj}
  /\ UNCHANGED texCoords

FinishPolygonBeforeInheriting ==  \* mutant: finish before addTargetDefinitionsOf
  /\ NextCall("polygon")
  /\ LET p == Head(calls).obj IN
       texCoords' = IF p \in finished THEN texCoords
                    ELSE [texCoords EXCEPT ![p] = {s \in TextureSlot : slots[p][s] # 0}]
  /\ slots' = Inherited(Head(calls))
  /\ finished' = finished \cup {Head(calls).obj}
  /\ calls' = Tail(calls)

(* Only the first call tesselates: texture coordinates for the slots that  *)
(* are taken then.                                                         *)
FinishPolygon ==
  /\ NextCall("polygon")
  /\ slots' = Inherited(Head(calls))
  /\ LET p == Head(calls).obj IN
       texCoords' = IF p \in finished THEN texCoords
                    ELSE [texCoords EXCEPT ![p] = {s \in TextureSlot : slots'[p][s] # 0}]
  /\ finished' = finished \cup {Head(calls).obj}
  /\ calls' = Tail(calls)

(* setThemes, after the model is finished.                                 *)
EndFinish ==
  /\ phase = "finish"
  /\ calls = <<>>
  /\ phase' = "done"
  /\ modelThemes' = themes
  /\ UNCHANGED <<objects, path, model, links, polygonManager, geometryManager, appearance,
                 appearanceManager, calls, finished, texCoords>>

FinishNext ==
  \/ (Parse \/ EndDocument \/ closeFactory) /\ UNCHANGED finishVars
  \/ \E tesselator \in BOOLEAN : StartFinish(tesselator)
  \/ FinishCityObject
  \/ FinishImplicitGeometry
  \/ FinishGeometry
  \/ FinishPolygon
  \/ EndFinish

Spec == FinishInit /\ [][FinishNext]_vars

-----------------------------------------------------------------------------
(* Properties.                                                             *)
Phase == {"parsing", "polygons", "geometries", "appearances", "closed", "finish", "done",
          "unprocessed"}

(* Types: every reference is 0 or the number of an object of the right     *)
(* kind.                                                                   *)
Of(kind) == {o \in 1..Len(objects) : objects[o].kind = kind}

TypeOK ==
  /\ objects \in Seq([kind : Kind, id : Id \cup {NoId}, within : 0..MaxObjects,
                      orientation : {"+", "-"}])
  /\ Len(objects) <= MaxObjects
  /\ path \in Seq(1..Len(objects))
  /\ children \in [0..MaxObjects -> Seq(Of("cityobject"))]
  /\ implicits \in [0..MaxObjects -> Seq(Of("implicit"))]
  /\ geometries \in [0..MaxObjects -> Seq(Of("geometry"))]
  /\ polygons \in [0..MaxObjects -> Seq(Of("polygon"))]
  /\ reversed \subseteq Of("polygon")
  /\ sharedPolygons \in [Id -> Of("polygon") \cup {0}]
  /\ sharedGeometries \in [Id -> Of("geometry") \cup {0}]
  /\ polygonRequests \in Seq([target : Of("geometry"), id : Id])
  /\ geometryRequests \in Seq([target : Of("implicit"), id : Id])
  /\ targets \in [Id -> Of("geometry") \cup Of("polygon") \cup {0}]
  /\ slots \in [Object -> [Appearances!Slot -> 0..Len(definitions)]]
  /\ themes \cup modelThemes \subseteq Theme
  /\ phase \in Phase
  /\ finished \subseteq Of("geometry") \cup Of("polygon")
  /\ texCoords \in [Object -> SUBSET TextureSlot]

LastOf(objs) == IF objs = {} THEN 0 ELSE CHOOSE o \in objs : \A p \in objs : p <= o
Shared(kind, d) == {o \in Of(kind) : objects[o].id = d /\ (kind = "geometry" => KindOf(objects[o].within) = "implicit")}

(* What the links of one object lead to, in the order of the document.     *)
LinkedBy(holder, kind) ==
  LET last == [d \in Id |-> LastOf(Shared(kind, d))]
  IN  FlattenSeq([i \in 1..Len(links) |->
                    IF links[i].target = holder /\ last[links[i].id] # 0
                    THEN <<last[links[i].id]>> ELSE <<>>])

OwnParts(holder, kind) ==
  FlattenSeq([o \in 1..Len(objects) |->
                IF o \in Of(kind) /\ objects[o].within = holder THEN <<o>> ELSE <<>>])

(* "the polygon with id polygonID will be added to geom when finished is   *)
(* called" (polygonmanager.h): when the references are resolved, a         *)
(* geometry has the polygons defined in it and then those it links to,     *)
(* wherever in the document they are defined, the last one where an id is  *)
(* defined twice, and none where it is not.  Likewise implicit geometries. *)
ReferencesResolved ==
  phase \in {"appearances", "closed", "finish", "done", "unprocessed"} =>
    /\ \A g \in Of("geometry") : polygons[g] = OwnParts(g, "polygon") \o LinkedBy(g, "polygon")
    /\ \A i \in Of("implicit") : geometries[i] = OwnParts(i, "geometry") \o LinkedBy(i, "geometry")

(* A polygon lives as long as a geometry, the polygon manager or the       *)
(* parser of its element has it.                                           *)
Alive(p) ==
  \/ \E g \in Of("geometry") : p \in ToSet(polygons[g])
  \/ \E d \in Id : sharedPolygons[d] = p
  \/ p \in ToSet(path)

(* The appearance manager keeps raw pointers to its targets, the polygon   *)
(* manager drops its polygons before they are used: no target that an      *)
(* appearance is assigned to has been destroyed.                           *)
TargetsAlive ==
  \A d \in Id : targets[d] # 0 /\ KindOf(targets[d]) = "polygon" => Alive(targets[d])

(* "Ensures that there is only one texture and material per theme"         *)
(* (appearancetarget.h): a slot that is taken keeps its definition, while  *)
(* appearances are assigned and while they are handed down.                *)
SlotsKept ==
  [][\A o \in Object, s \in Appearances!Slot : slots[o][s] # 0 => slots'[o][s] = slots[o][s]]_vars

FitsSlot(def, s) ==
  LET data == surfaceData[definitions[def].data] IN
  data.kind = s.kind /\ data.front = s.front /\ s.theme \in data.themes

(* What a document says of a target by its id, the first definition of a   *)
(* slot, takes precedence over what is handed down to it by geometries;    *)
(* the target is the last object of that id.                               *)
FirstDefinitionAssigned ==
  phase \in {"closed", "finish", "done", "unprocessed"} =>
    \A d \in Id, s \in Appearances!Slot :
      LET fits   == {i \in 1..Len(definitions) : definitions[i].target = d /\ FitsSlot(i, s)}
          target == LastOf({o \in Of("geometry") \cup Of("polygon") : objects[o].id = d})
      IN  fits # {} /\ target # 0 => slots[target][s] \in fits /\ \A i \in fits : slots[target][s] <= i

(* "broadcasting its appearances to all child polygons" (geometry.h): in a *)
(* finished model everything is finished, and a child geometry or polygon  *)
(* has a definition in every slot in which a geometry that holds it has    *)
(* one, shared polygons from all the geometries they are part of.          *)
AppearancesInherited ==
  phase = "done" =>
    \A g \in Of("geometry") :
      /\ g \in finished
      /\ \A part \in ToSet(geometries[g]) \cup ToSet(polygons[g]) :
           /\ part \in finished
           /\ \A s \in Appearances!Slot : slots[g][s] # 0 => slots[part][s] # 0

(* A polygon has texture coordinates for all themes it has a texture for.  *)
HasTexCoords(p) == \A s \in TextureSlot : slots[p][s] # 0 => s \in texCoords[p]

(* p is part of g, once, and of no other geometry.                         *)
Sole(p, g) ==
  \E i \in DOMAIN polygons[g] :
    /\ polygons[g][i] = p
    /\ \A h \in Of("geometry") : \A j \in DOMAIN polygons[h] : polygons[h][j] = p => h = g /\ j = i

HeldOnce(p) == \E g \in Of("geometry") : Sole(p, g)

(* In a finished model a polygon that is part of one geometry only has     *)
(* texture coordinates for every theme and side it has a texture for, its  *)
(* own and the inherited ones.                                             *)
UnsharedHaveTexCoords ==
  phase = "done" => \A p \in Of("polygon") : HeldOnce(p) => HasTexCoords(p)

(* "the texture coordinates or an empty list if there are no texture       *)
(* coordinates for this theme and side" (polygon.h): the same for all      *)
(* polygons. The code does not satisfy it for polygons that geometries     *)
(* share.                                                                  *)
AllHaveTexCoords == phase = "done" => \A p \in Of("polygon") : HasTexCoords(p)

(* "A gml:OrientableSurface may define a negative orientation"             *)
(* (geometryelementparser.cpp): once the references are resolved, the      *)
(* polygons of a geometry with negative orientation are reversed.          *)
OrientationApplied ==
  phase \in {"appearances", "closed", "finish", "done", "unprocessed"} =>
    \A g \in Of("geometry") : objects[g].orientation = "-" => ToSet(polygons[g]) \subseteq reversed

(* The themes a model lists are those of the appearances on its polygons   *)
(* and geometries, and of those whose targets are missing.                 *)
ThemesListed ==
  phase \in {"done", "unprocessed"} =>
    \A o \in Object, s \in Appearances!Slot : slots[o][s] # 0 => s.theme \in modelThemes
=============================================================================
