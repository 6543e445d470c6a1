-------------------------- MODULE ModelFinish_proofs --------------------------
(***************************************************************************)
(* Proofs about CityGMLFactory and ModelFinish: definitions of appearances *)
(* are never overwritten, and the targets they are assigned to are alive;  *)
(* the types of all that the factory and its managers keep, the themes of  *)
(* a model, the definitions of appearances that are assigned to the        *)
(* objects they name, their inheritance along the tree of the model, and   *)
(* the references between objects, which are resolved in their order.      *)
(***************************************************************************)
EXTENDS ModelFinish, SequenceLemmas

-----------------------------------------------------------------------------
(* The slots of appearance targets.                                        *)

(* Every object has a value in every slot.                                 *)
SlotsAreMaps == slots = [o \in Object |-> [s \in Appearances!Slot |-> slots[o][s]]]

(* What one step does to the slots: those that are taken stay.             *)
SlotsStay ==
  \A o \in Object, s \in Appearances!Slot : slots[o][s] # 0 => slots'[o][s] = slots[o][s]

(* Slots that are left alone stay.                                         *)
LEMMA SlotsUnchanged ==
  ASSUME SlotsAreMaps, UNCHANGED slots
  PROVE  SlotsAreMaps' /\ SlotsStay
  BY DEF SlotsAreMaps, SlotsStay

(* Changing the slots of one object to v keeps the taken ones if v does.   *)
LEMMA SlotsReplaced ==
  ASSUME SlotsAreMaps,
         NEW x, NEW v,
         v = [s \in Appearances!Slot |-> v[s]],
         \A s \in Appearances!Slot : slots[x][s] # 0 => v[s] = slots[x][s],
         slots' = [slots EXCEPT ![x] = v]
  PROVE  SlotsAreMaps' /\ SlotsStay
<1>1. DOMAIN slots = Object
  BY DEF SlotsAreMaps
<1>2. \A o \in Object : slots'[o] = IF o = x THEN v ELSE slots[o]
  BY <1>1
<1>3. \A o \in Object : slots'[o] = [s \in Appearances!Slot |-> slots'[o][s]]
  <2>1. TAKE o \in Object
  <2>2. CASE o = x
    BY <2>2, <1>2
  <2>3. CASE o # x
    BY <2>3, <1>2 DEF SlotsAreMaps
  <2>4. QED
    BY <2>2, <2>3
<1>4. slots' = [o \in Object |-> slots'[o]]
  BY <1>1
<1>5. SlotsAreMaps'
  BY <1>3, <1>4 DEF SlotsAreMaps, Object, Appearances!Slot
<1>6. SlotsStay
  BY <1>2 DEF SlotsStay
<1>7. QED
  BY <1>5, <1>6

(* AppearanceTarget::addTargetDefinition fills free slots only.            *)
LEMMA AssignKeepsSlots ==
  ASSUME SlotsAreMaps, NEW def, Appearances!Assign(def)
  PROVE  SlotsAreMaps' /\ SlotsStay
<1> DEFINE o == targets[definitions[def].target]
           v == Appearances!WithTargetDefinition(o, def)
<1>1. CASE o = 0
  <2>1. UNCHANGED slots
    BY <1>1 DEF Appearances!Assign
  <2>2. QED
    BY <2>1, SlotsUnchanged
<1>2. CASE o # 0
  <2>1. slots' = [slots EXCEPT ![o] = v]
    BY <1>2 DEF Appearances!Assign
  <2>2. /\ v = [s \in Appearances!Slot |-> v[s]]
        /\ \A s \in Appearances!Slot : slots[o][s] # 0 => v[s] = slots[o][s]
    BY DEF Appearances!WithTargetDefinition
  <2> HIDE DEF o, v
  <2>3. QED
    BY <2>1, <2>2, SlotsReplaced
<1>3. QED
  BY <1>1, <1>2

(* AppearanceTarget::addTargetDefinitionsOf fills free slots only.         *)
LEMMA InheritKeepsSlots ==
  ASSUME SlotsAreMaps, NEW call, slots' = Inherited(call)
  PROVE  SlotsAreMaps' /\ SlotsStay
<1> DEFINE o == call.obj
           v == Appearances!WithTargetDefinitionsOf(o, call.from)
<1>1. CASE call.from = 0
  <2>1. UNCHANGED slots
    BY <1>1 DEF Inherited
  <2>2. QED
    BY <2>1, SlotsUnchanged
<1>2. CASE call.from # 0
  <2>1. slots' = [slots EXCEPT ![o] = v]
    BY <1>2 DEF Inherited
  <2>2. /\ v = [s \in Appearances!Slot |-> v[s]]
        /\ \A s \in Appearances!Slot : slots[o][s] # 0 => v[s] = slots[o][s]
    BY DEF Appearances!WithTargetDefinitionsOf
  <2> HIDE DEF o, v
  <2>3. QED
    BY <2>1, <2>2, SlotsReplaced
<1>3. QED
  BY <1>1, <1>2

(* Parsing leaves the slots alone.                                         *)
LEMMA ParseKeepsSlots ==
  ASSUME Parse
  PROVE  UNCHANGED slots
  BY DEF Parse, StartCityObject, StartImplicitGeometry, StartGeometry, StartPolygon,
         EndCityObject, EndImplicitGeometry, EndGeometry, EndPolygon, EndLonePolygon,
         EndLineString, LinkPolygon, LinkGeometry, Link, StartAppearance, LinkSurfaceData,
         StartSurfaceData, Target, EndSurfaceData, EndAppearance, appearanceManager,
         Appearances!AddAppearanceTarget, Appearances!AddAppearance,
         Appearances!AddTargetDefinition, Appearances!AddToTheme

(* Every step keeps the slots that are taken.                              *)
LEMMA StepKeepsSlots ==
  ASSUME SlotsAreMaps, [FinishNext]_vars
  PROVE  SlotsAreMaps' /\ SlotsStay
<1>1. CASE UNCHANGED vars
  BY <1>1, SlotsUnchanged DEF vars, factoryVars, appearanceManager
<1>2. CASE Parse
  BY <1>2, ParseKeepsSlots, SlotsUnchanged
<1>3. CASE EndDocument \/ FinishPolygons \/ FinishGeometries
  BY <1>3, SlotsUnchanged DEF EndDocument, FinishPolygons, FinishGeometries, appearanceManager
<1>4. CASE AssignAppearances
  <2>1. CASE Appearances!AssignMaterial
    BY <2>1, AssignKeepsSlots DEF Appearances!AssignMaterial
  <2>2. CASE Appearances!AssignTexture
    BY <2>2, AssignKeepsSlots DEF Appearances!AssignTexture
  <2>3. CASE Appearances!Clear
    BY <2>3, SlotsUnchanged DEF Appearances!Clear
  <2>4. QED
    BY <1>4, <2>1, <2>2, <2>3 DEF AssignAppearances
<1>5. CASE \E tesselator \in BOOLEAN : StartFinish(tesselator)
  BY <1>5, SlotsUnchanged DEF StartFinish, appearanceManager
<1>6. CASE FinishCityObject
  BY <1>6, SlotsUnchanged DEF FinishCityObject
<1>11. CASE FinishImplicitGeometry
  BY <1>11, SlotsUnchanged DEF FinishImplicitGeometry
<1>7. CASE FinishGeometry
  BY <1>7, InheritKeepsSlots DEF FinishGeometry
<1>8. CASE FinishPolygon
  BY <1>8, InheritKeepsSlots DEF FinishPolygon
<1>9. CASE EndFinish
  BY <1>9, SlotsUnchanged DEF EndFinish, appearanceManager
<1>10. QED
  BY <1>1, <1>2, <1>3, <1>4, <1>5, <1>6, <1>7, <1>8, <1>9, <1>11 DEF FinishNext, closeFactory

(* "Ensures that there is only one texture and material per theme"         *)
(* (appearancetarget.h): the definition a target has for a theme and side  *)
(* is never replaced, neither by a later one of the document nor by one    *)
(* that a geometry hands down.                                             *)
THEOREM DefinitionsKept == Spec => SlotsKept
<1>1. FinishInit => SlotsAreMaps
  BY DEF FinishInit, Init, Appearances!Empty, SlotsAreMaps, Object
<1>2. SlotsAreMaps /\ [FinishNext]_vars => SlotsAreMaps' /\ SlotsStay
  BY StepKeepsSlots
<1>3. SlotsStay =>
        \A o \in Object, s \in Appearances!Slot : slots[o][s] # 0 => slots'[o][s] = slots[o][s]
  BY DEF SlotsStay
<1>4. QED
  BY <1>1, <1>2, <1>3, PTL DEF Spec, SlotsKept

-----------------------------------------------------------------------------
(* Targets of appearances.                                                 *)

ObjectType ==
  [kind : Kind, id : Id \cup {NoId}, within : Nat, orientation : {"+", "-"}]

(* Objects, the path of open ones, and the polygons of geometries.         *)
PartsOK ==
  /\ objects \in Seq(ObjectType)
  /\ Len(objects) <= MaxObjects
  /\ path \in Seq(1..Len(objects))
  /\ polygons \in [0..MaxObjects -> Seq(Nat)]

(* The managers name objects.                                              *)
ManagersOK ==
  /\ sharedPolygons \in [Id -> Nat]
  /\ polygonRequests \in Seq([target : Nat, id : Id])
  /\ targets \in [Id -> 0..Len(objects)]

(* Nothing is opened inside a polygon, and there is room for the geometry  *)
(* of a polygon that is no member of one.                                  *)
PolygonOnTop ==
  /\ \A i \in 1..(Len(path) - 1) : objects[path[i]].kind # "polygon"
  /\ KindOf(Top) = "polygon" /\ KindOf(Around) # "geometry" => Len(objects) < MaxObjects

(* Every polygon belongs to a geometry or to the parser of its element.    *)
Held(p) ==
  \/ \E g \in 1..Len(objects) : objects[g].kind = "geometry" /\ p \in ToSet(polygons[g])
  \/ p \in ToSet(path)

PolygonsHeld == \A p \in 1..Len(objects) : objects[p].kind = "polygon" => Held(p)

BuildInv == PartsOK /\ ManagersOK /\ PolygonOnTop /\ PolygonsHeld

(* The object on top of the path, and the one around it.                   *)
LEMMA TopAround ==
  ASSUME PartsOK
  PROVE  /\ Len(path) \in Nat /\ Len(objects) \in Nat
         /\ path = <<>> <=> Len(path) = 0
         /\ Top = IF Len(path) = 0 THEN 0 ELSE path[Len(path)]
         /\ Around = IF Len(path) < 2 THEN 0 ELSE path[Len(path) - 1]
         /\ Top \in 0..Len(objects)
         /\ Around \in 0..Len(objects)
<1>1. Len(path) \in Nat /\ Len(objects) \in Nat /\ (path = <<>> <=> Len(path) = 0)
  BY EmptySeq, LenProperties DEF PartsOK
<1>2. \A i \in 1..Len(path) : path[i] \in 1..Len(objects)
  BY <1>1, ElementOfSeq DEF PartsOK
<1>3. Top = IF Len(path) = 0 THEN 0 ELSE path[Len(path)]
  BY <1>1 DEF Top, Last
<1>4. QED
  BY <1>1, <1>2, <1>3 DEF Around


(* What is appended to a sequence joins its elements.                      *)
LEMMA AppendedSet ==
  ASSUME NEW S, NEW s \in Seq(S), NEW e \in S
  PROVE  /\ ToSet(s) \subseteq ToSet(Append(s, e))
         /\ e \in ToSet(Append(s, e))
<1>1. /\ DOMAIN s = 1..Len(s) /\ Len(s) \in Nat
      /\ DOMAIN Append(s, e) = 1..(Len(s) + 1)
  BY AppendProperties, LenProperties
<1>2. /\ \A i \in 1..Len(s) : Append(s, e)[i] = s[i]
      /\ Append(s, e)[Len(s) + 1] = e
  BY AppendProperties
<1>3. QED
  BY <1>1, <1>2 DEF ToSet

(* The front of a path lacks its last element only.                        *)
LEMMA FrontSet ==
  ASSUME NEW S, NEW s \in Seq(S), Len(s) # 0
  PROVE  /\ Front(s) \in Seq(S)
         /\ Len(Front(s)) = Len(s) - 1
         /\ \A i \in 1..(Len(s) - 1) : Front(s)[i] = s[i]
         /\ \A e \in ToSet(s) : e \in ToSet(Front(s)) \/ e = s[Len(s)]
<1>1. Len(s) \in Nat \ {0} /\ DOMAIN s = 1..Len(s) /\ \A i \in 1..Len(s) : s[i] \in S
  BY LenProperties, ElementOfSeq
<1>2. Front(s) = [i \in 1..(Len(s) - 1) |-> s[i]]
  BY <1>1 DEF Front
<1>3. /\ Front(s) \in Seq(S) /\ Len(Front(s)) = Len(s) - 1
      /\ DOMAIN Front(s) = 1..(Len(s) - 1)
  BY <1>1, <1>2
<1>4. QED
  BY <1>1, <1>2, <1>3 DEF ToSet

(* A growing document: objects keep their kinds and geometries their       *)
(* polygons.                                                               *)
Grows ==
  /\ Len(objects) <= Len(objects')
  /\ \A o \in 1..Len(objects) : objects'[o].kind = objects[o].kind
  /\ \A g \in 1..Len(objects) : ToSet(polygons[g]) \subseteq ToSet(polygons'[g])

(* In it a polygon stays with who holds it, unless it leaves the path.     *)
LEMMA HeldStays ==
  ASSUME Len(objects) \in Nat, Len(objects') \in Nat, Grows,
         NEW p, Held(p), p \in ToSet(path) => Held(p)'
  PROVE  Held(p)'
  BY DEF Held, Grows

(* Steps that leave all this alone.                                        *)
LEMMA BuildUnchanged ==
  ASSUME BuildInv, UNCHANGED <<objects, path, polygons, sharedPolygons, polygonRequests, targets>>
  PROVE  BuildInv'
  BY DEF BuildInv, PartsOK, ManagersOK, PolygonOnTop, PolygonsHeld, Held, KindOf, Top, Around

(* Appearance targets name objects.                                        *)
LEMMA TargetAdded ==
  ASSUME ManagersOK, Len(objects) \in Nat, Len(objects') \in Nat, Len(objects) <= Len(objects'),
         NEW d \in Id \cup {NoId}, NEW o \in 0..Len(objects'),
         Appearances!AddAppearanceTarget(d, o)
  PROVE  targets' \in [Id -> 0..Len(objects')]
  BY DEF ManagersOK, Appearances!AddAppearanceTarget

(* A start tag opens an object.                                            *)
LEMMA OpenHolds ==
  ASSUME BuildInv, ManagersOK',
         NEW kind \in Kind, NEW d \in Id \cup {NoId}, NEW orientation \in {"+", "-"},
         Open(kind, d, orientation),
         KindOf(Top) # "polygon",
         kind = "polygon" /\ KindOf(Top) # "geometry" => Len(objects) + 2 <= MaxObjects
  PROVE  BuildInv'
<1> DEFINE new == New(kind, d, Top, orientation)
<1>1. /\ Len(path) \in Nat /\ Len(objects) \in Nat /\ MaxObjects \in Nat
      /\ Top \in 0..Len(objects)
      /\ Top = IF Len(path) = 0 THEN 0 ELSE path[Len(path)]
      /\ path = <<>> <=> Len(path) = 0
  BY TopAround, FactoryAssumption DEF BuildInv
<1>2. new \in ObjectType /\ new.kind = kind
  BY <1>1 DEF New, ObjectType
<1>3. /\ objects' \in Seq(ObjectType)
      /\ Len(objects') = Len(objects) + 1 /\ Len(objects') <= MaxObjects
      /\ \A o \in 1..Len(objects) : objects'[o] = objects[o]
      /\ objects'[Fresh].kind = kind
  <2>1. objects' = Append(objects, new) /\ objects \in Seq(ObjectType)
    BY DEF Open, BuildInv, PartsOK
  <2> HIDE DEF new
  <2>2. QED
    BY <1>1, <1>2, <2>1, AppendProperties DEF Fresh, Open
<1>4. /\ path' \in Seq(1..Len(objects')) /\ Len(path') = Len(path) + 1
      /\ \A i \in 1..Len(path) : path'[i] = path[i] /\ path[i] \in 1..Len(objects)
      /\ path'[Len(path) + 1] = Fresh
      /\ ToSet(path) \subseteq ToSet(path') /\ Fresh \in ToSet(path')
  <2>1. path \in Seq(1..Len(objects)) /\ path' = Append(path, Fresh)
    BY DEF Open, BuildInv, PartsOK
  <2>2. \A i \in 1..Len(path) : path[i] \in 1..Len(objects)
    BY <2>1, ElementOfSeq
  <2>3. path \in Seq(1..Len(objects')) /\ Fresh \in 1..Len(objects')
    BY <1>1, <1>3, <2>1 DEF Fresh
  <2>4. QED
    BY <2>1, <2>2, <2>3, AppendProperties, AppendedSet
<1>5. UNCHANGED polygons
  BY DEF Open, model
<1>6. PartsOK'
  BY <1>3, <1>4, <1>5 DEF BuildInv, PartsOK
<1>7. PolygonOnTop'
  <2>1. \A i \in 1..(Len(path') - 1) : objects'[path'[i]].kind # "polygon"
    <3>1. TAKE i \in 1..(Len(path') - 1)
    <3>2. i \in 1..Len(path) /\ path'[i] = path[i] /\ objects'[path[i]] = objects[path[i]]
      BY <1>1, <1>3, <1>4
    <3>3. objects[path[i]].kind # "polygon"
      BY <1>1, <1>4, <3>2 DEF BuildInv, PolygonOnTop, KindOf
    <3>4. QED
      BY <3>2, <3>3
  <2>2. Top' = Fresh /\ Around' = Top
    BY <1>1, <1>4 DEF Top, Around, Last
  <2>3. KindOf(Top)' = kind /\ KindOf(Around)' = KindOf(Top)
    BY <1>1, <1>3, <2>2 DEF KindOf, Fresh
  <2>4. QED
    BY <1>1, <1>3, <2>1, <2>3 DEF PolygonOnTop
<1>8. PolygonsHeld'
  <2>1. Grows
    BY <1>1, <1>3, <1>5 DEF Grows
  <2>2. ASSUME NEW p \in 1..Len(objects'), objects'[p].kind = "polygon"
        PROVE  Held(p)'
    <3>1. CASE p \in ToSet(path')
      BY <3>1 DEF Held
    <3>2. CASE p \notin ToSet(path')
      <4>1. p \in 1..Len(objects) /\ objects[p].kind = "polygon" /\ p \notin ToSet(path)
        BY <1>1, <1>3, <1>4, <2>2, <3>2 DEF Fresh
      <4>2. Held(p)
        BY <4>1 DEF BuildInv, PolygonsHeld
      <4>3. QED
        BY <1>1, <1>3, <2>1, <4>1, <4>2, HeldStays
    <3>3. QED
      BY <3>1, <3>2
  <2>3. QED
    BY <2>2 DEF PolygonsHeld
<1>9. QED
  BY <1>6, <1>7, <1>8 DEF BuildInv

(* An end tag closes the object on top of the path: if that is a polygon,  *)
(* a geometry has it by then.                                              *)
LEMMA CloseHolds ==
  ASSUME BuildInv, ManagersOK', PartsOK',
         path # <<>>, path' = Front(path), Grows,
         \A p \in 1..Len(objects) : p = Top /\ objects[p].kind = "polygon" => Held(p)',
         \A o \in (Len(objects) + 1)..Len(objects') : objects'[o].kind # "polygon"
  PROVE  BuildInv'
<1>1. /\ Len(path) \in Nat \ {0} /\ Len(objects) \in Nat /\ Len(objects') \in Nat
      /\ Top \in 0..Len(objects) /\ Top = path[Len(path)]
      /\ path \in Seq(1..Len(objects))
  BY TopAround, LenProperties DEF BuildInv, PartsOK
<1>2. /\ Len(path') = Len(path) - 1
      /\ \A i \in 1..(Len(path) - 1) : path'[i] = path[i] /\ path[i] \in 1..Len(objects)
      /\ \A o \in ToSet(path) : o \in ToSet(path') \/ o = Top
  <2>1. \A i \in 1..Len(path) : path[i] \in 1..Len(objects)
    BY <1>1, ElementOfSeq
  <2>2. /\ Len(path') = Len(path) - 1
        /\ \A i \in 1..(Len(path) - 1) : path'[i] = path[i]
        /\ \A o \in ToSet(path) : o \in ToSet(path') \/ o = path[Len(path)]
    BY <1>1, FrontSet
  <2>3. QED
    BY <1>1, <2>1, <2>2
<1>3. PolygonOnTop'
  <2>1. \A i \in 1..Len(path') : objects'[path'[i]].kind # "polygon"
    BY <1>1, <1>2 DEF BuildInv, PolygonOnTop, Grows
  <2>2. KindOf(Top)' # "polygon"
    <3>1. CASE path' = <<>>
      BY <3>1 DEF Top, KindOf
    <3>2. CASE path' # <<>>
      <4>1. Len(path') # 0
        BY <3>2, EmptySeq DEF PartsOK
      <4>2. Top' = path'[Len(path')] /\ Len(path') \in 1..Len(path')
        BY <1>1, <1>2, <3>2, <4>1 DEF Top, Last
      <4>3. QED
        BY <2>1, <4>2 DEF KindOf
    <3>3. QED
      BY <3>1, <3>2
  <2>3. QED
    BY <1>1, <1>2, <2>1, <2>2 DEF PolygonOnTop
<1>4. PolygonsHeld'
  <2>1. ASSUME NEW p \in 1..Len(objects'), objects'[p].kind = "polygon"
        PROVE  Held(p)'
    <3>1. p \in 1..Len(objects) /\ objects[p].kind = "polygon"
      BY <1>1, <2>1 DEF Grows
    <3>2. Held(p)
      BY <3>1 DEF BuildInv, PolygonsHeld
    <3>3. CASE p = Top
      BY <3>1, <3>3 DEF KindOf
    <3>4. CASE p # Top
      <4>1. p \in ToSet(path) => Held(p)'
        BY <1>2, <3>4 DEF Held
      <4>2. QED
        BY <1>1, <3>2, <4>1, HeldStays
    <3>5. QED
      BY <3>3, <3>4
  <2>2. QED
    BY <2>1 DEF PolygonsHeld
<1>5. QED
  BY <1>3, <1>4 DEF BuildInv

(* The polygon on top of the path is added to a geometry.                  *)
LEMMA PolygonAdded ==
  ASSUME PartsOK, NEW g \in 1..MaxObjects, Top # 0, polygons' = AddPart(polygons, g, Top)
  PROVE  /\ polygons' \in [0..MaxObjects -> Seq(Nat)]
         /\ \A h \in 0..MaxObjects : ToSet(polygons[h]) \subseteq ToSet(polygons'[h])
         /\ Top \in ToSet(polygons'[g])
<1>1. /\ polygons \in [0..MaxObjects -> Seq(Nat)] /\ Top \in Nat
      /\ polygons' = [polygons EXCEPT ![g] = Append(@, Top)]
  BY TopAround DEF PartsOK, AddPart
<1>2. /\ g \in 0..MaxObjects
      /\ polygons'[g] = Append(polygons[g], Top) /\ polygons[g] \in Seq(Nat)
      /\ \A h \in 0..MaxObjects : h # g => polygons'[h] = polygons[h]
  BY <1>1, FactoryAssumption
<1> HIDE DEF Top
<1>3. /\ polygons'[g] \in Seq(Nat)
      /\ ToSet(polygons[g]) \subseteq ToSet(polygons'[g]) /\ Top \in ToSet(polygons'[g])
  BY <1>1, <1>2, AppendProperties, AppendedSet
<1>4. QED
  BY <1>1, <1>2, <1>3

(* A polygon that ends as a member of a geometry.                          *)
LEMMA EndPolygonHolds ==
  ASSUME BuildInv, EndPolygon
  PROVE  BuildInv'
<1>1. /\ Len(path) \in Nat /\ Len(objects) \in Nat /\ Len(objects) <= MaxObjects
      /\ MaxObjects \in Nat /\ Top \in 0..Len(objects) /\ Around \in 0..Len(objects)
      /\ path = <<>> <=> Len(path) = 0
      /\ UNCHANGED objects
  BY TopAround, FactoryAssumption DEF BuildInv, PartsOK, EndPolygon
<1>2. /\ KindOf(Top) = "polygon" /\ KindOf(Around) = "geometry"
      /\ path' = Front(path) /\ polygons' = AddPart(polygons, Around, Top)
  BY DEF EndPolygon, Close
<1>3. Top # 0 /\ Around # 0 /\ path # <<>>
  BY <1>2 DEF KindOf, Top
<1>4. Around \in 1..MaxObjects
  BY <1>1, <1>3
<1>5. /\ polygons' \in [0..MaxObjects -> Seq(Nat)]
      /\ \A h \in 0..MaxObjects : ToSet(polygons[h]) \subseteq ToSet(polygons'[h])
      /\ Top \in ToSet(polygons'[Around])
  BY <1>2, <1>3, <1>4, PolygonAdded DEF BuildInv
<1>6. path' \in Seq(1..Len(objects'))
  BY <1>1, <1>2, <1>3, FrontSet DEF BuildInv, PartsOK
<1>7. PartsOK'
  BY <1>1, <1>5, <1>6 DEF BuildInv, PartsOK
<1>8. ManagersOK'
  BY <1>1 DEF BuildInv, ManagersOK, EndPolygon, Close, polygonManager, appearanceManager
<1>9. Grows
  BY <1>1, <1>5 DEF Grows
<1>10. \A p \in 1..Len(objects) : p = Top /\ objects[p].kind = "polygon" => Held(p)'
  <2>1. Around \in 1..Len(objects) /\ objects[Around].kind = "geometry"
    BY <1>1, <1>2, <1>3 DEF KindOf
  <2> HIDE DEF Top, Around
  <2>2. QED
    BY <1>1, <1>5, <2>1 DEF Held
<1>11. \A o \in (Len(objects) + 1)..Len(objects') : objects'[o].kind # "polygon"
  BY <1>1
<1>12. QED
  BY <1>2, <1>3, <1>7, <1>8, <1>9, <1>10, <1>11, CloseHolds

(* A polygon that ends without a geometry around it gets one.              *)
LEMMA EndLonePolygonHolds ==
  ASSUME BuildInv, NEW d \in Id \cup {NoId}, EndLonePolygon(d)
  PROVE  BuildInv'
<1>1. /\ Len(path) \in Nat /\ Len(objects) \in Nat
      /\ MaxObjects \in Nat /\ Top \in 0..Len(objects) /\ Around \in 0..Len(objects)
      /\ path = <<>> <=> Len(path) = 0
      /\ objects \in Seq(ObjectType)
  BY TopAround, FactoryAssumption DEF BuildInv, PartsOK
<1>2. /\ KindOf(Top) = "polygon" /\ KindOf(Around) # "geometry"
      /\ path' = Front(path) /\ polygons' = AddPart(polygons, Fresh, Top)
  BY DEF EndLonePolygon, Close
<1>3. Top # 0 /\ path # <<>> /\ Len(objects) < MaxObjects
  BY <1>2 DEF KindOf, Top, BuildInv, PolygonOnTop
<1>4. Fresh \in 1..MaxObjects
  BY <1>1, <1>3 DEF Fresh
<1>5. /\ polygons' \in [0..MaxObjects -> Seq(Nat)]
      /\ \A h \in 0..MaxObjects : ToSet(polygons[h]) \subseteq ToSet(polygons'[h])
      /\ Top \in ToSet(polygons'[Fresh])
  BY <1>2, <1>3, <1>4, PolygonAdded DEF BuildInv
<1>6. /\ objects' \in Seq(ObjectType) /\ Len(objects') = Len(objects) + 1
      /\ \A o \in 1..Len(objects) : objects'[o].kind = objects[o].kind
      /\ objects'[Fresh].kind = "geometry"
  <2> DEFINE inside == [objects EXCEPT ![Top].within = Fresh]
             new    == New("geometry", d, Around, "+")
  <2>1. Top \in 1..Len(objects) /\ objects[Top] \in ObjectType
    BY <1>1, <1>3, ElementOfSeq
  <2>2. /\ inside \in Seq(ObjectType) /\ Len(inside) = Len(objects)
        /\ \A o \in 1..Len(objects) : inside[o].kind = objects[o].kind
    <3>1. [objects[Top] EXCEPT !.within = Fresh] \in ObjectType
          /\ [objects[Top] EXCEPT !.within = Fresh].kind = objects[Top].kind
      BY <1>1, <2>1 DEF ObjectType, Fresh
    <3> HIDE DEF Top
    <3>2. inside = [objects EXCEPT ![Top] = [objects[Top] EXCEPT !.within = Fresh]]
      OBVIOUS
    <3>3. QED
      BY <1>1, <2>1, <3>1, <3>2, ExceptSeq
  <2>3. new \in ObjectType /\ new.kind = "geometry"
    BY <1>1 DEF New, ObjectType, Kind
  <2>4. objects' = Append(inside, new)
    BY DEF EndLonePolygon
  <2> HIDE DEF inside, new
  <2>5. QED
    BY <1>1, <2>2, <2>3, <2>4, AppendProperties DEF Fresh
<1>7. path' \in Seq(1..Len(objects'))
  <2>1. path' \in Seq(1..Len(objects))
    BY <1>1, <1>2, <1>3, FrontSet DEF BuildInv, PartsOK
  <2>2. QED
    BY <1>1, <1>6, <2>1
<1>8. PartsOK'
  BY <1>1, <1>3, <1>5, <1>6, <1>7 DEF PartsOK
<1>9. ManagersOK'
  <2>1. targets' \in [Id -> 0..Len(objects')]
    <3>1. Fresh \in 0..Len(objects') /\ Len(objects') \in Nat /\ Len(objects) <= Len(objects')
      BY <1>1, <1>6 DEF Fresh
    <3>2. ManagersOK /\ Appearances!AddAppearanceTarget(d, Fresh)
      BY DEF BuildInv, EndLonePolygon
    <3>3. QED
      BY <1>1, <3>1, <3>2, TargetAdded
  <2>2. QED
    BY <2>1 DEF BuildInv, ManagersOK, EndLonePolygon, Close, polygonManager
<1>10. Grows
  BY <1>1, <1>3, <1>5, <1>6 DEF Grows
<1>11. \A p \in 1..Len(objects) : p = Top /\ objects[p].kind = "polygon" => Held(p)'
  <2>1. Fresh \in 1..Len(objects')
    BY <1>1, <1>6 DEF Fresh
  <2>2. QED
    BY <1>5, <1>6, <2>1 DEF Held
<1>12. \A o \in (Len(objects) + 1)..Len(objects') : objects'[o].kind # "polygon"
  BY <1>1, <1>6 DEF Fresh
<1>13. QED
  BY <1>2, <1>3, <1>8, <1>9, <1>10, <1>11, <1>12, CloseHolds

(* A line string ends: a geometry more.                                    *)
LEMMA EndLineStringHolds ==
  ASSUME BuildInv, NEW d \in Id \cup {NoId}, EndLineString(d)
  PROVE  BuildInv'
<1> DEFINE new == New("geometry", d, Top, "+")
<1>1. /\ Len(path) \in Nat /\ Len(objects) \in Nat
      /\ MaxObjects \in Nat /\ Top \in 0..Len(objects) /\ Around \in 0..Len(objects)
      /\ objects \in Seq(ObjectType)
      /\ Top = IF Len(path) = 0 THEN 0 ELSE path[Len(path)]
  BY TopAround, FactoryAssumption DEF BuildInv, PartsOK
<1>2. UNCHANGED <<path, polygons>> /\ objects' = Append(objects, new)
  BY DEF EndLineString
<1>3. new \in ObjectType /\ new.kind = "geometry"
  BY <1>1 DEF New, ObjectType, Kind
<1> HIDE DEF new
<1>4. /\ objects' \in Seq(ObjectType) /\ Len(objects') = Len(objects) + 1
      /\ \A o \in 1..Len(objects) : objects'[o] = objects[o]
      /\ objects'[Fresh].kind = "geometry"
  BY <1>1, <1>2, <1>3, AppendProperties DEF Fresh
<1>5. /\ path \in Seq(1..Len(objects)) /\ path' \in Seq(1..Len(objects'))
      /\ \A i \in 1..Len(path) : path[i] \in 1..Len(objects)
  <2>1. path \in Seq(1..Len(objects))
    BY DEF BuildInv, PartsOK
  <2>2. \A i \in 1..Len(path) : path[i] \in 1..Len(objects)
    BY <2>1, ElementOfSeq
  <2>3. QED
    BY <1>1, <1>2, <1>4, <2>1, <2>2
<1>6. PartsOK'
  BY <1>1, <1>2, <1>4, <1>5 DEF BuildInv, PartsOK, EndLineString
<1>7. ManagersOK'
  <2>1. targets' \in [Id -> 0..Len(objects')]
    <3>1. Fresh \in 0..Len(objects') /\ Len(objects') \in Nat /\ Len(objects) <= Len(objects')
      BY <1>1, <1>4 DEF Fresh
    <3>2. ManagersOK /\ Appearances!AddAppearanceTarget(d, Fresh)
      BY DEF BuildInv, EndLineString
    <3>3. QED
      BY <1>1, <3>1, <3>2, TargetAdded
  <2>2. QED
    BY <2>1 DEF BuildInv, ManagersOK, EndLineString, polygonManager
<1>8. PolygonOnTop'
  <2>1. \A i \in 1..(Len(path') - 1) : objects'[path'[i]].kind # "polygon"
    BY <1>1, <1>2, <1>4, <1>5 DEF BuildInv, PolygonOnTop
  <2>2. KindOf(Top)' # "polygon"
    <3>1. Top' = Top
      BY <1>2 DEF Top
    <3>2. KindOf(Top) # "polygon" /\ Top \in 0..Len(objects)
      BY <1>1 DEF EndLineString
    <3> HIDE DEF Top
    <3>3. Top # 0 => objects'[Top] = objects[Top]
      BY <1>1, <1>4, <3>2
    <3>4. QED
      BY <3>1, <3>2, <3>3 DEF KindOf
  <2>3. QED
    BY <2>1, <2>2 DEF PolygonOnTop
<1>9. PolygonsHeld'
  <2>1. Grows /\ Len(objects') \in Nat
    BY <1>1, <1>2, <1>4 DEF Grows
  <2>2. ASSUME NEW p \in 1..Len(objects'), objects'[p].kind = "polygon"
        PROVE  Held(p)'
    <3>1. p \in 1..Len(objects) /\ objects[p].kind = "polygon"
      BY <1>1, <1>4, <2>2 DEF Fresh
    <3>2. Held(p)
      BY <3>1 DEF BuildInv, PolygonsHeld
    <3>3. p \in ToSet(path) => Held(p)'
      BY <1>2 DEF Held
    <3>4. QED
      BY <1>1, <2>1, <3>2, <3>3, HeldStays
  <2>3. QED
    BY <2>2 DEF PolygonsHeld
<1>10. QED
  BY <1>6, <1>7, <1>8, <1>9 DEF BuildInv

(* Links are collected for the end of the document.                        *)
LEMMA LinkPolygonHolds ==
  ASSUME BuildInv, NEW d \in Id, LinkPolygon(d)
  PROVE  BuildInv'
<1>1. UNCHANGED <<objects, path, polygons, sharedPolygons, targets>>
  BY DEF LinkPolygon, Link, Polygons!Request, appearanceManager
<1>2. polygonRequests' \in Seq([target : Nat, id : Id])
  <2> DEFINE request == [target |-> Top, id |-> d]
  <2>1. request \in [target : Nat, id : Id]
    BY TopAround DEF BuildInv
  <2>2. /\ polygonRequests \in Seq([target : Nat, id : Id])
        /\ polygonRequests' = Append(polygonRequests, request)
    BY DEF LinkPolygon, Polygons!Request, BuildInv, ManagersOK
  <2> HIDE DEF request
  <2>3. QED
    BY <2>1, <2>2, AppendProperties
<1>3. QED
  BY <1>1, <1>2 DEF BuildInv, PartsOK, ManagersOK, PolygonOnTop, PolygonsHeld, Held, KindOf, Top,
     Around

(* The start tags.                                                         *)
LEMMA StartHolds ==
  ASSUME BuildInv,
         \/ StartCityObject
         \/ StartImplicitGeometry
         \/ \E d \in Id \cup {NoId}, s \in Orientation : StartGeometry(d, s)
         \/ \E d \in Id \cup {NoId} : StartPolygon(d)
  PROVE  BuildInv'
<1>1. Len(objects) \in Nat
  BY TopAround DEF BuildInv
<1>2. ASSUME NEW kind, NEW d \in Id \cup {NoId}, NEW orientation, Open(kind, d, orientation)
      PROVE  Len(objects') = Len(objects) + 1
  BY <1>2, AppendProperties, <1>1 DEF Open, BuildInv, PartsOK
<1>3. CASE StartCityObject
  <2>1. ManagersOK'
    BY <1>1, <1>2, <1>3 DEF StartCityObject, BuildInv, ManagersOK, polygonManager, appearanceManager
  <2>2. QED
    BY <1>3, <2>1, OpenHolds DEF StartCityObject, Kind
<1>4. CASE StartImplicitGeometry
  <2>1. ManagersOK'
    BY <1>1, <1>2, <1>4 DEF StartImplicitGeometry, BuildInv, ManagersOK, polygonManager,
       appearanceManager
  <2>2. QED
    BY <1>4, <2>1, OpenHolds DEF StartImplicitGeometry, Kind
<1>5. ASSUME NEW d \in Id \cup {NoId}, NEW s \in Orientation, StartGeometry(d, s)
      PROVE  BuildInv'
  <2>1. Open("geometry", d, s) /\ KindOf(Top) # "polygon" /\ "geometry" \in Kind
        /\ s \in {"+", "-"}
    BY <1>5, FactoryAssumption DEF StartGeometry, Kind
  <2>2. targets' \in [Id -> 0..Len(objects')]
    <3>1. Fresh \in 0..Len(objects') /\ Len(objects') \in Nat /\ Len(objects) <= Len(objects')
      BY <1>1, <1>2, <2>1 DEF Fresh
    <3>2. ManagersOK /\ Appearances!AddAppearanceTarget(d, Fresh)
      BY <1>5 DEF BuildInv, StartGeometry
    <3>3. QED
      BY <1>1, <3>1, <3>2, TargetAdded
  <2>3. ManagersOK'
    BY <1>5, <2>2 DEF BuildInv, ManagersOK, StartGeometry, polygonManager
  <2>4. QED
    BY <2>1, <2>3, OpenHolds
<1>6. ASSUME NEW d \in Id \cup {NoId}, StartPolygon(d)
      PROVE  BuildInv'
  <2>1. Open("polygon", d, "+") /\ KindOf(Top) # "polygon" /\ "polygon" \in Kind
        /\ (KindOf(Top) # "geometry" => Len(objects) + 2 <= MaxObjects)
    BY <1>6 DEF StartPolygon, Kind
  <2>2. targets' \in [Id -> 0..Len(objects')]
    <3>1. Fresh \in 0..Len(objects') /\ Len(objects') \in Nat /\ Len(objects) <= Len(objects')
      BY <1>1, <1>2, <2>1 DEF Fresh
    <3>2. ManagersOK /\ Appearances!AddAppearanceTarget(d, Fresh)
      BY <1>6 DEF BuildInv, StartPolygon
    <3>3. QED
      BY <1>1, <3>1, <3>2, TargetAdded
  <2>3. ManagersOK'
    BY <1>1, <1>6, <2>2 DEF BuildInv, ManagersOK, StartPolygon, Polygons!Add, Fresh
  <2>4. QED
    BY <2>1, <2>3, OpenHolds
<1>7. QED
  BY <1>3, <1>4, <1>5, <1>6

(* The other end tags of objects, which hold no polygon.                   *)
LEMMA EndHolds ==
  ASSUME BuildInv, EndCityObject \/ EndImplicitGeometry \/ EndGeometry
  PROVE  BuildInv'
<1>1. /\ KindOf(Top) # "polygon" /\ KindOf(Top) # "model" /\ path' = Front(path)
      /\ UNCHANGED <<objects, polygons, sharedPolygons, polygonRequests, targets>>
  BY DEF EndCityObject, EndImplicitGeometry, EndGeometry, Close, polygonManager, appearanceManager
<1>2. path # <<>> /\ Len(objects) \in Nat
  BY <1>1, TopAround DEF KindOf, Top, BuildInv
<1>3. path \in Seq(1..Len(objects)) /\ Len(path) # 0
  BY <1>2, TopAround DEF BuildInv, PartsOK
<1>4. PartsOK'
  BY <1>1, <1>3, FrontSet DEF BuildInv, PartsOK
<1>5. ManagersOK'
  BY <1>1 DEF BuildInv, ManagersOK
<1>6. Grows
  BY <1>1, <1>2 DEF Grows
<1>7. \A p \in 1..Len(objects) : p = Top /\ objects[p].kind = "polygon" => Held(p)'
  BY <1>1 DEF KindOf
<1>8. \A o \in (Len(objects) + 1)..Len(objects') : objects'[o].kind # "polygon"
  BY <1>1, <1>2
<1>9. QED
  BY <1>1, <1>2, <1>4, <1>5, <1>6, <1>7, <1>8, CloseHolds

(* When the references are resolved polygons join geometries; then the     *)
(* polygon manager drops its own.                                          *)
LEMMA FinishPolygonsHolds ==
  ASSUME BuildInv, FinishPolygons
  PROVE  BuildInv'
<1>1. /\ Len(objects) \in Nat /\ UNCHANGED <<objects, path, targets>>
  BY TopAround DEF BuildInv, FinishPolygons, appearanceManager
<1>2. CASE Polygons!Clear
  BY <1>1, <1>2 DEF BuildInv, PartsOK, ManagersOK, PolygonOnTop, PolygonsHeld, Held, KindOf, Top,
     Around, Polygons!Clear
<1>3. CASE Polygons!ResolveNext
  <2> DEFINE r == Head(polygonRequests)
             p == sharedPolygons[r.id]
  <2>1. /\ r.id \in Id /\ p \in Nat
        /\ polygonRequests' \in Seq([target : Nat, id : Id])
        /\ UNCHANGED sharedPolygons
    <3>1. /\ polygonRequests # <<>> /\ polygonRequests' = Tail(polygonRequests)
          /\ UNCHANGED sharedPolygons
      BY <1>3 DEF Polygons!ResolveNext
    <3>2. /\ polygonRequests \in Seq([target : Nat, id : Id])
          /\ sharedPolygons \in [Id -> Nat]
      BY DEF BuildInv, ManagersOK
    <3>3. /\ r \in [target : Nat, id : Id]
          /\ Tail(polygonRequests) \in Seq([target : Nat, id : Id])
      BY <3>1, <3>2, HeadTailProperties
    <3> HIDE DEF r
    <3>4. QED
      BY <3>1, <3>2, <3>3
  <2>2. /\ polygons \in [0..MaxObjects -> Seq(Nat)]
        /\ polygons' = polygons \/ polygons' = [polygons EXCEPT ![r.target] = Append(@, p)]
    BY <1>3 DEF Polygons!ResolveNext, BuildInv, PartsOK
  <2> HIDE DEF r, p
  <2>3. /\ polygons' \in [0..MaxObjects -> Seq(Nat)]
        /\ \A g \in 0..MaxObjects : ToSet(polygons[g]) \subseteq ToSet(polygons'[g])
    <3>1. \A g \in 0..MaxObjects :
            /\ polygons[g] \in Seq(Nat)
            /\ polygons'[g] = polygons[g] \/ polygons'[g] = Append(polygons[g], p)
      BY <2>2
    <3>2. \A g \in 0..MaxObjects :
            /\ polygons'[g] \in Seq(Nat)
            /\ ToSet(polygons[g]) \subseteq ToSet(polygons'[g])
      <4>1. TAKE g \in 0..MaxObjects
      <4>2. polygons[g] \in Seq(Nat)
        BY <3>1
      <4>3. Append(polygons[g], p) \in Seq(Nat)
            /\ ToSet(polygons[g]) \subseteq ToSet(Append(polygons[g], p))
        BY <2>1, <4>2, AppendProperties, AppendedSet
      <4>4. QED
        BY <3>1, <4>3
    <3>3. QED
      BY <2>2, <3>2
  <2>4. Grows
    BY <1>1, <2>3, FactoryAssumption DEF BuildInv, PartsOK, Grows
  <2>5. PolygonsHeld'
    <3>1. ASSUME NEW o \in 1..Len(objects'), objects'[o].kind = "polygon"
          PROVE  Held(o)'
      <4>1. Held(o)
        BY <1>1, <3>1 DEF BuildInv, PolygonsHeld
      <4>2. o \in ToSet(path) => Held(o)'
        BY <1>1 DEF Held
      <4>3. QED
        BY <1>1, <2>4, <4>1, <4>2, HeldStays
    <3>2. QED
      BY <3>1 DEF PolygonsHeld
  <2>6. QED
    BY <1>1, <2>1, <2>3, <2>5 DEF BuildInv, PartsOK, ManagersOK, PolygonOnTop, KindOf, Top, Around
<1>4. QED
  BY <1>2, <1>3 DEF FinishPolygons

(* Every step keeps the invariant.                                         *)
LEMMA StepKeepsBuild ==
  ASSUME BuildInv, [FinishNext]_vars
  PROVE  BuildInv'
<1>1. CASE UNCHANGED vars
  BY <1>1, BuildUnchanged DEF vars, factoryVars, model, polygonManager, appearanceManager
<1>2. CASE Parse
  <2>1. CASE \/ StartCityObject
             \/ StartImplicitGeometry
             \/ \E d \in Id \cup {NoId}, s \in Orientation : StartGeometry(d, s)
             \/ \E d \in Id \cup {NoId} : StartPolygon(d)
    BY <2>1, StartHolds
  <2>2. CASE EndCityObject \/ EndImplicitGeometry \/ EndGeometry
    BY <2>2, EndHolds
  <2>3. CASE EndPolygon
    BY <2>3, EndPolygonHolds
  <2>4. CASE \E d \in Id \cup {NoId} : EndLonePolygon(d)
    BY <2>4, EndLonePolygonHolds
  <2>5. CASE \E d \in Id \cup {NoId} : EndLineString(d)
    BY <2>5, EndLineStringHolds
  <2>6. CASE \E d \in Id : LinkPolygon(d)
    BY <2>6, LinkPolygonHolds
  <2>7. CASE \E d \in Id : LinkGeometry(d)
    BY <2>7, BuildUnchanged DEF LinkGeometry, Link, polygonManager, appearanceManager
  <2>8. CASE \/ StartAppearance
             \/ \E d \in DataId : LinkSurfaceData(d)
             \/ \E k \in {"material", "texture"}, d \in DataId \cup {NoId}, front \in Side :
                  StartSurfaceData(k, d, front)
             \/ \E d \in Id : Target(d)
             \/ EndSurfaceData
             \/ \E t \in Theme : EndAppearance(t)
    <3>1. InAppearance /\ UNCHANGED targets
      BY <2>8 DEF StartAppearance, LinkSurfaceData, StartSurfaceData, Target, EndSurfaceData,
         EndAppearance, appearanceManager, Appearances!AddAppearance,
         Appearances!AddTargetDefinition, Appearances!AddToTheme
    <3>2. QED
      BY <3>1, BuildUnchanged DEF InAppearance, model, polygonManager
  <2>9. QED
    BY <1>2, <2>1, <2>2, <2>3, <2>4, <2>5, <2>6, <2>7, <2>8 DEF Parse
<1>3. CASE EndDocument
  BY <1>3, BuildUnchanged DEF EndDocument, model, polygonManager, appearanceManager
<1>4. CASE FinishPolygons
  BY <1>4, FinishPolygonsHolds
<1>5. CASE FinishGeometries
  BY <1>5, BuildUnchanged DEF FinishGeometries, polygonManager, appearanceManager
<1>6. CASE AssignAppearances
  <2>1. UNCHANGED <<objects, path, polygons, sharedPolygons, polygonRequests>>
    BY <1>6 DEF AssignAppearances, model, polygonManager
  <2>2. CASE Appearances!Clear
    <3>1. targets' \in [Id -> 0..Len(objects')]
      BY <2>1, <2>2, TopAround DEF Appearances!Clear, BuildInv
    <3>2. QED
      BY <2>1, <3>1 DEF BuildInv, PartsOK, ManagersOK, PolygonOnTop, PolygonsHeld, Held, KindOf,
         Top, Around
  <2>3. CASE Appearances!AssignMaterial \/ Appearances!AssignTexture
    BY <2>1, <2>3, BuildUnchanged DEF Appearances!AssignMaterial, Appearances!AssignTexture
  <2>4. QED
    BY <1>6, <2>2, <2>3 DEF AssignAppearances
<1>7. CASE \E tesselator \in BOOLEAN : StartFinish(tesselator)
  BY <1>7, BuildUnchanged DEF StartFinish, model, polygonManager, appearanceManager
<1>8. CASE FinishCityObject \/ FinishImplicitGeometry \/ FinishGeometry \/ FinishPolygon
  <2>1. \E kind : NextCall(kind)
    BY <1>8 DEF FinishCityObject, FinishImplicitGeometry, FinishGeometry, FinishPolygon
  <2>2. QED
    BY <2>1, BuildUnchanged DEF NextCall, model, polygonManager
<1>9. CASE EndFinish
  BY <1>9, BuildUnchanged DEF EndFinish, model, polygonManager, appearanceManager
<1>10. QED
  BY <1>1, <1>2, <1>3, <1>4, <1>5, <1>6, <1>7, <1>8, <1>9 DEF FinishNext, closeFactory

(* A document begins with nothing.                                         *)
LEMMA BuildBegins == FinishInit => BuildInv
<1> SUFFICES ASSUME FinishInit PROVE BuildInv
  OBVIOUS
<1>1. /\ objects = <<>> /\ path = <<>>
      /\ polygons = [o \in 0..MaxObjects |-> <<>>]
      /\ sharedPolygons = [d \in Id |-> 0] /\ polygonRequests = <<>>
      /\ targets = [d \in Id |-> 0]
      /\ MaxObjects \in Nat
  BY FactoryAssumption DEF FinishInit, Init, Appearances!Empty
<1>2. Len(objects) = 0 /\ Len(path) = 0
  BY <1>1
<1>3. PartsOK /\ ManagersOK
  BY <1>1, <1>2 DEF PartsOK, ManagersOK
<1>4. PolygonOnTop /\ PolygonsHeld
  BY <1>1, <1>2 DEF PolygonOnTop, PolygonsHeld, KindOf, Top
<1>5. QED
  BY <1>3, <1>4 DEF BuildInv

(* The appearance manager keeps raw pointers to its targets, the polygon   *)
(* manager drops its polygons before the appearances are assigned: no      *)
(* target has been destroyed by then, because every polygon was handed to  *)
(* a geometry at its end tag.                                              *)
THEOREM TargetsStayAlive == Spec => []TargetsAlive
<1>1. BuildInv => TargetsAlive
  <2>1. SUFFICES ASSUME BuildInv, NEW d \in Id,
                        targets[d] # 0, KindOf(targets[d]) = "polygon"
                 PROVE  Alive(targets[d])
    BY DEF TargetsAlive
  <2>2. targets[d] \in 1..Len(objects) /\ objects[targets[d]].kind = "polygon"
    BY <2>1, TopAround DEF BuildInv, ManagersOK, KindOf
  <2>3. Held(targets[d])
    BY <2>1, <2>2 DEF BuildInv, PolygonsHeld
  <2>4. QED
    BY <2>3 DEF Held, Alive, Of
<1>2. BuildInv /\ [FinishNext]_vars => BuildInv'
  BY StepKeepsBuild
<1>3. QED
  BY <1>1, <1>2, BuildBegins, PTL DEF Spec


-----------------------------------------------------------------------------
(* Types. Objects are of the kinds their holders expect.                   *)

FullObjectType ==
  [kind : Kind, id : Id \cup {NoId}, within : 0..MaxObjects, orientation : {"+", "-"}]

PartsTyped ==
  /\ objects \in Seq(FullObjectType)
  /\ children \in [0..MaxObjects -> Seq(Of("cityobject"))]
  /\ implicits \in [0..MaxObjects -> Seq(Of("implicit"))]
  /\ geometries \in [0..MaxObjects -> Seq(Of("geometry"))]
  /\ polygons \in [0..MaxObjects -> Seq(Of("polygon"))]
  /\ reversed \subseteq Of("polygon")

ManagersTyped ==
  /\ sharedPolygons \in [Id -> Of("polygon") \cup {0}]
  /\ sharedGeometries \in [Id -> Of("geometry") \cup {0}]
  /\ polygonRequests \in Seq([target : Of("geometry"), id : Id])
  /\ geometryRequests \in Seq([target : Of("implicit"), id : Id])
  /\ targets \in [Id -> Of("geometry") \cup Of("polygon") \cup {0}]

Data == [kind : {"material", "texture"}, front : Side, themes : SUBSET Theme]

(* Surface data, definitions and those that wait, by their numbers.        *)
AppearancesTyped ==
  /\ surfaceData \in Seq(Data)
  /\ appearances \in [DataId -> Nat]
  /\ appearance \in [open : BOOLEAN, members : SUBSET Nat, current : 0..Len(surfaceData)]
  /\ definitions \in Seq([target : Id, data : 1..Len(surfaceData)])
  /\ materialDefs \in Seq(1..Len(definitions))
  /\ textureDefs \in Seq(1..Len(definitions))
  /\ themes \subseteq Theme
  /\ slots \in [Object -> [Appearances!Slot -> 0..Len(definitions)]]

(* The walk over the model.                                                *)
FinishTyped ==
  /\ phase \in Phase
  /\ calls \in Seq([obj : 1..Len(objects), from : 0..Len(objects)])
  /\ finished \subseteq Of("geometry") \cup Of("polygon")
  /\ texCoords \in [Object -> SUBSET TextureSlot]
  /\ modelThemes \subseteq Theme

TypeInv == BuildInv /\ PartsTyped /\ ManagersTyped /\ AppearancesTyped /\ FinishTyped

(* More objects, those there were of the same kinds.                       *)
KindsKept ==
  /\ Len(objects) <= Len(objects')
  /\ \A o \in 1..Len(objects) : objects'[o].kind = objects[o].kind

LEMMA OfGrows ==
  ASSUME Len(objects) \in Nat, Len(objects') \in Nat, KindsKept
  PROVE  \A kind : Of(kind) \subseteq Of(kind)'
  BY DEF KindsKept, Of

(* A larger set has more sequences.                                        *)
LEMMA SeqMonotone ==
  ASSUME NEW S, NEW T, S \subseteq T
  PROVE  Seq(S) \subseteq Seq(T)
<1>1. ASSUME NEW s \in Seq(S) PROVE s \in Seq(T)
  <2>1. Len(s) \in Nat /\ s \in [1..Len(s) -> S]
    BY LenProperties
  <2>2. s \in [1..Len(s) -> T]
    BY <2>1
  <2>3. QED
    BY <2>1, <2>2, SeqDef
<1>2. QED
  BY <1>1

LEMMA HoldersMonotone ==
  ASSUME NEW S, NEW T, S \subseteq T, NEW A, NEW f \in [A -> Seq(S)]
  PROVE  f \in [A -> Seq(T)]
<1>1. Seq(S) \subseteq Seq(T)
  BY SeqMonotone
<1>2. QED
  BY <1>1

(* An object joins those of its kind.                                      *)
LEMMA PartJoins ==
  ASSUME NEW S, NEW T, S \subseteq T, NEW A, NEW f \in [A -> Seq(S)], NEW w, NEW p \in T
  PROVE  AddPart(f, w, p) \in [A -> Seq(T)]
<1>1. f \in [A -> Seq(T)]
  BY HoldersMonotone
<1>2. \A a \in A : Append(f[a], p) \in Seq(T)
  BY <1>1, AppendProperties
<1>3. QED
  BY <1>1, <1>2 DEF AddPart

(* What a step leaves alone has its type in the larger document too.       *)
LEMMA PartsStillTyped ==
  ASSUME PartsTyped, \A kind : Of(kind) \subseteq Of(kind)'
  PROVE  /\ children \in [0..MaxObjects -> Seq(Of("cityobject")')]
         /\ implicits \in [0..MaxObjects -> Seq(Of("implicit")')]
         /\ geometries \in [0..MaxObjects -> Seq(Of("geometry")')]
         /\ polygons \in [0..MaxObjects -> Seq(Of("polygon")')]
         /\ reversed \subseteq Of("polygon")'
<1>1. children \in [0..MaxObjects -> Seq(Of("cityobject")')]
  <2>1. Of("cityobject") \subseteq Of("cityobject")' /\ children \in [0..MaxObjects -> Seq(Of("cityobject"))]
    BY DEF PartsTyped
  <2>2. QED
    BY <2>1, HoldersMonotone
<1>2. implicits \in [0..MaxObjects -> Seq(Of("implicit")')]
  <2>1. Of("implicit") \subseteq Of("implicit")' /\ implicits \in [0..MaxObjects -> Seq(Of("implicit"))]
    BY DEF PartsTyped
  <2>2. QED
    BY <2>1, HoldersMonotone
<1>3. geometries \in [0..MaxObjects -> Seq(Of("geometry")')]
  <2>1. Of("geometry") \subseteq Of("geometry")' /\ geometries \in [0..MaxObjects -> Seq(Of("geometry"))]
    BY DEF PartsTyped
  <2>2. QED
    BY <2>1, HoldersMonotone
<1>4. polygons \in [0..MaxObjects -> Seq(Of("polygon")')]
  <2>1. Of("polygon") \subseteq Of("polygon")' /\ polygons \in [0..MaxObjects -> Seq(Of("polygon"))]
    BY DEF PartsTyped
  <2>2. QED
    BY <2>1, HoldersMonotone
<1>5. reversed \subseteq Of("polygon")'
  <2>1. reversed \subseteq Of("polygon") /\ Of("polygon") \subseteq Of("polygon")'
    BY DEF PartsTyped
  <2>2. QED
    BY <2>1
<1>6. QED
  BY <1>1, <1>2, <1>3, <1>4, <1>5

LEMMA ManagersStillTyped ==
  ASSUME ManagersTyped, \A kind : Of(kind) \subseteq Of(kind)'
  PROVE  /\ sharedPolygons \in [Id -> Of("polygon")' \cup {0}]
         /\ sharedGeometries \in [Id -> Of("geometry")' \cup {0}]
         /\ polygonRequests \in Seq([target : Of("geometry")', id : Id])
         /\ geometryRequests \in Seq([target : Of("implicit")', id : Id])
         /\ targets \in [Id -> Of("geometry")' \cup Of("polygon")' \cup {0}]
<1>1. /\ Of("polygon") \subseteq Of("polygon")'
      /\ Of("geometry") \subseteq Of("geometry")'
      /\ Of("implicit") \subseteq Of("implicit")'
  OBVIOUS
<1>2. /\ sharedPolygons \in [Id -> Of("polygon") \cup {0}]
      /\ sharedGeometries \in [Id -> Of("geometry") \cup {0}]
      /\ polygonRequests \in Seq([target : Of("geometry"), id : Id])
      /\ geometryRequests \in Seq([target : Of("implicit"), id : Id])
      /\ targets \in [Id -> Of("geometry") \cup Of("polygon") \cup {0}]
  BY DEF ManagersTyped
<1> HIDE DEF ManagersTyped
<1>3. /\ sharedPolygons \in [Id -> Of("polygon")' \cup {0}]
      /\ sharedGeometries \in [Id -> Of("geometry")' \cup {0}]
      /\ targets \in [Id -> Of("geometry")' \cup Of("polygon")' \cup {0}]
  BY <1>1, <1>2
<1>4. /\ [target : Of("geometry"), id : Id] \subseteq [target : Of("geometry")', id : Id]
      /\ [target : Of("implicit"), id : Id] \subseteq [target : Of("implicit")', id : Id]
  BY <1>1
<1>5. /\ polygonRequests \in Seq([target : Of("geometry")', id : Id])
      /\ geometryRequests \in Seq([target : Of("implicit")', id : Id])
  BY <1>2, <1>4, SeqMonotone
<1>6. QED
  BY <1>3, <1>5

(* An object is created, of a kind and with an id.                         *)
Creates(kind, d) ==
  /\ objects' \in Seq(FullObjectType)
  /\ Len(objects') = Len(objects) + 1
  /\ \A o \in 1..Len(objects) : objects'[o].kind = objects[o].kind /\ objects'[o].id = objects[o].id
  /\ objects'[Fresh].kind = kind /\ objects'[Fresh].id = d

LEMMA CreatesOf ==
  ASSUME BuildInv, NEW kind, NEW d, Creates(kind, d)
  PROVE  /\ \A k : Of(k) \subseteq Of(k)'
         /\ Fresh \in Of(kind)'
         /\ Len(objects) \in Nat /\ Len(objects') \in Nat
<1>1. Len(objects) \in Nat /\ Len(objects') \in Nat
  BY TopAround DEF BuildInv, Creates
<1>2. KindsKept
  BY <1>1 DEF KindsKept, Creates
<1>3. Fresh \in Of(kind)'
  BY <1>1 DEF Creates, Fresh, Of
<1>4. QED
  BY <1>1, <1>2, <1>3, OfGrows

LEMMA AppendCreates ==
  ASSUME BuildInv, PartsTyped,
         NEW kind \in Kind, NEW d \in Id \cup {NoId}, NEW w \in 0..MaxObjects,
         NEW orientation \in {"+", "-"}, objects' = Append(objects, New(kind, d, w, orientation))
  PROVE  Creates(kind, d)
<1> DEFINE new == New(kind, d, w, orientation)
<1>1. Len(objects) \in Nat /\ objects \in Seq(FullObjectType)
  BY TopAround DEF BuildInv, PartsTyped
<1>2. new \in FullObjectType /\ new.kind = kind /\ new.id = d
  BY DEF New, FullObjectType
<1>3. objects' = Append(objects, new)
  OBVIOUS
<1> HIDE DEF new
<1>4. QED
  BY <1>1, <1>2, <1>3, AppendProperties DEF Creates, Fresh

LEMMA OpenCreates ==
  ASSUME BuildInv, PartsTyped, NEW kind \in Kind, NEW d \in Id \cup {NoId},
         NEW orientation \in {"+", "-"}, Open(kind, d, orientation)
  PROVE  Creates(kind, d)
<1>1. Top \in 0..MaxObjects
  BY TopAround, FactoryAssumption DEF BuildInv, PartsOK
<1>2. objects' = Append(objects, New(kind, d, Top, orientation))
  BY DEF Open
<1> HIDE DEF Top
<1>3. QED
  BY <1>1, <1>2, AppendCreates

LEMMA EndLineStringCreates ==
  ASSUME BuildInv, PartsTyped, NEW d \in Id \cup {NoId}, EndLineString(d)
  PROVE  Creates("geometry", d)
<1>1. Top \in 0..MaxObjects
  BY TopAround, FactoryAssumption DEF BuildInv, PartsOK
<1>2. objects' = Append(objects, New("geometry", d, Top, "+"))
  BY DEF EndLineString
<1>3. "geometry" \in Kind
  BY DEF Kind
<1> HIDE DEF Top
<1>4. QED
  BY <1>1, <1>2, <1>3, AppendCreates

LEMMA EndLonePolygonCreates ==
  ASSUME BuildInv, PartsTyped, NEW d \in Id \cup {NoId}, EndLonePolygon(d)
  PROVE  Creates("geometry", d) /\ Fresh \in 0..MaxObjects
<1> DEFINE inside == [objects EXCEPT ![Top].within = Fresh]
           new    == New("geometry", d, Around, "+")
<1>1. /\ Len(objects) \in Nat /\ MaxObjects \in Nat /\ Len(objects) <= MaxObjects
      /\ Top \in 0..Len(objects) /\ Around \in 0..Len(objects)
      /\ objects \in Seq(FullObjectType)
  BY TopAround, FactoryAssumption DEF BuildInv, PartsOK, PartsTyped
<1>2. Top # 0 /\ Len(objects) < MaxObjects
  BY DEF EndLonePolygon, Close, KindOf, Top, BuildInv, PolygonOnTop
<1>3. Fresh \in 0..MaxObjects
  BY <1>1, <1>2 DEF Fresh
<1>4. Top \in 1..Len(objects) /\ objects[Top] \in FullObjectType
  BY <1>1, <1>2, ElementOfSeq
<1>5. /\ inside \in Seq(FullObjectType) /\ Len(inside) = Len(objects)
      /\ \A o \in 1..Len(objects) : inside[o].kind = objects[o].kind /\ inside[o].id = objects[o].id
  <2>1. /\ [objects[Top] EXCEPT !.within = Fresh] \in FullObjectType
        /\ [objects[Top] EXCEPT !.within = Fresh].kind = objects[Top].kind
        /\ [objects[Top] EXCEPT !.within = Fresh].id = objects[Top].id
    BY <1>3, <1>4 DEF FullObjectType
  <2> HIDE DEF Top
  <2>2. inside = [objects EXCEPT ![Top] = [objects[Top] EXCEPT !.within = Fresh]]
    OBVIOUS
  <2>3. QED
    BY <1>1, <1>4, <2>1, <2>2, ExceptSeq
<1>6. new \in FullObjectType /\ new.kind = "geometry" /\ new.id = d
  BY <1>1 DEF New, FullObjectType, Kind
<1>7. objects' = Append(inside, new)
  BY DEF EndLonePolygon
<1> HIDE DEF inside, new
<1>8. QED
  BY <1>1, <1>3, <1>5, <1>6, <1>7, AppendProperties DEF Creates, Fresh

(* Appearance targets are geometries and polygons.                         *)
LEMMA TargetTyped ==
  ASSUME NEW S, targets \in [Id -> S \cup {0}], NEW d \in Id \cup {NoId}, NEW o \in S,
         Appearances!AddAppearanceTarget(d, o)
  PROVE  targets' \in [Id -> S \cup {0}]
  BY DEF Appearances!AddAppearanceTarget

(* The start tags of objects.                                              *)
LEMMA StartTyped ==
  ASSUME BuildInv, PartsTyped, ManagersTyped,
         \/ StartCityObject
         \/ StartImplicitGeometry
         \/ \E d \in Id \cup {NoId}, s \in Orientation : StartGeometry(d, s)
         \/ \E d \in Id \cup {NoId} : StartPolygon(d)
  PROVE  PartsTyped' /\ ManagersTyped'
<1>1. ASSUME NEW kind \in Kind, NEW d \in Id \cup {NoId}, NEW orientation \in {"+", "-"},
             Open(kind, d, orientation)
      PROVE  PartsTyped' /\ Creates(kind, d) /\ UNCHANGED geometryManager
  <2>1. Creates(kind, d)
    BY <1>1, OpenCreates
  <2>2. \A k : Of(k) \subseteq Of(k)'
    BY <2>1, CreatesOf
  <2>3. UNCHANGED <<model, geometryManager>>
    BY <1>1 DEF Open
  <2>4. QED
    BY <2>1, <2>2, <2>3, PartsStillTyped DEF PartsTyped, Creates, model
<1>2. CASE StartCityObject \/ StartImplicitGeometry
  <2>1. PICK kind \in Kind : Open(kind, NoId, "+")
    BY <1>2 DEF StartCityObject, StartImplicitGeometry, Kind
  <2>2. PartsTyped' /\ Creates(kind, NoId) /\ UNCHANGED geometryManager
    BY <2>1, <1>1
  <2>3. \A k : Of(k) \subseteq Of(k)'
    BY <2>2, CreatesOf
  <2>4. UNCHANGED <<polygonManager, targets>>
    BY <1>2 DEF StartCityObject, StartImplicitGeometry, appearanceManager
  <2>5. QED
    BY <2>2, <2>3, <2>4, ManagersStillTyped DEF ManagersTyped, polygonManager, geometryManager
<1>3. ASSUME NEW d \in Id \cup {NoId}, NEW s \in Orientation, StartGeometry(d, s)
      PROVE  PartsTyped' /\ ManagersTyped'
  <2>1. Open("geometry", d, s) /\ s \in {"+", "-"} /\ "geometry" \in Kind
    BY <1>3, FactoryAssumption DEF StartGeometry, Kind
  <2>2. PartsTyped' /\ Creates("geometry", d) /\ UNCHANGED geometryManager
    BY <2>1, <1>1
  <2>3. (\A k : Of(k) \subseteq Of(k)') /\ Fresh \in Of("geometry")'
    BY <2>2, CreatesOf
  <2>4. /\ sharedPolygons \in [Id -> Of("polygon")' \cup {0}]
        /\ sharedGeometries \in [Id -> Of("geometry")' \cup {0}]
        /\ polygonRequests \in Seq([target : Of("geometry")', id : Id])
        /\ geometryRequests \in Seq([target : Of("implicit")', id : Id])
        /\ targets \in [Id -> Of("geometry")' \cup Of("polygon")' \cup {0}]
    BY <2>3, ManagersStillTyped
  <2>5. targets' \in [Id -> Of("geometry")' \cup Of("polygon")' \cup {0}]
    <3>1. Fresh \in Of("geometry")' \cup Of("polygon")'
      BY <2>3
    <3>2. Appearances!AddAppearanceTarget(d, Fresh)
      BY <1>3 DEF StartGeometry
    <3>3. QED
      BY <2>4, <3>1, <3>2, TargetTyped
  <2>6. QED
    BY <1>3, <2>2, <2>4, <2>5 DEF StartGeometry, ManagersTyped, polygonManager, geometryManager
<1>4. ASSUME NEW d \in Id \cup {NoId}, StartPolygon(d)
      PROVE  PartsTyped' /\ ManagersTyped'
  <2>1. Open("polygon", d, "+") /\ "polygon" \in Kind
    BY <1>4 DEF StartPolygon, Kind
  <2>2. PartsTyped' /\ Creates("polygon", d) /\ UNCHANGED geometryManager
    BY <2>1, <1>1
  <2>3. (\A k : Of(k) \subseteq Of(k)') /\ Fresh \in Of("polygon")'
    BY <2>2, CreatesOf
  <2>4. /\ sharedPolygons \in [Id -> Of("polygon")' \cup {0}]
        /\ sharedGeometries \in [Id -> Of("geometry")' \cup {0}]
        /\ polygonRequests \in Seq([target : Of("geometry")', id : Id])
        /\ geometryRequests \in Seq([target : Of("implicit")', id : Id])
        /\ targets \in [Id -> Of("geometry")' \cup Of("polygon")' \cup {0}]
    BY <2>3, ManagersStillTyped
  <2>5. targets' \in [Id -> Of("geometry")' \cup Of("polygon")' \cup {0}]
    <3>1. Fresh \in Of("geometry")' \cup Of("polygon")'
      BY <2>3
    <3>2. Appearances!AddAppearanceTarget(d, Fresh)
      BY <1>4 DEF StartPolygon
    <3>3. QED
      BY <2>4, <3>1, <3>2, TargetTyped
  <2>6. sharedPolygons' \in [Id -> Of("polygon")' \cup {0}] /\ UNCHANGED polygonRequests
    BY <1>4, <2>3, <2>4 DEF StartPolygon, Polygons!Add
  <2>7. QED
    BY <2>2, <2>4, <2>5, <2>6 DEF ManagersTyped, geometryManager
<1>5. QED
  BY <1>2, <1>3, <1>4

(* A geometry is added to what is around it, and may be shared.            *)
LEMMA GeometryAddedTyped ==
  ASSUME PartsTyped, ManagersTyped, \A k : Of(k) \subseteq Of(k)',
         NEW g \in Of("geometry")', NEW d \in Id \cup {NoId}, NEW whole, AddGeometry(g, d, whole)
  PROVE  /\ geometries' \in [0..MaxObjects -> Seq(Of("geometry")')]
         /\ sharedGeometries' \in [Id -> Of("geometry")' \cup {0}]
         /\ UNCHANGED geometryRequests
<1>1. Of("geometry") \subseteq Of("geometry")'
  OBVIOUS
<1>2. /\ geometries \in [0..MaxObjects -> Seq(Of("geometry"))]
      /\ geometries' = AddPart(geometries, whole, g)
  BY DEF PartsTyped, AddGeometry
<1>3. geometries' \in [0..MaxObjects -> Seq(Of("geometry")')]
  BY <1>1, <1>2, PartJoins
<1>4. /\ sharedGeometries \in [Id -> Of("geometry")' \cup {0}]
      /\ sharedGeometries' = sharedGeometries \/ sharedGeometries' = [sharedGeometries EXCEPT ![d] = g]
      /\ UNCHANGED geometryRequests
  BY ManagersStillTyped DEF AddGeometry, Geometries!Add, geometryManager
<1>5. QED
  BY <1>3, <1>4

(* The object on top of the path is of the kind it is closed as.           *)
LEMMA TopOf ==
  ASSUME BuildInv, NEW kind, kind # "model", KindOf(Top) = kind
  PROVE  Top \in Of(kind)
<1>1. Top \in 0..Len(objects) /\ Len(objects) \in Nat
  BY TopAround DEF BuildInv
<1>2. Top # 0
  BY DEF KindOf
<1>3. objects[Top].kind = kind
  BY <1>2 DEF KindOf
<1> HIDE DEF Top
<1>4. QED
  BY <1>1, <1>2, <1>3 DEF Of

(* The end tags of objects.                                                *)
LEMMA EndTyped ==
  ASSUME BuildInv, PartsTyped, ManagersTyped,
         EndCityObject \/ EndImplicitGeometry \/ EndGeometry \/ EndPolygon
  PROVE  PartsTyped' /\ ManagersTyped'
<1>1. UNCHANGED objects
  BY DEF EndCityObject, EndImplicitGeometry, EndGeometry, EndPolygon
<1>2. \A k : Of(k)' = Of(k)
  BY <1>1 DEF Of
<1>3. UNCHANGED <<sharedPolygons, polygonRequests, targets>>
  BY DEF EndCityObject, EndImplicitGeometry, EndGeometry, EndPolygon, Close, polygonManager,
     appearanceManager
<1>4. CASE EndCityObject
  <2>1. Top \in Of("cityobject")
    BY <1>4, TopOf DEF EndCityObject, Close
  <2>2. children' = AddPart(children, Around, Top) /\ children \in [0..MaxObjects -> Seq(Of("cityobject"))]
    BY <1>4 DEF EndCityObject, PartsTyped
  <2>3. children' \in [0..MaxObjects -> Seq(Of("cityobject"))]
    BY <2>1, <2>2, PartJoins
  <2>4. UNCHANGED <<implicits, geometries, polygons, reversed, sharedGeometries, geometryRequests>>
    BY <1>4 DEF EndCityObject, geometryManager
  <2>5. QED
    BY <1>1, <1>2, <1>3, <2>3, <2>4 DEF PartsTyped, ManagersTyped
<1>5. CASE EndImplicitGeometry
  <2>1. Top \in Of("implicit")
    BY <1>5, TopOf DEF EndImplicitGeometry, Close
  <2>2. implicits' = AddPart(implicits, Around, Top) /\ implicits \in [0..MaxObjects -> Seq(Of("implicit"))]
    BY <1>5 DEF EndImplicitGeometry, PartsTyped
  <2>3. implicits' \in [0..MaxObjects -> Seq(Of("implicit"))]
    BY <2>1, <2>2, PartJoins
  <2>4. UNCHANGED <<children, geometries, polygons, reversed, sharedGeometries, geometryRequests>>
    BY <1>5 DEF EndImplicitGeometry, geometryManager
  <2>5. QED
    BY <1>1, <1>2, <1>3, <2>3, <2>4 DEF PartsTyped, ManagersTyped
<1>6. CASE EndGeometry
  <2>1. Top \in Of("geometry")
    BY <1>6, TopOf DEF EndGeometry, Close
  <2>2. Top \in 1..Len(objects) /\ objects[Top].id \in Id \cup {NoId}
    <3>1. Top \in 1..Len(objects)
      BY <2>1 DEF Of
    <3> HIDE DEF Top
    <3>2. objects[Top] \in FullObjectType
      BY <3>1, ElementOfSeq DEF PartsTyped
    <3>3. QED
      BY <3>1, <3>2 DEF FullObjectType
  <2>3. AddGeometry(Top, objects[Top].id, Around)
    BY <1>6 DEF EndGeometry
  <2>4. /\ geometries' \in [0..MaxObjects -> Seq(Of("geometry")')]
        /\ sharedGeometries' \in [Id -> Of("geometry")' \cup {0}]
        /\ UNCHANGED geometryRequests
    <3>1. Top \in Of("geometry")' /\ \A k : Of(k) \subseteq Of(k)'
      BY <1>2, <2>1
    <3> HIDE DEF Top, Around
    <3>2. QED
      BY <2>2, <2>3, <3>1, GeometryAddedTyped
  <2>5. UNCHANGED <<children, implicits, polygons>>
    BY <1>6 DEF EndGeometry
  <2>6. reversed' \subseteq Of("polygon")
    <3>1. Top \in 0..MaxObjects
      BY TopAround, FactoryAssumption DEF BuildInv, PartsOK
    <3>2. reversed' = reversed \/ reversed' = reversed \cup ToSet(polygons[Top])
      BY <1>6 DEF EndGeometry
    <3> HIDE DEF Top
    <3>3. polygons[Top] \in Seq(Of("polygon")) /\ reversed \subseteq Of("polygon")
      BY <3>1 DEF PartsTyped
    <3>4. ToSet(polygons[Top]) \subseteq Of("polygon")
      BY <3>3, ElementOfSeq, LenProperties DEF ToSet
    <3>5. QED
      BY <3>2, <3>3, <3>4
  <2>7. QED
    BY <1>1, <1>2, <1>3, <2>4, <2>5, <2>6 DEF PartsTyped, ManagersTyped
<1>7. CASE EndPolygon
  <2>1. Top \in Of("polygon")
    BY <1>7, TopOf DEF EndPolygon, Close
  <2>2. polygons' = AddPart(polygons, Around, Top) /\ polygons \in [0..MaxObjects -> Seq(Of("polygon"))]
    BY <1>7 DEF EndPolygon, PartsTyped
  <2>3. polygons' \in [0..MaxObjects -> Seq(Of("polygon"))]
    BY <2>1, <2>2, PartJoins
  <2>4. UNCHANGED <<children, implicits, geometries, reversed, sharedGeometries, geometryRequests>>
    BY <1>7 DEF EndPolygon, geometryManager
  <2>5. QED
    BY <1>1, <1>2, <1>3, <2>3, <2>4 DEF PartsTyped, ManagersTyped
<1>8. QED
  BY <1>4, <1>5, <1>6, <1>7

(* The geometry made for a polygon, or for a line string.                  *)
LEMMA MadeGeometryTyped ==
  ASSUME BuildInv, PartsTyped, ManagersTyped, NEW d \in Id \cup {NoId},
         EndLonePolygon(d) \/ EndLineString(d)
  PROVE  PartsTyped' /\ ManagersTyped'
<1>1. Creates("geometry", d)
  BY EndLonePolygonCreates, EndLineStringCreates
<1>2. /\ \A k : Of(k) \subseteq Of(k)'
      /\ Fresh \in Of("geometry")'
  BY <1>1, CreatesOf
<1>3. /\ sharedPolygons \in [Id -> Of("polygon")' \cup {0}]
      /\ polygonRequests \in Seq([target : Of("geometry")', id : Id])
      /\ geometryRequests \in Seq([target : Of("implicit")', id : Id])
      /\ targets \in [Id -> Of("geometry")' \cup Of("polygon")' \cup {0}]
  BY <1>2, ManagersStillTyped
<1>4. /\ UNCHANGED <<children, implicits, reversed, sharedPolygons, polygonRequests>>
      /\ Appearances!AddAppearanceTarget(d, Fresh)
      /\ \E whole : AddGeometry(Fresh, d, whole)
  BY DEF EndLonePolygon, EndLineString, Close, polygonManager
<1>5. /\ geometries' \in [0..MaxObjects -> Seq(Of("geometry")')]
      /\ sharedGeometries' \in [Id -> Of("geometry")' \cup {0}]
      /\ UNCHANGED geometryRequests
  BY <1>2, <1>4, GeometryAddedTyped
<1>6. targets' \in [Id -> Of("geometry")' \cup Of("polygon")' \cup {0}]
  <2>1. Fresh \in Of("geometry")' \cup Of("polygon")'
    BY <1>2
  <2>2. QED
    BY <1>3, <1>4, <2>1, TargetTyped
<1>7. polygons' \in [0..MaxObjects -> Seq(Of("polygon")')]
  <2>1. CASE EndLonePolygon(d)
    <3>1. Top \in Of("polygon")'
      BY <1>2, <2>1, TopOf DEF EndLonePolygon, Close
    <3>2. /\ polygons' = AddPart(polygons, Fresh, Top)
          /\ polygons \in [0..MaxObjects -> Seq(Of("polygon"))]
          /\ Of("polygon") \subseteq Of("polygon")'
      BY <1>2, <2>1 DEF EndLonePolygon, PartsTyped
    <3>3. QED
      BY <3>1, <3>2, PartJoins
  <2>2. CASE EndLineString(d)
    BY <1>2, <2>2, PartsStillTyped DEF EndLineString
  <2>3. QED
    BY <2>1, <2>2
<1>8. QED
  BY <1>1, <1>2, <1>3, <1>4, <1>5, <1>6, <1>7, PartsStillTyped DEF PartsTyped, ManagersTyped, Creates

(* Links, and their resolution when the document ends.                     *)
LEMMA LinkTyped ==
  ASSUME BuildInv, PartsTyped, ManagersTyped, NEW d \in Id, LinkPolygon(d) \/ LinkGeometry(d)
  PROVE  PartsTyped' /\ ManagersTyped'
<1>1. /\ UNCHANGED <<objects, children, implicits, geometries, polygons, reversed, sharedPolygons,
                     sharedGeometries, targets>>
      /\ \A k : Of(k)' = Of(k)
  BY DEF LinkPolygon, LinkGeometry, Link, Of, Polygons!Request, Geometries!Request,
     polygonManager, geometryManager, appearanceManager
<1>2. CASE LinkPolygon(d)
  <2> DEFINE request == [target |-> Top, id |-> d]
  <2>1. Top \in Of("geometry")
    BY <1>2, TopOf DEF LinkPolygon
  <2>2. /\ request \in [target : Of("geometry"), id : Id]
        /\ polygonRequests' = Append(polygonRequests, request)
        /\ polygonRequests \in Seq([target : Of("geometry"), id : Id])
        /\ UNCHANGED geometryRequests
    BY <1>2, <2>1 DEF LinkPolygon, Polygons!Request, ManagersTyped, geometryManager
  <2> HIDE DEF request
  <2>3. polygonRequests' \in Seq([target : Of("geometry"), id : Id])
    BY <2>2, AppendProperties
  <2>4. QED
    BY <1>1, <2>2, <2>3 DEF PartsTyped, ManagersTyped
<1>3. CASE LinkGeometry(d)
  <2> DEFINE request == [target |-> Top, id |-> d]
  <2>1. Top \in Of("implicit")
    BY <1>3, TopOf DEF LinkGeometry
  <2>2. /\ request \in [target : Of("implicit"), id : Id]
        /\ geometryRequests' = Append(geometryRequests, request)
        /\ geometryRequests \in Seq([target : Of("implicit"), id : Id])
        /\ UNCHANGED polygonRequests
    BY <1>3, <2>1 DEF LinkGeometry, Geometries!Request, ManagersTyped, polygonManager
  <2> HIDE DEF request
  <2>3. geometryRequests' \in Seq([target : Of("implicit"), id : Id])
    BY <2>2, AppendProperties
  <2>4. QED
    BY <1>1, <2>2, <2>3 DEF PartsTyped, ManagersTyped
<1>4. QED
  BY <1>2, <1>3

LEMMA ResolveTyped ==
  ASSUME PartsTyped, ManagersTyped, FinishPolygons \/ FinishGeometries
  PROVE  PartsTyped' /\ ManagersTyped'
<1>1. /\ UNCHANGED <<objects, children, implicits, reversed, targets>>
      /\ \A k : Of(k)' = Of(k)
  BY DEF FinishPolygons, FinishGeometries, appearanceManager, Of
<1>2. CASE FinishPolygons
  <2>1. UNCHANGED <<geometries, sharedGeometries, geometryRequests>>
    BY <1>2 DEF FinishPolygons, geometryManager
  <2>2. CASE Polygons!Clear
    BY <1>1, <2>1, <2>2 DEF Polygons!Clear, PartsTyped, ManagersTyped
  <2>3. CASE Polygons!ResolveNext
    <3> DEFINE r == Head(polygonRequests)
    <3>1. /\ polygonRequests # <<>> /\ polygonRequests' = Tail(polygonRequests)
          /\ polygonRequests \in Seq([target : Of("geometry"), id : Id])
          /\ UNCHANGED sharedPolygons
      BY <2>3 DEF Polygons!ResolveNext, ManagersTyped
    <3>2. /\ r \in [target : Of("geometry"), id : Id]
          /\ polygonRequests' \in Seq([target : Of("geometry"), id : Id])
      BY <3>1, HeadTailProperties
    <3>3. /\ sharedPolygons \in [Id -> Of("polygon") \cup {0}]
          /\ polygons \in [0..MaxObjects -> Seq(Of("polygon"))]
          /\ polygons' = IF sharedPolygons[r.id] = 0 THEN polygons
                         ELSE AddPart(polygons, r.target, sharedPolygons[r.id])
      BY <2>3 DEF Polygons!ResolveNext, ManagersTyped, PartsTyped, AddPart
    <3> HIDE DEF r
    <3>4. polygons' \in [0..MaxObjects -> Seq(Of("polygon"))]
      <4>1. CASE sharedPolygons[r.id] = 0
        BY <3>3, <4>1
      <4>2. CASE sharedPolygons[r.id] # 0
        <5>1. sharedPolygons[r.id] \in Of("polygon")
          BY <3>2, <3>3, <4>2
        <5>2. QED
          BY <3>3, <4>2, <5>1, PartJoins
      <4>3. QED
        BY <4>1, <4>2
    <3>5. QED
      BY <1>1, <2>1, <3>1, <3>2, <3>4 DEF PartsTyped, ManagersTyped
  <2>4. QED
    BY <1>2, <2>2, <2>3 DEF FinishPolygons
<1>3. CASE FinishGeometries
  <2>1. UNCHANGED <<polygons, sharedPolygons, polygonRequests>>
    BY <1>3 DEF FinishGeometries, polygonManager
  <2>2. CASE Geometries!Clear
    BY <1>1, <2>1, <2>2 DEF Geometries!Clear, PartsTyped, ManagersTyped
  <2>3. CASE Geometries!ResolveNext
    <3> DEFINE r == Head(geometryRequests)
    <3>1. /\ geometryRequests # <<>> /\ geometryRequests' = Tail(geometryRequests)
          /\ geometryRequests \in Seq([target : Of("implicit"), id : Id])
          /\ UNCHANGED sharedGeometries
      BY <2>3 DEF Geometries!ResolveNext, ManagersTyped
    <3>2. /\ r \in [target : Of("implicit"), id : Id]
          /\ geometryRequests' \in Seq([target : Of("implicit"), id : Id])
      BY <3>1, HeadTailProperties
    <3>3. /\ sharedGeometries \in [Id -> Of("geometry") \cup {0}]
          /\ geometries \in [0..MaxObjects -> Seq(Of("geometry"))]
          /\ geometries' = IF sharedGeometries[r.id] = 0 THEN geometries
                           ELSE AddPart(geometries, r.target, sharedGeometries[r.id])
      BY <2>3 DEF Geometries!ResolveNext, ManagersTyped, PartsTyped, AddPart
    <3> HIDE DEF r
    <3>4. geometries' \in [0..MaxObjects -> Seq(Of("geometry"))]
      <4>1. CASE sharedGeometries[r.id] = 0
        BY <3>3, <4>1
      <4>2. CASE sharedGeometries[r.id] # 0
        <5>1. sharedGeometries[r.id] \in Of("geometry")
          BY <3>2, <3>3, <4>2
        <5>2. QED
          BY <3>3, <4>2, <5>1, PartJoins
      <4>3. QED
        BY <4>1, <4>2
    <3>5. QED
      BY <1>1, <2>1, <3>1, <3>2, <3>4 DEF PartsTyped, ManagersTyped
  <2>4. QED
    BY <1>3, <2>2, <2>3 DEF FinishGeometries
<1>4. QED
  BY <1>2, <1>3

(* Other steps leave the objects and the first two managers alone.         *)
LEMMA PartsLeftAlone ==
  ASSUME PartsTyped, ManagersTyped, UNCHANGED <<objects, model, polygonManager, geometryManager>>,
         targets' = targets \/ targets' = [d \in Id |-> 0]
  PROVE  PartsTyped' /\ ManagersTyped'
<1>1. /\ UNCHANGED <<objects, children, implicits, geometries, polygons, reversed, sharedPolygons,
                     polygonRequests, sharedGeometries, geometryRequests>>
      /\ \A k : Of(k)' = Of(k)
  BY DEF model, polygonManager, geometryManager, Of
<1>2. targets' \in [Id -> Of("geometry") \cup Of("polygon") \cup {0}]
  BY DEF ManagersTyped
<1>3. QED
  BY <1>1, <1>2 DEF PartsTyped, ManagersTyped

(* Appearances are parsed without a change of the objects.                 *)
ParseAppearances ==
  \/ StartAppearance
  \/ \E d \in DataId : LinkSurfaceData(d)
  \/ \E k \in {"material", "texture"}, d \in DataId \cup {NoId}, front \in Side :
       StartSurfaceData(k, d, front)
  \/ \E d \in Id : Target(d)
  \/ EndSurfaceData
  \/ \E t \in Theme : EndAppearance(t)

LEMMA StepKeepsParts ==
  ASSUME BuildInv, PartsTyped, ManagersTyped, [FinishNext]_vars
  PROVE  PartsTyped' /\ ManagersTyped'
<1>1. CASE UNCHANGED vars
  BY <1>1, PartsLeftAlone DEF vars, factoryVars, appearanceManager
<1>2. CASE Parse
  <2>1. CASE \/ StartCityObject
             \/ StartImplicitGeometry
             \/ \E d \in Id \cup {NoId}, s \in Orientation : StartGeometry(d, s)
             \/ \E d \in Id \cup {NoId} : StartPolygon(d)
    BY <2>1, StartTyped
  <2>2. CASE EndCityObject \/ EndImplicitGeometry \/ EndGeometry \/ EndPolygon
    BY <2>2, EndTyped
  <2>3. CASE \E d \in Id \cup {NoId} : EndLonePolygon(d) \/ EndLineString(d)
    BY <2>3, MadeGeometryTyped
  <2>4. CASE \E d \in Id : LinkPolygon(d) \/ LinkGeometry(d)
    BY <2>4, LinkTyped
  <2>5. CASE ParseAppearances
    <3>1. InAppearance /\ UNCHANGED targets
      BY <2>5 DEF ParseAppearances, StartAppearance, LinkSurfaceData, StartSurfaceData, Target,
         EndSurfaceData, EndAppearance, appearanceManager, Appearances!AddAppearance,
         Appearances!AddTargetDefinition, Appearances!AddToTheme
    <3>2. QED
      BY <3>1, PartsLeftAlone DEF InAppearance
  <2>6. QED
    BY <1>2, <2>1, <2>2, <2>3, <2>4, <2>5 DEF Parse, ParseAppearances
<1>3. CASE EndDocument
  BY <1>3, PartsLeftAlone DEF EndDocument, appearanceManager
<1>4. CASE FinishPolygons \/ FinishGeometries
  BY <1>4, ResolveTyped
<1>5. CASE AssignAppearances
  <2>1. UNCHANGED <<objects, model, polygonManager, geometryManager>>
    BY <1>5 DEF AssignAppearances
  <2>2. targets' = targets \/ targets' = [d \in Id |-> 0]
    BY <1>5 DEF AssignAppearances, Appearances!AssignMaterial, Appearances!AssignTexture,
       Appearances!Clear
  <2>3. QED
    BY <2>1, <2>2, PartsLeftAlone
<1>6. CASE \/ \E tesselator \in BOOLEAN : StartFinish(tesselator)
           \/ FinishCityObject \/ FinishImplicitGeometry \/ FinishGeometry \/ FinishPolygon
           \/ EndFinish
  <2>1. UNCHANGED <<objects, model, polygonManager, geometryManager, targets>>
    BY <1>6 DEF StartFinish, FinishCityObject, FinishImplicitGeometry, FinishGeometry,
       FinishPolygon, EndFinish, NextCall, appearanceManager
  <2>2. QED
    BY <2>1, PartsLeftAlone
<1>7. QED
  BY <1>1, <1>2, <1>3, <1>4, <1>5, <1>6 DEF FinishNext, closeFactory

-----------------------------------------------------------------------------
(* Types of what the appearance manager keeps.                             *)

appearanceVars ==
  <<surfaceData, appearances, appearance, definitions, materialDefs, textureDefs, themes, slots>>

LEMMA AppearancesLeftAlone ==
  ASSUME AppearancesTyped, UNCHANGED appearanceVars
  PROVE  AppearancesTyped'
  BY DEF AppearancesTyped, appearanceVars

(* The document's objects and links.                                       *)
LEMMA ParseLeavesAppearances ==
  ASSUME Parse
  PROVE  UNCHANGED appearanceVars \/ ParseAppearances
  BY DEF Parse, ParseAppearances, appearanceVars, StartCityObject, StartImplicitGeometry,
         StartGeometry, StartPolygon, Open, Close, EndCityObject, EndImplicitGeometry,
         EndGeometry, EndPolygon, EndLonePolygon, EndLineString, LinkPolygon, LinkGeometry, Link,
         appearanceManager, Appearances!AddAppearanceTarget

(* A material or texture more.                                             *)
LEMMA StartSurfaceDataTyped ==
  ASSUME AppearancesTyped, NEW k \in {"material", "texture"}, NEW d \in DataId \cup {NoId},
         NEW front \in Side, StartSurfaceData(k, d, front)
  PROVE  AppearancesTyped'
<1> DEFINE new == [kind |-> k, front |-> front, themes |-> {}]
<1>1. /\ surfaceData \in Seq(Data) /\ surfaceData' = Append(surfaceData, new)
      /\ appearance' = [appearance EXCEPT !.current = Len(surfaceData) + 1]
      /\ appearances' = IF d = NoId THEN appearances
                        ELSE [appearances EXCEPT ![d] = Len(surfaceData) + 1]
      /\ UNCHANGED <<definitions, materialDefs, textureDefs, themes, slots>>
  BY DEF StartSurfaceData, Appearances!AddAppearance, AppearancesTyped
<1>2. new \in Data
  BY DEF Data
<1> HIDE DEF new
<1>3. /\ surfaceData' \in Seq(Data) /\ Len(surfaceData') = Len(surfaceData) + 1
      /\ Len(surfaceData) \in Nat
  BY <1>1, <1>2, AppendProperties, LenProperties
<1>4. definitions' \in Seq([target : Id, data : 1..Len(surfaceData')])
  <2> DEFINE S == [target : Id, data : 1..Len(surfaceData)]
             T == [target : Id, data : 1..Len(surfaceData')]
  <2>1. S \subseteq T
    BY <1>3
  <2>2. definitions \in Seq(S)
    BY DEF AppearancesTyped
  <2> HIDE DEF S, T
  <2>3. definitions \in Seq(T)
    BY <2>1, <2>2, SeqMonotone
  <2>4. QED
    BY <1>1, <2>3 DEF T
<1>5. appearance' \in [open : BOOLEAN, members : SUBSET Nat, current : 0..Len(surfaceData')]
  <2>1. appearance \in [open : BOOLEAN, members : SUBSET Nat, current : Nat]
    BY <1>3 DEF AppearancesTyped
  <2>2. Len(surfaceData) + 1 \in 0..Len(surfaceData')
    BY <1>3
  <2>3. QED
    BY <1>1, <2>1, <2>2
<1>6. appearances' \in [DataId -> Nat]
  BY <1>1, <1>3 DEF AppearancesTyped
<1>7. QED
  BY <1>1, <1>3, <1>4, <1>5, <1>6 DEF AppearancesTyped

(* A target definition more, which waits to be assigned.                   *)
LEMMA TargetDefinitionTyped ==
  ASSUME AppearancesTyped, NEW d \in Id, Target(d)
  PROVE  AppearancesTyped'
<1> DEFINE new == [target |-> d, data |-> appearance.current]
<1>1. /\ definitions \in Seq([target : Id, data : 1..Len(surfaceData)])
      /\ definitions' = Append(definitions, new)
      /\ UNCHANGED <<surfaceData, appearances, appearance, themes, slots>>
      /\ \/ materialDefs' = Append(materialDefs, Len(definitions) + 1) /\ UNCHANGED textureDefs
         \/ textureDefs' = Append(textureDefs, Len(definitions) + 1) /\ UNCHANGED materialDefs
  BY DEF Target, Appearances!AddTargetDefinition, AppearancesTyped
<1>2. new \in [target : Id, data : 1..Len(surfaceData)]
  <2>1. appearance.current \in 0..Len(surfaceData) /\ appearance.current # 0
    BY DEF AppearancesTyped, Target
  <2>2. Len(surfaceData) \in Nat
    BY LenProperties DEF AppearancesTyped
  <2>3. QED
    BY <2>1, <2>2
<1> HIDE DEF new
<1>3. /\ definitions' \in Seq([target : Id, data : 1..Len(surfaceData)])
      /\ Len(definitions') = Len(definitions) + 1 /\ Len(definitions) \in Nat
  BY <1>1, <1>2, AppendProperties, LenProperties
<1>4. /\ materialDefs \in Seq(1..Len(definitions')) /\ textureDefs \in Seq(1..Len(definitions'))
      /\ Len(definitions) + 1 \in 1..Len(definitions')
  <2>1. 1..Len(definitions) \subseteq 1..Len(definitions')
    BY <1>3
  <2>2. materialDefs \in Seq(1..Len(definitions)) /\ textureDefs \in Seq(1..Len(definitions))
    BY DEF AppearancesTyped
  <2>3. QED
    BY <1>3, <2>1, <2>2, SeqMonotone
<1>5. materialDefs' \in Seq(1..Len(definitions')) /\ textureDefs' \in Seq(1..Len(definitions'))
  <2> DEFINE S == 1..Len(definitions')
  <2>1. materialDefs \in Seq(S) /\ textureDefs \in Seq(S) /\ Len(definitions) + 1 \in S
    BY <1>4
  <2> HIDE DEF S
  <2>2. /\ Append(materialDefs, Len(definitions) + 1) \in Seq(S)
        /\ Append(textureDefs, Len(definitions) + 1) \in Seq(S)
    BY <2>1, AppendProperties
  <2>3. materialDefs' \in Seq(S) /\ textureDefs' \in Seq(S)
    BY <1>1, <2>1, <2>2
  <2>4. QED
    BY <2>3 DEF S
<1>6. slots' \in [Object -> [Appearances!Slot -> 0..Len(definitions')]]
  <2>1. 0..Len(definitions) \subseteq 0..Len(definitions')
    BY <1>3
  <2>2. slots' \in [Object -> [Appearances!Slot -> 0..Len(definitions)]]
    BY <1>1 DEF AppearancesTyped
  <2>3. QED
    BY <2>1, <2>2
<1>7. QED
  BY <1>1, <1>3, <1>5, <1>6 DEF AppearancesTyped

(* An appearance ends: its surface data get its theme.                     *)
LEMMA EndAppearanceTyped ==
  ASSUME AppearancesTyped, NEW t \in Theme, EndAppearance(t)
  PROVE  /\ AppearancesTyped'
         /\ Len(surfaceData') = Len(surfaceData)
         /\ \A i \in 1..Len(surfaceData) :
              surfaceData'[i].kind = surfaceData[i].kind /\ surfaceData'[i].front = surfaceData[i].front
<1>1. /\ surfaceData \in Seq(Data)
      /\ surfaceData' = [i \in DOMAIN surfaceData |->
                           IF i \in appearance.members
                           THEN [surfaceData[i] EXCEPT !.themes = @ \cup {t}] ELSE surfaceData[i]]
      /\ appearance' = NoAppearance
      /\ UNCHANGED <<appearances, definitions, materialDefs, textureDefs, themes, slots>>
  BY DEF EndAppearance, Appearances!AddToTheme, AppearancesTyped
<1>2. /\ DOMAIN surfaceData = 1..Len(surfaceData) /\ Len(surfaceData) \in Nat
      /\ \A i \in 1..Len(surfaceData) : surfaceData[i] \in Data
  BY <1>1, LenProperties, ElementOfSeq
<1>3. \A i \in 1..Len(surfaceData) :
        /\ surfaceData'[i] \in Data
        /\ surfaceData'[i].kind = surfaceData[i].kind
        /\ surfaceData'[i].front = surfaceData[i].front
  BY <1>1, <1>2 DEF Data
<1>4. surfaceData' \in Seq(Data) /\ Len(surfaceData') = Len(surfaceData)
  <2>1. surfaceData' \in [1..Len(surfaceData) -> Data]
    BY <1>1, <1>2, <1>3
  <2>2. QED
    BY <1>2, <2>1, SeqDef, LenProperties
<1>5. appearance' \in [open : BOOLEAN, members : SUBSET Nat, current : 0..Len(surfaceData')]
  BY <1>1, <1>2, <1>4 DEF NoAppearance
<1>6. definitions' \in Seq([target : Id, data : 1..Len(surfaceData')])
  BY <1>1, <1>4 DEF AppearancesTyped
<1>7. QED
  BY <1>1, <1>3, <1>4, <1>5, <1>6 DEF AppearancesTyped

LEMMA ParseAppearancesTyped ==
  ASSUME AppearancesTyped, ParseAppearances
  PROVE  AppearancesTyped'
<1>1. ASSUME UNCHANGED <<surfaceData, appearances, definitions, materialDefs, textureDefs, themes, slots>>,
             appearance' \in [open : BOOLEAN, members : SUBSET Nat, current : 0..Len(surfaceData)]
      PROVE  AppearancesTyped'
  BY <1>1 DEF AppearancesTyped
<1>2. /\ Len(surfaceData) \in Nat
      /\ appearance \in [open : BOOLEAN, members : SUBSET Nat, current : 0..Len(surfaceData)]
      /\ appearances \in [DataId -> Nat]
  BY LenProperties DEF AppearancesTyped
<1>3. CASE StartAppearance
  <2>1. appearance' = [open |-> TRUE, members |-> {}, current |-> 0]
    BY <1>3 DEF StartAppearance, NoAppearance
  <2>2. appearance' \in [open : BOOLEAN, members : SUBSET Nat, current : 0..Len(surfaceData)]
    BY <1>2, <2>1
  <2>3. QED
    BY <1>1, <1>3, <2>2 DEF StartAppearance, appearanceManager
<1>4. ASSUME NEW d \in DataId, LinkSurfaceData(d)
      PROVE  AppearancesTyped'
  <2>1. appearance' = [appearance EXCEPT !.members = @ \cup {appearances[d]}]
    BY <1>4 DEF LinkSurfaceData
  <2>2. appearance' \in [open : BOOLEAN, members : SUBSET Nat, current : 0..Len(surfaceData)]
    BY <1>2, <2>1
  <2>3. QED
    BY <1>1, <1>4, <2>2 DEF LinkSurfaceData, appearanceManager
<1>5. CASE EndSurfaceData
  <2>1. appearance' = [appearance EXCEPT !.members = @ \cup {appearance.current}, !.current = 0]
    BY <1>5 DEF EndSurfaceData
  <2>2. 0 \in 0..Len(surfaceData) /\ appearance.members \cup {appearance.current} \in SUBSET Nat
    BY <1>2
  <2>3. appearance' = [appearance EXCEPT !.members = appearance.members \cup {appearance.current},
                                         !.current = 0]
    BY <2>1
  <2>4. appearance' \in [open : BOOLEAN, members : SUBSET Nat, current : 0..Len(surfaceData)]
    BY <1>2, <2>2, <2>3
  <2>5. QED
    BY <1>1, <1>5, <2>4 DEF EndSurfaceData, appearanceManager
<1>6. QED
  BY <1>3, <1>4, <1>5, StartSurfaceDataTyped, TargetDefinitionTyped, EndAppearanceTyped
     DEF ParseAppearances

(* A definition that is assigned.                                          *)
LEMMA AssignTyped ==
  ASSUME AppearancesTyped, NEW def \in 1..Len(definitions), Appearances!Assign(def)
  PROVE  /\ themes' \subseteq Theme
         /\ slots' \in [Object -> [Appearances!Slot -> 0..Len(definitions)]]
<1> DEFINE o == targets[definitions[def].target]
           v == Appearances!WithTargetDefinition(o, def)
<1>1. /\ slots \in [Object -> [Appearances!Slot -> 0..Len(definitions)]]
      /\ themes \subseteq Theme /\ Len(definitions) \in Nat
      /\ definitions[def] \in [target : Id, data : 1..Len(surfaceData)]
  BY LenProperties, ElementOfSeq DEF AppearancesTyped
<1>2. surfaceData[definitions[def].data] \in Data
  BY <1>1, ElementOfSeq DEF AppearancesTyped
<1>3. themes' \subseteq Theme
  BY <1>1, <1>2 DEF Appearances!Assign, Data
<1>4. slots' = slots \/ slots' = [slots EXCEPT ![o] = v]
  BY DEF Appearances!Assign
<1>5. o \in Object => v \in [Appearances!Slot -> 0..Len(definitions)]
  BY <1>1 DEF Appearances!WithTargetDefinition
<1> HIDE DEF o, v
<1>6. slots' \in [Object -> [Appearances!Slot -> 0..Len(definitions)]]
  BY <1>1, <1>4, <1>5
<1>7. QED
  BY <1>3, <1>6

LEMMA AssignAppearancesTyped ==
  ASSUME AppearancesTyped, AssignAppearances
  PROVE  AppearancesTyped'
<1>1. /\ materialDefs \in Seq(1..Len(definitions)) /\ textureDefs \in Seq(1..Len(definitions))
      /\ UNCHANGED appearance
  BY DEF AppearancesTyped, AssignAppearances
<1>2. CASE Appearances!AssignMaterial
  <2>1. /\ Head(materialDefs) \in 1..Len(definitions)
        /\ Tail(materialDefs) \in Seq(1..Len(definitions))
    BY <1>1, <1>2, HeadTailProperties DEF Appearances!AssignMaterial
  <2>2. /\ themes' \subseteq Theme
        /\ slots' \in [Object -> [Appearances!Slot -> 0..Len(definitions)]]
    BY <1>2, <2>1, AssignTyped DEF Appearances!AssignMaterial
  <2>3. QED
    BY <1>1, <1>2, <2>1, <2>2 DEF AppearancesTyped, Appearances!AssignMaterial
<1>3. CASE Appearances!AssignTexture
  <2>1. /\ Head(textureDefs) \in 1..Len(definitions)
        /\ Tail(textureDefs) \in Seq(1..Len(definitions))
    BY <1>1, <1>3, HeadTailProperties DEF Appearances!AssignTexture
  <2>2. /\ themes' \subseteq Theme
        /\ slots' \in [Object -> [Appearances!Slot -> 0..Len(definitions)]]
    BY <1>3, <2>1, AssignTyped DEF Appearances!AssignTexture
  <2>3. QED
    BY <1>1, <1>3, <2>1, <2>2 DEF AppearancesTyped, Appearances!AssignTexture
<1>4. CASE Appearances!Clear
  BY <1>1, <1>4 DEF AppearancesTyped, Appearances!Clear
<1>5. QED
  BY <1>2, <1>3, <1>4 DEF AssignAppearances

(* Definitions that a geometry hands down.                                 *)
LEMMA InheritTyped ==
  ASSUME AppearancesTyped, NEW call, call.from = 0 \/ call.from \in Object,
         slots' = Inherited(call)
  PROVE  slots' \in [Object -> [Appearances!Slot -> 0..Len(definitions)]]
<1> DEFINE v == Appearances!WithTargetDefinitionsOf(call.obj, call.from)
<1>1. slots \in [Object -> [Appearances!Slot -> 0..Len(definitions)]]
  BY DEF AppearancesTyped
<1>2. slots' = slots \/ (call.from # 0 /\ slots' = [slots EXCEPT ![call.obj] = v])
  BY DEF Inherited
<1>3. call.obj \in Object /\ call.from \in Object => v \in [Appearances!Slot -> 0..Len(definitions)]
  BY <1>1 DEF Appearances!WithTargetDefinitionsOf
<1> HIDE DEF v
<1>4. QED
  BY <1>1, <1>2, <1>3

-----------------------------------------------------------------------------
(* Types of the walk over the model.                                       *)

CallType == [obj : 1..Len(objects), from : 0..Len(objects)]

LEMMA CallsTyped ==
  ASSUME NEW S, NEW T, NEW objs \in Seq(S), NEW from \in T
  PROVE  Calls(objs, from) \in Seq([obj : S, from : T])
<1>1. Len(objs) \in Nat /\ \A i \in 1..Len(objs) : objs[i] \in S
  BY LenProperties, ElementOfSeq
<1> DEFINE U == [obj : S, from : T]
<1>2. Calls(objs, from) \in [1..Len(objs) -> U]
  BY <1>1 DEF Calls
<1> HIDE DEF U
<1>3. Calls(objs, from) \in Seq(U)
  BY <1>1, <1>2, SeqDef
<1>4. QED
  BY <1>3 DEF U

(* What is part of an object can be called.                                *)
LEMMA HeldCallsTyped ==
  ASSUME Len(objects) \in Nat, NEW kind, NEW objs \in Seq(Of(kind)), NEW from \in 0..Len(objects)
  PROVE  Calls(objs, from) \in Seq(CallType) /\ objs \in Seq(1..Len(objects))
<1>1. Of(kind) \subseteq 1..Len(objects)
  BY DEF Of
<1>2. objs \in Seq(1..Len(objects))
  BY <1>1, SeqMonotone
<1>3. QED
  BY <1>2, CallsTyped DEF CallType

LEMMA NextCallTyped ==
  ASSUME FinishTyped, NEW kind, NextCall(kind)
  PROVE  /\ Head(calls) \in CallType
         /\ Head(calls).obj \in Of(kind)
         /\ Tail(calls) \in Seq(CallType)
         /\ UNCHANGED <<objects, phase, modelThemes>>
<1>1. calls \in Seq(CallType) /\ calls # <<>>
  BY DEF FinishTyped, CallType, NextCall
<1>2. Head(calls) \in CallType /\ Tail(calls) \in Seq(CallType)
  BY <1>1, HeadTailProperties
<1>3. Head(calls).obj \in 1..Len(objects)
  BY <1>2 DEF CallType
<1>4. Head(calls).obj # 0
  BY <1>3
<1>5. objects[Head(calls).obj].kind = kind
  BY <1>4 DEF NextCall, KindOf
<1>6. Head(calls).obj \in Of(kind)
  BY <1>3, <1>5 DEF Of
<1>7. QED
  BY <1>2, <1>6 DEF NextCall

LEMMA FinishStepTyped ==
  ASSUME BuildInv, PartsTyped, AppearancesTyped, FinishTyped,
         \/ \E tesselator \in BOOLEAN : StartFinish(tesselator)
         \/ FinishCityObject \/ FinishImplicitGeometry \/ FinishGeometry \/ FinishPolygon
         \/ EndFinish
  PROVE  FinishTyped' /\ AppearancesTyped'
<1>1. /\ Len(objects) \in Nat /\ Len(objects) <= MaxObjects /\ MaxObjects \in Nat
      /\ UNCHANGED objects
      /\ \A k : Of(k)' = Of(k)
      /\ \A k : Of(k) \subseteq 1..Len(objects)
  BY TopAround, FactoryAssumption DEF BuildInv, PartsOK, StartFinish, FinishCityObject,
     FinishImplicitGeometry, FinishGeometry, FinishPolygon, EndFinish, NextCall, Of
<1>2. \A o \in 0..Len(objects) :
        /\ children[o] \in Seq(Of("cityobject")) /\ implicits[o] \in Seq(Of("implicit"))
        /\ geometries[o] \in Seq(Of("geometry")) /\ polygons[o] \in Seq(Of("polygon"))
  BY <1>1 DEF PartsTyped
<1>3. ASSUME calls' \in Seq(CallType), finished' \subseteq Of("geometry") \cup Of("polygon"),
             texCoords' \in [Object -> SUBSET TextureSlot], modelThemes' \subseteq Theme,
             phase' \in Phase
      PROVE  FinishTyped'
  BY <1>1, <1>3 DEF FinishTyped, CallType
<1>4. /\ calls \in Seq(CallType) /\ finished \subseteq Of("geometry") \cup Of("polygon")
      /\ texCoords \in [Object -> SUBSET TextureSlot] /\ modelThemes \subseteq Theme
      /\ phase \in Phase /\ themes \subseteq Theme
  BY DEF FinishTyped, CallType, AppearancesTyped
<1>5. ASSUME UNCHANGED <<surfaceData, appearances, definitions, materialDefs, textureDefs, themes,
                         appearance>>,
             slots' \in [Object -> [Appearances!Slot -> 0..Len(definitions)]]
      PROVE  AppearancesTyped'
  BY <1>5 DEF AppearancesTyped
<1>6. CASE \E tesselator \in BOOLEAN : StartFinish(tesselator)
  <2>1. AppearancesTyped'
    BY <1>6, AppearancesLeftAlone DEF StartFinish, appearanceManager, appearanceVars
  <2>2. Calls(children[0], 0) \in Seq(CallType)
    BY <1>1, <1>2, HeldCallsTyped
  <2>3. /\ calls' \in Seq(CallType) /\ modelThemes' \subseteq Theme /\ phase' \in Phase
        /\ UNCHANGED <<finished, texCoords>>
    BY <1>4, <1>6, <2>2 DEF StartFinish, Phase
  <2>4. QED
    BY <1>3, <1>4, <2>1, <2>3
<1>7. CASE FinishCityObject
  <2> DEFINE o == Head(calls).obj
  <2>1. o \in 0..Len(objects) /\ Tail(calls) \in Seq(CallType) /\ UNCHANGED <<phase, modelThemes>>
    BY <1>1, <1>7, NextCallTyped DEF FinishCityObject
  <2>2. /\ calls' = Calls(geometries[o] \o implicits[o] \o children[o], 0) \o Tail(calls)
        /\ UNCHANGED <<finished, texCoords, slots, surfaceData, appearances, appearance,
                       definitions, materialDefs, textureDefs, themes>>
    BY <1>7 DEF FinishCityObject, NextCall
  <2> HIDE DEF o
  <2>3. geometries[o] \o implicits[o] \o children[o] \in Seq(1..Len(objects))
    <3>1. 0 \in 0..Len(objects)
      BY <1>1
    <3>2. /\ geometries[o] \in Seq(1..Len(objects)) /\ implicits[o] \in Seq(1..Len(objects))
          /\ children[o] \in Seq(1..Len(objects))
      BY <1>1, <1>2, <2>1, <3>1, HeldCallsTyped
    <3> DEFINE S == 1..Len(objects)
    <3> HIDE DEF S
    <3>3. \A a, b, c \in Seq(S) : a \o b \o c \in Seq(S)
      <4>1. TAKE a, b, c \in Seq(S)
      <4>2. a \o b \in Seq(S) /\ b \o c \in Seq(S)
        BY ConcatProperties
      <4>3. QED
        BY <4>2, ConcatProperties
    <3>4. QED
      BY <3>2, <3>3 DEF S
  <2>4. calls' \in Seq(CallType)
    <3> DEFINE objs == geometries[o] \o implicits[o] \o children[o]
    <3>1. Calls(objs, 0) \in Seq(CallType)
      <4>1. 0 \in 0..Len(objects) /\ objs \in Seq(1..Len(objects))
        BY <1>1, <2>3
      <4> HIDE DEF objs
      <4>2. QED
        BY <4>1, CallsTyped DEF CallType
    <3>2. QED
      BY <2>1, <2>2, <3>1, ConcatProperties
  <2>5. AppearancesTyped'
    BY <2>2, AppearancesLeftAlone DEF appearanceVars
  <2>6. QED
    BY <1>3, <1>4, <2>1, <2>2, <2>4, <2>5
<1>8. CASE FinishImplicitGeometry
  <2> DEFINE o == Head(calls).obj
  <2>1. o \in 0..Len(objects) /\ Tail(calls) \in Seq(CallType) /\ UNCHANGED <<phase, modelThemes>>
    BY <1>1, <1>8, NextCallTyped DEF FinishImplicitGeometry
  <2>2. /\ calls' = Calls(geometries[o], 0) \o Tail(calls)
        /\ UNCHANGED <<finished, texCoords, slots, surfaceData, appearances, appearance,
                       definitions, materialDefs, textureDefs, themes>>
    BY <1>8 DEF FinishImplicitGeometry, NextCall
  <2> HIDE DEF o
  <2>3. calls' \in Seq(CallType)
    <3>1. Calls(geometries[o], 0) \in Seq(CallType)
      BY <1>1, <1>2, <2>1, HeldCallsTyped
    <3>2. QED
      BY <2>1, <2>2, <3>1, ConcatProperties
  <2>4. AppearancesTyped'
    BY <2>2, AppearancesLeftAlone DEF appearanceVars
  <2>5. QED
    BY <1>3, <1>4, <2>1, <2>2, <2>3, <2>4
<1>9. CASE FinishGeometry
  <2> DEFINE g == Head(calls).obj
             parts == Calls(geometries[g], g) \o Calls(polygons[g], g)
  <2>1. /\ g \in Of("geometry") /\ Tail(calls) \in Seq(CallType) /\ Head(calls) \in CallType
        /\ UNCHANGED <<phase, modelThemes>>
    BY <1>9, NextCallTyped DEF FinishGeometry
  <2>2. /\ calls' = (IF g \in finished THEN <<>> ELSE parts) \o Tail(calls)
        /\ slots' = Inherited(Head(calls)) /\ finished' = finished \cup {g}
        /\ UNCHANGED <<texCoords, surfaceData, appearances, appearance,
                       definitions, materialDefs, textureDefs, themes>>
    BY <1>9 DEF FinishGeometry, NextCall
  <2>3. g \in 0..Len(objects) /\ (Head(calls).from = 0 \/ Head(calls).from \in Object)
    BY <1>1, <2>1 DEF CallType, Object
  <2>4. AppearancesTyped'
    BY <1>5, <2>2, <2>3, InheritTyped
  <2> HIDE DEF g
  <2>5. parts \in Seq(CallType)
    <3>1. Calls(geometries[g], g) \in Seq(CallType) /\ Calls(polygons[g], g) \in Seq(CallType)
      BY <1>1, <1>2, <2>3, HeldCallsTyped
    <3>2. QED
      BY <3>1, ConcatProperties
  <2> HIDE DEF parts
  <2>6. calls' \in Seq(CallType)
    <3>1. (IF g \in finished THEN <<>> ELSE parts) \in Seq(CallType)
      BY <2>5, EmptySeq
    <3>2. QED
      BY <2>1, <2>2, <3>1, ConcatProperties
  <2>7. QED
    BY <1>3, <1>4, <2>1, <2>2, <2>4, <2>6
<1>10. CASE FinishPolygon
  <2> DEFINE p == Head(calls).obj
  <2>1. /\ p \in Of("polygon") /\ Tail(calls) \in Seq(CallType) /\ Head(calls) \in CallType
        /\ UNCHANGED <<phase, modelThemes>>
    BY <1>10, NextCallTyped DEF FinishPolygon
  <2>2. /\ calls' = Tail(calls)
        /\ slots' = Inherited(Head(calls)) /\ finished' = finished \cup {p}
        /\ UNCHANGED <<surfaceData, appearances, appearance,
                       definitions, materialDefs, textureDefs, themes>>
    BY <1>10 DEF FinishPolygon, NextCall
  <2>3. Head(calls).from = 0 \/ Head(calls).from \in Object
    BY <1>1, <2>1 DEF CallType, Object
  <2>4. AppearancesTyped'
    BY <1>5, <2>2, <2>3, InheritTyped
  <2>5. texCoords' \in [Object -> SUBSET TextureSlot]
    BY <1>4, <1>10 DEF FinishPolygon
  <2> HIDE DEF p
  <2>6. QED
    BY <1>3, <1>4, <2>1, <2>2, <2>4, <2>5
<1>11. CASE EndFinish
  <2>1. AppearancesTyped'
    BY <1>11, AppearancesLeftAlone DEF EndFinish, appearanceManager, appearanceVars
  <2>2. QED
    BY <1>3, <1>4, <1>11, <2>1 DEF EndFinish, Phase
<1>12. QED
  BY <1>6, <1>7, <1>8, <1>9, <1>10, <1>11

(* Parsing leaves the objects alone, or creates one.                       *)
LEMMA ParseKeepsKinds ==
  ASSUME BuildInv, PartsTyped, Parse
  PROVE  UNCHANGED objects \/ \E kind, d : Creates(kind, d)
<1>1. CASE StartCityObject
  <2>1. Open("cityobject", NoId, "+") /\ "cityobject" \in Kind
    BY <1>1 DEF StartCityObject, Kind
  <2>2. QED
    BY <2>1, OpenCreates
<1>2. CASE StartImplicitGeometry
  <2>1. Open("implicit", NoId, "+") /\ "implicit" \in Kind
    BY <1>2 DEF StartImplicitGeometry, Kind
  <2>2. QED
    BY <2>1, OpenCreates
<1>3. ASSUME NEW d \in Id \cup {NoId}, NEW s \in Orientation, StartGeometry(d, s)
      PROVE  \E kind, e : Creates(kind, e)
  <2>1. Open("geometry", d, s) /\ "geometry" \in Kind /\ s \in {"+", "-"}
    BY <1>3, FactoryAssumption DEF StartGeometry, Kind
  <2>2. QED
    BY <2>1, OpenCreates
<1>4. ASSUME NEW d \in Id \cup {NoId}, StartPolygon(d)
      PROVE  \E kind, e : Creates(kind, e)
  <2>1. Open("polygon", d, "+") /\ "polygon" \in Kind
    BY <1>4 DEF StartPolygon, Kind
  <2>2. QED
    BY <2>1, OpenCreates
<1>5. CASE EndCityObject \/ EndImplicitGeometry \/ EndGeometry \/ EndPolygon
  BY <1>5 DEF EndCityObject, EndImplicitGeometry, EndGeometry, EndPolygon
<1>6. CASE \E d \in Id \cup {NoId} : EndLonePolygon(d) \/ EndLineString(d)
  BY <1>6, EndLonePolygonCreates, EndLineStringCreates
<1>7. CASE \E d \in Id : LinkPolygon(d) \/ LinkGeometry(d)
  BY <1>7 DEF LinkPolygon, LinkGeometry, Link
<1>8. CASE ParseAppearances
  BY <1>8 DEF ParseAppearances, StartAppearance, LinkSurfaceData, StartSurfaceData, Target,
     EndSurfaceData, EndAppearance, InAppearance
<1>9. QED
  BY <1>1, <1>2, <1>3, <1>4, <1>5, <1>6, <1>7, <1>8 DEF Parse, ParseAppearances

LEMMA ParseWhileParsing ==
  ASSUME Parse
  PROVE  phase = "parsing" /\ UNCHANGED phase
  BY DEF Parse, StartCityObject, StartImplicitGeometry, StartGeometry, StartPolygon, Open,
     EndCityObject, EndImplicitGeometry, EndGeometry, EndPolygon, EndLonePolygon, EndLineString,
     Close, LinkPolygon, LinkGeometry, Link, StartAppearance, LinkSurfaceData, StartSurfaceData,
     Target, EndSurfaceData, EndAppearance, InAppearance

(* The walk has not begun.                                                 *)
LEMMA FinishStillTyped ==
  ASSUME BuildInv, FinishTyped, UNCHANGED objects \/ \E kind, d : Creates(kind, d),
         UNCHANGED finishVars, phase' \in Phase
  PROVE  FinishTyped'
<1>1. Len(objects) \in Nat /\ Len(objects') \in Nat /\ KindsKept
  BY TopAround DEF BuildInv, KindsKept, Creates
<1>2. \A k : Of(k) \subseteq Of(k)'
  BY <1>1, OfGrows
<1>3. CallType \subseteq CallType'
  BY <1>1 DEF CallType, KindsKept
<1>4. calls \in Seq(CallType) /\ finished \subseteq Of("geometry") \cup Of("polygon")
  BY DEF FinishTyped, CallType
<1>5. calls' \in Seq(CallType')
  BY <1>3, <1>4, SeqMonotone DEF finishVars
<1>6. calls' \in Seq([obj : 1..Len(objects'), from : 0..Len(objects')])
  BY <1>5 DEF CallType
<1>7. finished' \subseteq Of("geometry")' \cup Of("polygon")'
  <2>1. Of("geometry") \subseteq Of("geometry")' /\ Of("polygon") \subseteq Of("polygon")'
    BY <1>2
  <2>2. QED
    BY <1>4, <2>1 DEF finishVars
<1>8. QED
  BY <1>6, <1>7 DEF FinishTyped, finishVars

LEMMA StepKeepsTypes ==
  ASSUME TypeInv, [FinishNext]_vars
  PROVE  TypeInv'
<1>1. BuildInv'
  BY StepKeepsBuild DEF TypeInv
<1>2. PartsTyped' /\ ManagersTyped'
  BY StepKeepsParts DEF TypeInv
<1>3. BuildInv /\ PartsTyped /\ AppearancesTyped /\ FinishTyped
  BY DEF TypeInv
<1>4. CASE UNCHANGED vars
  <2>1. UNCHANGED <<objects, finishVars, phase>> /\ UNCHANGED appearanceVars
    BY <1>4 DEF vars, factoryVars, appearanceManager, appearanceVars
  <2>2. phase' \in Phase
    BY <1>3, <2>1 DEF FinishTyped
  <2>3. QED
    BY <1>1, <1>2, <1>3, <2>1, <2>2, FinishStillTyped, AppearancesLeftAlone DEF TypeInv
<1>5. CASE Parse /\ UNCHANGED finishVars
  <2>1. AppearancesTyped'
    BY <1>3, <1>5, ParseLeavesAppearances, AppearancesLeftAlone, ParseAppearancesTyped
  <2>2. phase' \in Phase
    BY <1>5, ParseWhileParsing DEF Phase
  <2>3. FinishTyped'
    BY <1>3, <1>5, <2>2, ParseKeepsKinds, FinishStillTyped
  <2>4. QED
    BY <1>1, <1>2, <2>1, <2>3 DEF TypeInv
<1>6. CASE (EndDocument \/ closeFactory) /\ UNCHANGED finishVars
  <2>1. UNCHANGED objects /\ phase' \in Phase
    BY <1>3, <1>6 DEF EndDocument, closeFactory, FinishPolygons, FinishGeometries,
       AssignAppearances, Phase, FinishTyped
  <2>2. AppearancesTyped'
    <3>1. CASE EndDocument \/ FinishPolygons \/ FinishGeometries
      BY <1>3, <3>1, AppearancesLeftAlone DEF EndDocument, FinishPolygons, FinishGeometries,
         appearanceManager, appearanceVars
    <3>2. QED
      BY <1>3, <1>6, <3>1, AssignAppearancesTyped DEF closeFactory
  <2>3. QED
    BY <1>1, <1>2, <1>3, <1>6, <2>1, <2>2, FinishStillTyped DEF TypeInv
<1>7. CASE \/ \E tesselator \in BOOLEAN : StartFinish(tesselator)
           \/ FinishCityObject \/ FinishImplicitGeometry \/ FinishGeometry \/ FinishPolygon
           \/ EndFinish
  BY <1>1, <1>2, <1>3, <1>7, FinishStepTyped DEF TypeInv
<1>8. QED
  BY <1>4, <1>5, <1>6, <1>7 DEF FinishNext

LEMMA TypesBegin == FinishInit => TypeInv
<1> SUFFICES ASSUME FinishInit PROVE TypeInv
  OBVIOUS
<1>1. BuildInv
  BY BuildBegins
<1>2. /\ objects = <<>> /\ calls = <<>> /\ finished = {} /\ modelThemes = {} /\ reversed = {}
      /\ texCoords = [o \in Object |-> {}] /\ phase = "parsing"
      /\ children = [o \in 0..MaxObjects |-> <<>>] /\ implicits = [o \in 0..MaxObjects |-> <<>>]
      /\ geometries = [o \in 0..MaxObjects |-> <<>>] /\ polygons = [o \in 0..MaxObjects |-> <<>>]
      /\ sharedPolygons = [d \in Id |-> 0] /\ polygonRequests = <<>>
      /\ sharedGeometries = [d \in Id |-> 0] /\ geometryRequests = <<>>
      /\ targets = [d \in Id |-> 0]
  BY DEF FinishInit, Init, Appearances!Empty
<1>3. PartsTyped /\ ManagersTyped
  BY <1>2 DEF PartsTyped, ManagersTyped
<1>4. FinishTyped
  BY <1>2 DEF FinishTyped, Phase
<1>5. AppearancesTyped
  <2>1. /\ surfaceData = <<>> /\ appearances = [d \in DataId |-> 0] /\ definitions = <<>>
        /\ appearance = [open |-> FALSE, members |-> {}, current |-> 0]
        /\ materialDefs = <<>> /\ textureDefs = <<>> /\ themes = {}
        /\ slots = [o \in Object |-> [s \in Appearances!Slot |-> 0]]
    BY DEF FinishInit, Init, Appearances!Empty, NoAppearance, Object
  <2>2. Len(surfaceData) = 0 /\ Len(definitions) = 0
    BY <2>1
  <2>3. QED
    BY <2>1, <2>2 DEF AppearancesTyped
<1>6. QED
  BY <1>1, <1>3, <1>4, <1>5 DEF TypeInv

(* Whatever a document holds, every reference the managers, the model and  *)
(* the appearances keep is one to an object of the right kind, or to none. *)
THEOREM TypeCorrect == Spec => []TypeOK
<1>1. TypeInv => TypeOK
  BY DEF TypeInv, BuildInv, PartsOK, PartsTyped, ManagersTyped, AppearancesTyped, FinishTyped,
     FullObjectType, TypeOK
<1>2. TypeInv /\ [FinishNext]_vars => TypeInv'
  BY StepKeepsTypes
<1>3. QED
  BY <1>1, <1>2, TypesBegin, PTL DEF Spec

-----------------------------------------------------------------------------
(* The themes of the model.                                                *)

(* Themes are collected as definitions are assigned, whether they find     *)
(* their targets or not, so a slot that is taken is one of a theme known.  *)
ThemesInv ==
  /\ \A o \in Object, s \in Appearances!Slot : slots[o][s] # 0 => s.theme \in themes
  /\ phase \in {"done", "unprocessed"} => modelThemes = themes

LEMMA AssignKeepsThemes ==
  ASSUME TypeInv, ThemesInv, NEW def, Appearances!Assign(def)
  PROVE  \A o \in Object, s \in Appearances!Slot : slots'[o][s] # 0 => s.theme \in themes'
<1> DEFINE x == targets[definitions[def].target]
           v == Appearances!WithTargetDefinition(x, def)
<1>1. /\ slots \in [Object -> [Appearances!Slot -> 0..Len(definitions)]]
      /\ slots' = slots \/ slots' = [slots EXCEPT ![x] = v]
      /\ themes' = themes \cup surfaceData[definitions[def].data].themes
  BY DEF TypeInv, AppearancesTyped, Appearances!Assign
<1>2. \A s \in Appearances!Slot :
        v[s] = slots[x][s] \/ s.theme \in surfaceData[definitions[def].data].themes
  BY DEF Appearances!WithTargetDefinition, Appearances!SlotsOf
<1> HIDE DEF x, v
<1>3. TAKE o \in Object, s \in Appearances!Slot
<1>4. slots'[o][s] = slots[o][s] \/ (o = x /\ slots'[o][s] = v[s])
  BY <1>1
<1>5. QED
  BY <1>1, <1>2, <1>4 DEF ThemesInv

LEMMA InheritKeepsThemes ==
  ASSUME TypeInv, ThemesInv, NEW call, call.from = 0 \/ call.from \in Object,
         slots' = Inherited(call), UNCHANGED themes
  PROVE  \A o \in Object, s \in Appearances!Slot : slots'[o][s] # 0 => s.theme \in themes'
<1> DEFINE v == Appearances!WithTargetDefinitionsOf(call.obj, call.from)
<1>1. /\ slots \in [Object -> [Appearances!Slot -> 0..Len(definitions)]]
      /\ slots' = slots \/ (call.from # 0 /\ slots' = [slots EXCEPT ![call.obj] = v])
  BY DEF TypeInv, AppearancesTyped, Inherited
<1>2. \A s \in Appearances!Slot : v[s] = slots[call.obj][s] \/ v[s] = slots[call.from][s]
  BY DEF Appearances!WithTargetDefinitionsOf
<1> HIDE DEF v
<1>3. TAKE o \in Object, s \in Appearances!Slot
<1>4. \/ slots'[o][s] = slots[o][s]
      \/ o = call.obj /\ call.from \in Object /\ slots'[o][s] = v[s]
  BY <1>1
<1>5. QED
  BY <1>2, <1>4 DEF ThemesInv

(* The call that comes next hands down nothing or what an object has.      *)
LEMMA NextCallFrom ==
  ASSUME TypeInv, NEW kind, NextCall(kind)
  PROVE  Head(calls).from = 0 \/ Head(calls).from \in Object
<1>1. Head(calls) \in CallType
  BY NextCallTyped DEF TypeInv
<1>2. Len(objects) \in Nat /\ Len(objects) <= MaxObjects /\ MaxObjects \in Nat
  BY TopAround, FactoryAssumption DEF TypeInv, BuildInv, PartsOK
<1>3. QED
  BY <1>1, <1>2 DEF CallType, Object

LEMMA StepKeepsThemes ==
  ASSUME TypeInv, ThemesInv, [FinishNext]_vars
  PROVE  ThemesInv'
<1>1. ASSUME UNCHANGED <<slots, themes>>, phase' \in {"done", "unprocessed"} => modelThemes' = themes
      PROVE  ThemesInv'
  BY <1>1 DEF ThemesInv
<1>2. CASE UNCHANGED vars
  BY <1>1, <1>2 DEF vars, factoryVars, appearanceManager, finishVars, ThemesInv
<1>3. CASE Parse /\ UNCHANGED finishVars
  <2>1. UNCHANGED <<slots, themes>>
    BY <1>3, ParseKeepsSlots, ParseLeavesAppearances DEF appearanceVars, ParseAppearances,
       StartAppearance, LinkSurfaceData, StartSurfaceData, Target, EndSurfaceData, EndAppearance,
       appearanceManager, Appearances!AddAppearance, Appearances!AddTargetDefinition,
       Appearances!AddToTheme
  <2>2. phase' = "parsing"
    BY <1>3, ParseWhileParsing
  <2>3. QED
    BY <1>1, <2>1, <2>2
<1>4. CASE EndDocument \/ FinishPolygons \/ FinishGeometries
  BY <1>1, <1>4 DEF EndDocument, FinishPolygons, FinishGeometries, appearanceManager
<1>5. CASE AssignAppearances
  <2>1. CASE Appearances!Clear
    BY <1>1, <1>5, <2>1 DEF AssignAppearances, Appearances!Clear
  <2>2. CASE Appearances!AssignMaterial \/ Appearances!AssignTexture
    <3>1. \E def : Appearances!Assign(def)
      BY <2>2 DEF Appearances!AssignMaterial, Appearances!AssignTexture
    <3>2. phase' = "appearances"
      BY <1>5, <2>2 DEF AssignAppearances, Appearances!AssignMaterial, Appearances!AssignTexture,
         Appearances!Clear
    <3>3. QED
      BY <3>1, <3>2, AssignKeepsThemes DEF ThemesInv
  <2>3. QED
    BY <1>5, <2>1, <2>2 DEF AssignAppearances
<1>6. CASE \E tesselator \in BOOLEAN : StartFinish(tesselator)
  BY <1>1, <1>6 DEF StartFinish, appearanceManager
<1>7. CASE FinishCityObject \/ FinishImplicitGeometry
  BY <1>1, <1>7 DEF FinishCityObject, FinishImplicitGeometry, NextCall
<1>8. CASE FinishGeometry \/ FinishPolygon
  <2>1. /\ slots' = Inherited(Head(calls)) /\ UNCHANGED themes /\ phase' = "finish"
        /\ \E kind : NextCall(kind)
    BY <1>8 DEF FinishGeometry, FinishPolygon, NextCall
  <2>2. Head(calls).from = 0 \/ Head(calls).from \in Object
    BY <2>1, NextCallFrom
  <2>3. QED
    BY <2>1, <2>2, InheritKeepsThemes DEF ThemesInv
<1>9. CASE EndFinish
  BY <1>1, <1>9 DEF EndFinish, appearanceManager
<1>10. QED
  BY <1>2, <1>3, <1>4, <1>5, <1>6, <1>7, <1>8, <1>9 DEF FinishNext, closeFactory

(* The themes a model lists are all those its geometries and polygons have *)
(* a material or texture for, assigned or handed down.                     *)
THEOREM EveryThemeListed == Spec => []ThemesListed
<1>1. FinishInit => ThemesInv
  BY DEF FinishInit, Init, Appearances!Empty, ThemesInv, Object
<1>2. TypeInv /\ ThemesInv /\ [FinishNext]_vars => TypeInv' /\ ThemesInv'
  BY StepKeepsTypes, StepKeepsThemes
<1>3. ThemesInv => ThemesListed
  BY DEF ThemesInv, ThemesListed
<1>4. QED
  BY <1>1, <1>2, <1>3, TypesBegin, PTL DEF Spec

-----------------------------------------------------------------------------
(* The definitions that are assigned to the objects they name.             *)

(* The objects an appearance can name by d, the last of them, and the      *)
(* first of some definitions; 0 where there are none.                      *)
Named(d)      == {o \in Of("geometry") \cup Of("polygon") : objects[o].id = d}
IsLast(t, S)  == (S = {} /\ t = 0) \/ (t \in S /\ \A o \in S : o <= t)
IsFirst(i, S) == (S = {} /\ i = 0) \/ (i \in S /\ \A j \in S : i <= j)

(* A definition waits in the queue of its kind, in the order of the        *)
(* document.                                                               *)
DataKind     == {"material", "texture"}
Queue(kind)  == IF kind = "material" THEN materialDefs ELSE textureDefs
KindOfDef(i) == surfaceData[definitions[i].data].kind
Waits(i)     == \E kind \in DataKind : i \in ToSet(Queue(kind))
Ordered(q)   == \A j, k \in 1..Len(q) : j < k => q[j] < q[k]

Fits(d, s) == {i \in 1..Len(definitions) : definitions[i].target = d /\ FitsSlot(i, s)}
Done(d, s) == {i \in Fits(d, s) : ~Waits(i)}

(* Before the appearances are assigned, and while they are.                *)
Resolving == phase \in {"parsing", "polygons", "geometries"}

TargetsLast ==
  Resolving \/ phase = "appearances" => \A d \in Id : IsLast(targets[d], Named(d))

QueuesOrdered ==
  \A kind \in DataKind :
    /\ Ordered(Queue(kind))
    /\ \A i \in ToSet(Queue(kind)) : KindOfDef(i) = kind
    /\ \A i \in 1..Len(definitions) :
         KindOfDef(i) = kind /\ ~Waits(i) => \A j \in ToSet(Queue(kind)) : i < j

NothingAssigned ==
  Resolving =>
    /\ \A o \in Object, s \in Appearances!Slot : slots[o][s] = 0
    /\ \A i \in 1..Len(definitions) : Waits(i)

AssignedFirst ==
  phase = "appearances" =>
    \A d \in Id, s \in Appearances!Slot :
      targets[d] # 0 => IsFirst(slots[targets[d]][s], Done(d, s))

(* When all are assigned, the targets are forgotten.                       *)
FirstOfAll(t, d) ==
  \A s \in Appearances!Slot :
    Fits(d, s) # {} => slots[t][s] \in Fits(d, s) /\ \A i \in Fits(d, s) : slots[t][s] <= i

AssignedForGood ==
  ~Resolving /\ phase # "appearances" =>
    \A d \in Id : \E t \in 0..Len(objects) : IsLast(t, Named(d)) /\ (t # 0 => FirstOfAll(t, d))

AssignInv ==
  TypeInv /\ TargetsLast /\ QueuesOrdered /\ NothingAssigned /\ AssignedFirst /\ AssignedForGood

-----------------------------------------------------------------------------
(* A definition that is new goes to the end, the next one is the first.    *)
LEMMA AppendToOrdered ==
  ASSUME NEW n \in Nat, NEW q \in Seq(1..n), Ordered(q)
  PROVE  /\ Ordered(Append(q, n + 1))
         /\ \A i : i \in ToSet(Append(q, n + 1)) <=> i \in ToSet(q) \/ i = n + 1
<1> DEFINE S == 1..(n + 1)
           r == Append(q, n + 1)
<1>1. /\ Len(q) \in Nat /\ DOMAIN q = 1..Len(q)
      /\ \A j \in 1..Len(q) : q[j] \in 1..n
  BY LenProperties, ElementOfSeq
<1>2. q \in Seq(S) /\ n + 1 \in S
  <2>1. 1..n \subseteq S /\ n + 1 \in S
    OBVIOUS
  <2> HIDE DEF S
  <2>2. QED
    BY <2>1, SeqMonotone
<1> HIDE DEF S
<1>3. /\ r \in Seq(S) /\ Len(r) = Len(q) + 1
      /\ \A j \in 1..Len(q) : r[j] = q[j]
      /\ r[Len(q) + 1] = n + 1
  BY <1>2, AppendProperties
<1>4. DOMAIN r = 1..(Len(q) + 1)
  BY <1>3, LenProperties
<1> HIDE DEF r
<1>5. Ordered(r)
  <2>1. SUFFICES ASSUME NEW j \in 1..Len(r), NEW k \in 1..Len(r), j < k
                 PROVE  r[j] < r[k]
    BY DEF Ordered
  <2>2. j \in 1..Len(q) /\ r[j] = q[j] /\ q[j] \in 1..n
    BY <1>1, <1>3, <2>1
  <2>3. CASE k = Len(q) + 1
    BY <1>3, <2>2, <2>3
  <2>4. CASE k # Len(q) + 1
    <3>1. k \in 1..Len(q) /\ r[k] = q[k]
      BY <1>1, <1>3, <2>4
    <3>2. q[j] < q[k]
      BY <2>1, <2>2, <3>1 DEF Ordered
    <3>3. QED
      BY <2>2, <3>1, <3>2
  <2>5. QED
    BY <2>3, <2>4
<1>6. \A i : i \in ToSet(r) <=> i \in ToSet(q) \/ i = n + 1
  <2>1. ToSet(r) = {r[j] : j \in 1..(Len(q) + 1)} /\ ToSet(q) = {q[j] : j \in 1..Len(q)}
    BY <1>1, <1>4 DEF ToSet
  <2>2. Len(q) + 1 \in 1..(Len(q) + 1) /\ 1..(Len(q) + 1) = 1..Len(q) \cup {Len(q) + 1}
    BY <1>1
  <2>3. QED
    BY <1>3, <2>1, <2>2
<1>7. QED
  BY <1>5, <1>6 DEF r

LEMMA HeadOfOrdered ==
  ASSUME NEW n \in Nat, NEW q \in Seq(1..n), Ordered(q), q # <<>>
  PROVE  /\ Head(q) \in 1..n /\ Head(q) \in ToSet(q)
         /\ Ordered(Tail(q))
         /\ \A i : i \in ToSet(Tail(q)) <=> i \in ToSet(q) /\ i # Head(q)
         /\ \A i \in ToSet(q) : Head(q) <= i
<1> DEFINE r == Tail(q)
<1>1. /\ Len(q) \in Nat /\ DOMAIN q = 1..Len(q) /\ Len(q) # 0
      /\ \A j \in 1..Len(q) : q[j] \in 1..n
  BY LenProperties, ElementOfSeq, EmptySeq
<1>2. /\ Head(q) = q[1]
      /\ r \in Seq(1..n) /\ Len(r) = Len(q) - 1
      /\ \A j \in 1..Len(r) : r[j] = q[j + 1]
  BY HeadTailProperties
<1>3. DOMAIN r = 1..(Len(q) - 1)
  BY <1>2, LenProperties
<1> HIDE DEF r
<1>4. Ordered(r)
  BY <1>1, <1>2 DEF Ordered
<1>5. ASSUME NEW i PROVE i \in ToSet(r) <=> i \in ToSet(q) /\ i # q[1]
  <2>1. ASSUME i \in ToSet(r) PROVE i \in ToSet(q) /\ i # q[1]
    <3>1. PICK j \in 1..(Len(q) - 1) : i = q[j + 1]
      BY <1>1, <1>2, <1>3, <2>1 DEF ToSet
    <3>2. j + 1 \in 1..Len(q) /\ 1 < j + 1 /\ 1 \in 1..Len(q)
      BY <1>1
    <3>3. q[1] < q[j + 1]
      BY <3>2 DEF Ordered
    <3>4. QED
      BY <1>1, <3>1, <3>2, <3>3 DEF ToSet
  <2>2. ASSUME i \in ToSet(q), i # q[1] PROVE i \in ToSet(r)
    <3>1. PICK j \in 1..Len(q) : i = q[j]
      BY <1>1, <2>2 DEF ToSet
    <3>2. j # 1
      BY <2>2, <3>1
    <3>3. j - 1 \in 1..(Len(q) - 1) /\ r[j - 1] = q[j]
      BY <1>1, <1>2, <3>1, <3>2
    <3>4. QED
      BY <1>3, <3>1, <3>3 DEF ToSet
  <2>3. QED
    BY <2>1, <2>2
<1>6. \A i \in ToSet(q) : q[1] <= i
  <2>1. TAKE i \in ToSet(q)
  <2>2. PICK j \in 1..Len(q) : i = q[j]
    BY <1>1 DEF ToSet
  <2>3. CASE j = 1
    BY <1>1, <2>2, <2>3
  <2>4. CASE j # 1
    <3>1. 1 \in 1..Len(q) /\ 1 < j
      BY <1>1, <2>2, <2>4
    <3>2. q[1] < q[j] /\ q[1] \in 1..n /\ q[j] \in 1..n
      BY <1>1, <2>2, <3>1 DEF Ordered
    <3>3. QED
      BY <2>2, <3>2
  <2>5. QED
    BY <2>3, <2>4
<1>7. QED
  BY <1>1, <1>2, <1>4, <1>5, <1>6 DEF r, ToSet

-----------------------------------------------------------------------------
(* The targets while the document is parsed.                               *)
LEMMA ParseTargets ==
  ASSUME BuildInv, PartsTyped, Parse
  PROVE  \/ UNCHANGED <<objects, targets>>
         \/ \E kind \in {"cityobject", "implicit"} : \E d : Creates(kind, d) /\ UNCHANGED targets
         \/ \E kind \in {"geometry", "polygon"}, d \in Id \cup {NoId} :
              Creates(kind, d) /\ Appearances!AddAppearanceTarget(d, Fresh)
<1>1. CASE StartCityObject \/ StartImplicitGeometry
  <2>1. PICK kind \in {"cityobject", "implicit"} : Open(kind, NoId, "+")
    BY <1>1 DEF StartCityObject, StartImplicitGeometry
  <2>2. kind \in Kind
    BY DEF Kind
  <2>3. Creates(kind, NoId)
    BY <2>1, <2>2, OpenCreates
  <2>4. UNCHANGED targets
    BY <1>1 DEF StartCityObject, StartImplicitGeometry, appearanceManager
  <2>5. QED
    BY <2>3, <2>4
<1>2. ASSUME NEW d \in Id \cup {NoId}, NEW s \in Orientation, StartGeometry(d, s)
      PROVE  Creates("geometry", d) /\ Appearances!AddAppearanceTarget(d, Fresh)
  <2>1. Open("geometry", d, s) /\ "geometry" \in Kind /\ s \in {"+", "-"}
    BY <1>2, FactoryAssumption DEF StartGeometry, Kind
  <2>2. QED
    BY <1>2, <2>1, OpenCreates DEF StartGeometry
<1>3. ASSUME NEW d \in Id \cup {NoId}, StartPolygon(d)
      PROVE  Creates("polygon", d) /\ Appearances!AddAppearanceTarget(d, Fresh)
  <2>1. Open("polygon", d, "+") /\ "polygon" \in Kind
    BY <1>3 DEF StartPolygon, Kind
  <2>2. QED
    BY <1>3, <2>1, OpenCreates DEF StartPolygon
<1>4. ASSUME NEW d \in Id \cup {NoId}, EndLonePolygon(d) \/ EndLineString(d)
      PROVE  Creates("geometry", d) /\ Appearances!AddAppearanceTarget(d, Fresh)
  BY <1>4, EndLonePolygonCreates, EndLineStringCreates DEF EndLonePolygon, EndLineString
<1>5. CASE EndCityObject \/ EndImplicitGeometry \/ EndGeometry \/ EndPolygon
  BY <1>5 DEF EndCityObject, EndImplicitGeometry, EndGeometry, EndPolygon, appearanceManager
<1>6. CASE \E d \in Id : LinkPolygon(d) \/ LinkGeometry(d)
  BY <1>6 DEF LinkPolygon, LinkGeometry, Link, appearanceManager
<1>7. CASE ParseAppearances
  BY <1>7 DEF ParseAppearances, StartAppearance, LinkSurfaceData, StartSurfaceData, Target,
     EndSurfaceData, EndAppearance, InAppearance, appearanceManager, Appearances!AddAppearance,
     Appearances!AddTargetDefinition, Appearances!AddToTheme
<1>8. QED
  BY <1>1, <1>2, <1>3, <1>4, <1>5, <1>6, <1>7 DEF Parse, ParseAppearances

(* The objects of a name, when one more is created.                        *)
LEMMA NamedGrows ==
  ASSUME BuildInv, NEW kind, NEW d, Creates(kind, d), NEW e
  PROVE  /\ Named(e)' = IF kind \in {"geometry", "polygon"} /\ d = e THEN Named(e) \cup {Fresh}
                        ELSE Named(e)
         /\ Named(e) \subseteq 1..Len(objects)
         /\ \A o \in Named(e) : o <= Fresh
         /\ Fresh # 0
<1>1. /\ Len(objects) \in Nat /\ Len(objects') = Len(objects) + 1 /\ Fresh = Len(objects) + 1
      /\ \A o \in 1..Len(objects) : objects'[o].kind = objects[o].kind /\ objects'[o].id = objects[o].id
      /\ objects'[Fresh].kind = kind /\ objects'[Fresh].id = d
  BY TopAround DEF BuildInv, Creates, Fresh
<1> HIDE DEF Fresh
<1>2. Named(e) = {o \in 1..Len(objects) : objects[o].kind \in {"geometry", "polygon"} /\ objects[o].id = e}
  BY DEF Named, Of
<1>3. Named(e)' = {o \in 1..Len(objects') : objects'[o].kind \in {"geometry", "polygon"} /\ objects'[o].id = e}
  BY DEF Named, Of
<1>4. QED
  BY <1>1, <1>2, <1>3

LEMMA ParseKeepsTargetsLast ==
  ASSUME TypeInv, TargetsLast, Parse
  PROVE  TargetsLast'
<1>1. /\ BuildInv /\ PartsTyped /\ targets \in [Id -> Of("geometry") \cup Of("polygon") \cup {0}]
      /\ \A d \in Id : IsLast(targets[d], Named(d))
  BY ParseWhileParsing DEF TypeInv, ManagersTyped, TargetsLast, Resolving
<1>2. CASE UNCHANGED <<objects, targets>>
  BY <1>1, <1>2 DEF TargetsLast, Named, Of
<1>3. ASSUME NEW kind \in {"cityobject", "implicit"}, NEW d, Creates(kind, d), UNCHANGED targets
      PROVE  TargetsLast'
  <2>1. \A e \in Id : Named(e)' = Named(e)
    BY <1>1, <1>3, NamedGrows
  <2>2. QED
    BY <1>1, <1>3, <2>1 DEF TargetsLast, IsLast
<1>4. ASSUME NEW kind \in {"geometry", "polygon"}, NEW d \in Id \cup {NoId}, Creates(kind, d),
             Appearances!AddAppearanceTarget(d, Fresh)
      PROVE  TargetsLast'
  <2>1. targets' = IF d = NoId THEN targets ELSE [targets EXCEPT ![d] = Fresh]
    BY <1>4 DEF Appearances!AddAppearanceTarget
  <2>2. ASSUME NEW e \in Id PROVE IsLast(targets'[e], Named(e)')
    <3>1. e # NoId
      BY FactoryAssumption
    <3>2. CASE e = d
      <4>1. targets'[e] = Fresh /\ Named(e)' = Named(e) \cup {Fresh}
        BY <1>1, <1>4, <2>1, <3>1, <3>2, NamedGrows
      <4>2. (\A o \in Named(e) : o <= Fresh) /\ Fresh \in Nat
        BY <1>1, <1>4, NamedGrows, TopAround DEF Fresh, BuildInv
      <4>3. QED
        BY <4>1, <4>2 DEF IsLast
    <3>3. CASE e # d
      <4>1. targets'[e] = targets[e] /\ Named(e)' = Named(e)
        BY <1>1, <1>4, <2>1, <3>3, NamedGrows
      <4>2. QED
        BY <1>1, <4>1
    <3>4. QED
      BY <3>2, <3>3
  <2>3. QED
    BY <2>2 DEF TargetsLast
<1>5. QED
  BY <1>1, <1>2, <1>3, <1>4, ParseTargets

-----------------------------------------------------------------------------
(* Definitions and their queues.                                           *)
LEMMA DefinitionKinds ==
  ASSUME AppearancesTyped
  PROVE  /\ Len(definitions) \in Nat
         /\ \A i \in 1..Len(definitions) :
              definitions[i].data \in 1..Len(surfaceData) /\ KindOfDef(i) \in DataKind
         /\ \A kind : Queue(kind) \in Seq(1..Len(definitions))
         /\ \A kind : ToSet(Queue(kind)) \subseteq 1..Len(definitions)
<1>1. /\ surfaceData \in Seq(Data)
      /\ definitions \in Seq([target : Id, data : 1..Len(surfaceData)])
      /\ materialDefs \in Seq(1..Len(definitions)) /\ textureDefs \in Seq(1..Len(definitions))
  BY DEF AppearancesTyped
<1>2. \A i \in 1..Len(definitions) : definitions[i] \in [target : Id, data : 1..Len(surfaceData)]
  <2> DEFINE S == [target : Id, data : 1..Len(surfaceData)]
  <2>1. definitions \in Seq(S)
    BY <1>1
  <2> HIDE DEF S
  <2>2. \A i \in 1..Len(definitions) : definitions[i] \in S
    BY <2>1, ElementOfSeq
  <2>3. QED
    BY <2>2 DEF S
<1>3. \A i \in 1..Len(surfaceData) : surfaceData[i].kind \in DataKind
  <2>1. \A i \in 1..Len(surfaceData) : surfaceData[i] \in Data
    BY <1>1, ElementOfSeq
  <2>2. QED
    BY <2>1 DEF Data, DataKind
<1>4. \A kind : Queue(kind) \in Seq(1..Len(definitions))
  BY <1>1 DEF Queue
<1>5. \A kind : ToSet(Queue(kind)) \subseteq 1..Len(definitions)
  BY <1>4, ElementOfSeq, LenProperties DEF ToSet
<1>6. QED
  BY <1>1, <1>2, <1>3, <1>4, <1>5, LenProperties DEF KindOfDef

LEMMA QueuesKept ==
  ASSUME AppearancesTyped, QueuesOrdered, UNCHANGED <<definitions, materialDefs, textureDefs>>,
         \A i \in 1..Len(surfaceData) : surfaceData'[i].kind = surfaceData[i].kind
  PROVE  QueuesOrdered' /\ \A i \in 1..Len(definitions) : Waits(i)' = Waits(i)
<1>1. \A i \in 1..Len(definitions) : KindOfDef(i)' = KindOfDef(i)
  BY DefinitionKinds DEF KindOfDef
<1>2. \A kind : Queue(kind)' = Queue(kind)
  BY DEF Queue
<1>3. \A i \in 1..Len(definitions) : Waits(i)' = Waits(i)
  BY <1>1, <1>2 DEF Waits
<1>4. ASSUME NEW kind \in DataKind
      PROVE  /\ Ordered(Queue(kind)')
             /\ \A i \in ToSet(Queue(kind)') : KindOfDef(i)' = kind
             /\ \A i \in 1..Len(definitions) :
                  KindOfDef(i)' = kind /\ ~Waits(i)' => \A j \in ToSet(Queue(kind)') : i < j
  BY <1>1, <1>2, <1>3, DefinitionKinds DEF QueuesOrdered
<1>5. QED
  BY <1>3, <1>4 DEF QueuesOrdered

(* A definition more.                                                      *)
LEMMA TargetKeepsQueues ==
  ASSUME AppearancesTyped, QueuesOrdered, \A i \in 1..Len(definitions) : Waits(i),
         NEW d \in Id, Target(d)
  PROVE  QueuesOrdered' /\ \A i \in 1..Len(definitions') : Waits(i)'
<1> DEFINE new == [target |-> d, data |-> appearance.current]
           n   == Len(definitions)
           k   == surfaceData[appearance.current].kind
<1>1. /\ definitions' = Append(definitions, new) /\ UNCHANGED surfaceData
      /\ k = "material" => materialDefs' = Append(materialDefs, n + 1) /\ UNCHANGED textureDefs
      /\ k # "material" => textureDefs' = Append(textureDefs, n + 1) /\ UNCHANGED materialDefs
  BY DEF Target, Appearances!AddTargetDefinition
<1>2. /\ new \in [target : Id, data : 1..Len(surfaceData)]
      /\ definitions \in Seq([target : Id, data : 1..Len(surfaceData)])
      /\ k \in DataKind
  <2>1. /\ appearance.current \in 0..Len(surfaceData) /\ appearance.current # 0
        /\ surfaceData \in Seq(Data)
        /\ definitions \in Seq([target : Id, data : 1..Len(surfaceData)])
    BY DEF AppearancesTyped, Target
  <2>2. appearance.current \in 1..Len(surfaceData)
    BY <2>1, LenProperties
  <2>3. surfaceData[appearance.current] \in Data
    BY <2>1, <2>2, ElementOfSeq
  <2>4. QED
    BY <2>1, <2>2, <2>3 DEF Data, DataKind
<1>3. new.data = appearance.current
  OBVIOUS
<1> HIDE DEF new
<1>4. /\ n \in Nat /\ Len(definitions') = n + 1
      /\ \A i \in 1..n : definitions'[i] = definitions[i]
      /\ definitions'[n + 1] = new
  BY <1>1, <1>2, AppendProperties, LenProperties
<1>5. /\ \A i \in 1..n : KindOfDef(i)' = KindOfDef(i)
      /\ \A i : i = n + 1 => KindOfDef(i)' = k
  <2>1. UNCHANGED surfaceData
    BY <1>1
  <2>2. QED
    BY <1>3, <1>4, <2>1 DEF KindOfDef
<1>6. \A kind \in DataKind : Queue(kind)' = IF kind = k THEN Append(Queue(kind), n + 1) ELSE Queue(kind)
  BY <1>1, <1>2 DEF Queue, DataKind
<1> HIDE DEF k, n
<1>7. \A kind \in DataKind :
        /\ Queue(kind) \in Seq(1..n) /\ ToSet(Queue(kind)) \subseteq 1..n /\ Ordered(Queue(kind))
        /\ \A i \in ToSet(Queue(kind)) : KindOfDef(i) = kind
  BY DefinitionKinds DEF QueuesOrdered, n
<1>8. ASSUME NEW kind \in DataKind
      PROVE  /\ Ordered(Queue(kind)')
             /\ \A i : i \in ToSet(Queue(kind)') <=> i \in ToSet(Queue(kind)) \/ (kind = k /\ i = n + 1)
  <2>1. CASE kind = k
    BY <1>4, <1>6, <1>7, <2>1, AppendToOrdered
  <2>2. CASE kind # k
    BY <1>6, <1>7, <2>2
  <2>3. QED
    BY <2>1, <2>2
<1>9. ASSUME NEW i \in 1..(n + 1) PROVE Waits(i)'
  <2>1. CASE i = n + 1
    BY <1>2, <1>5, <1>8, <2>1 DEF Waits
  <2>2. CASE i # n + 1
    <3>1. i \in 1..n
      BY <1>4, <2>2
    <3>2. Waits(i) /\ KindOfDef(i) \in DataKind
      BY <3>1, DefinitionKinds DEF n
    <3>3. QED
      BY <1>5, <1>8, <3>1, <3>2 DEF Waits
  <2>3. QED
    BY <2>1, <2>2
<1>10. ASSUME NEW kind \in DataKind
       PROVE  \A i \in ToSet(Queue(kind)') : KindOfDef(i)' = kind
  BY <1>5, <1>7, <1>8
<1>11. QED
  BY <1>4, <1>8, <1>9, <1>10 DEF QueuesOrdered

LEMMA ParseKeepsQueues ==
  ASSUME TypeInv, QueuesOrdered, NothingAssigned, Parse
  PROVE  QueuesOrdered' /\ NothingAssigned'
<1>1. AppearancesTyped /\ Resolving /\ Resolving' /\ UNCHANGED slots
  BY ParseWhileParsing, ParseKeepsSlots DEF TypeInv, Resolving
<1>2. /\ \A o \in Object, s \in Appearances!Slot : slots'[o][s] = 0
      /\ \A i \in 1..Len(definitions) : Waits(i)
  BY <1>1 DEF NothingAssigned
<1>3. ASSUME UNCHANGED <<definitions, materialDefs, textureDefs>>,
             \A i \in 1..Len(surfaceData) : surfaceData'[i].kind = surfaceData[i].kind
      PROVE  QueuesOrdered' /\ NothingAssigned'
  <2>1. QueuesOrdered' /\ \A i \in 1..Len(definitions) : Waits(i)'
    BY <1>1, <1>2, <1>3, QueuesKept
  <2>2. QED
    BY <1>2, <1>3, <2>1 DEF NothingAssigned, Object, Appearances!Slot
<1>4. CASE UNCHANGED appearanceVars
  BY <1>3, <1>4 DEF appearanceVars
<1>5. CASE StartAppearance \/ (\E d \in DataId : LinkSurfaceData(d)) \/ EndSurfaceData
  BY <1>3, <1>5 DEF StartAppearance, LinkSurfaceData, EndSurfaceData, appearanceManager
<1>6. ASSUME NEW k \in {"material", "texture"}, NEW d \in DataId \cup {NoId},
             NEW front \in Side, StartSurfaceData(k, d, front)
      PROVE  QueuesOrdered' /\ NothingAssigned'
  <2> DEFINE new == [kind |-> k, front |-> front, themes |-> {}]
  <2>1. /\ surfaceData \in Seq(Data) /\ surfaceData' = Append(surfaceData, new)
        /\ UNCHANGED <<definitions, materialDefs, textureDefs>>
    BY <1>1, <1>6 DEF StartSurfaceData, Appearances!AddAppearance, AppearancesTyped
  <2>2. new \in Data
    BY DEF Data
  <2> HIDE DEF new
  <2>3. \A i \in 1..Len(surfaceData) : surfaceData'[i] = surfaceData[i]
    BY <2>1, <2>2, AppendProperties
  <2>4. QED
    BY <1>3, <2>1, <2>3
<1>7. ASSUME NEW t \in Theme, EndAppearance(t)
      PROVE  QueuesOrdered' /\ NothingAssigned'
  <2>1. \A i \in 1..Len(surfaceData) : surfaceData'[i].kind = surfaceData[i].kind
    BY <1>1, <1>7, EndAppearanceTyped
  <2>2. UNCHANGED <<definitions, materialDefs, textureDefs>>
    BY <1>7 DEF EndAppearance, Appearances!AddToTheme
  <2>3. QED
    BY <1>3, <2>1, <2>2
<1>8. ASSUME NEW d \in Id, Target(d)
      PROVE  QueuesOrdered' /\ NothingAssigned'
  <2>1. QueuesOrdered' /\ \A i \in 1..Len(definitions') : Waits(i)'
    BY <1>1, <1>2, <1>8, TargetKeepsQueues
  <2>2. QED
    BY <1>2, <2>1 DEF NothingAssigned, Object, Appearances!Slot
<1>9. QED
  BY <1>4, <1>5, <1>6, <1>7, <1>8, ParseLeavesAppearances DEF ParseAppearances

-----------------------------------------------------------------------------
(* The assignment.                                                         *)
LEMMA DefinitionsFit ==
  ASSUME AppearancesTyped, NEW d, NEW s
  PROVE  /\ Fits(d, s) \subseteq 1..Len(definitions)
         /\ Done(d, s) \subseteq Fits(d, s)
         /\ \A i \in Fits(d, s) : i # 0 /\ i \in Nat /\ KindOfDef(i) = s.kind
<1>1. Len(definitions) \in Nat
  BY DefinitionKinds
<1>2. QED
  BY <1>1 DEF Fits, Done, FitsSlot, KindOfDef

(* A target is an object, known by one name only.                          *)
LEMMA TargetNamed ==
  ASSUME TypeInv, TargetsLast, phase = "appearances", NEW d \in Id, targets[d] # 0
  PROVE  targets[d] \in Object /\ objects[targets[d]].id = d
<1>1. IsLast(targets[d], Named(d))
  BY DEF TargetsLast
<1>2. targets[d] \in 1..Len(objects) /\ objects[targets[d]].id = d
  BY <1>1 DEF IsLast, Named, Of
<1>3. Len(objects) \in Nat /\ Len(objects) <= MaxObjects /\ MaxObjects \in Nat
  BY TopAround, FactoryAssumption DEF TypeInv, BuildInv, PartsOK
<1>4. QED
  BY <1>2, <1>3 DEF Object

(* The first definition in a queue is assigned and leaves it.              *)
LEMMA OneAssigned ==
  ASSUME TypeInv, TargetsLast, QueuesOrdered, AssignedFirst, phase = "appearances",
         NEW kind \in DataKind, Queue(kind) # <<>>, Appearances!Assign(Head(Queue(kind))),
         \A k \in DataKind : Queue(k)' = IF k = kind THEN Tail(Queue(k)) ELSE Queue(k),
         UNCHANGED <<surfaceData, definitions, targets>>
  PROVE  QueuesOrdered' /\ AssignedFirst'
<1> DEFINE n   == Len(definitions)
           def == Head(Queue(kind))
<1>1. AppearancesTyped /\ n \in Nat
  BY DefinitionKinds DEF TypeInv
<1>2. \A k \in DataKind :
        /\ Queue(k) \in Seq(1..n) /\ ToSet(Queue(k)) \subseteq 1..n /\ Ordered(Queue(k))
        /\ \A i \in ToSet(Queue(k)) : KindOfDef(i) = k
        /\ \A i \in 1..n : KindOfDef(i) = k /\ ~Waits(i) => \A j \in ToSet(Queue(k)) : i < j
  BY <1>1, DefinitionKinds DEF QueuesOrdered
<1>3. /\ def \in 1..n /\ def \in ToSet(Queue(kind))
      /\ Ordered(Tail(Queue(kind)))
      /\ \A i : i \in ToSet(Tail(Queue(kind))) <=> i \in ToSet(Queue(kind)) /\ i # def
      /\ \A i \in ToSet(Queue(kind)) : def <= i
  BY <1>1, <1>2, HeadOfOrdered
<1>4. KindOfDef(def) = kind /\ Waits(def)
  BY <1>2, <1>3 DEF Waits
<1>5. Appearances!Assign(def)
  OBVIOUS
<1> HIDE DEF n, def
<1>6. \A i : KindOfDef(i)' = KindOfDef(i)
  BY DEF KindOfDef
<1>7. ASSUME NEW k \in DataKind
      PROVE  /\ Ordered(Queue(k)')
             /\ \A i : i \in ToSet(Queue(k)') <=> i \in ToSet(Queue(k)) /\ i # def
  <2>1. CASE k = kind
    BY <1>3, <2>1
  <2>2. CASE k # kind
    BY <1>2, <1>4, <2>2
  <2>3. QED
    BY <2>1, <2>2
<1>8. \A i : Waits(i)' <=> Waits(i) /\ i # def
  BY <1>7 DEF Waits
<1>9. QueuesOrdered'
  <2>1. ASSUME NEW k \in DataKind, NEW i \in 1..n, KindOfDef(i) = k, ~Waits(i)',
               NEW j \in ToSet(Queue(k)')
        PROVE  i < j
    <3>1. j \in ToSet(Queue(k)) /\ j # def
      BY <1>7
    <3>2. CASE i = def
      <4>1. k = kind
        BY <1>4, <2>1, <3>2
      <4>2. def <= j /\ j \in 1..n
        BY <1>2, <1>3, <3>1, <4>1
      <4>3. QED
        BY <1>1, <1>3, <3>1, <3>2, <4>2
    <3>3. CASE i # def
      BY <1>2, <1>8, <2>1, <3>1, <3>3
    <3>4. QED
      BY <3>2, <3>3
  <2>2. ASSUME NEW k \in DataKind
        PROVE  \A i \in ToSet(Queue(k)') : KindOfDef(i) = k
    BY <1>2, <1>7
  <2>3. Len(definitions') = n
    BY DEF n
  <2>4. QED
    BY <1>6, <1>7, <2>1, <2>2, <2>3 DEF QueuesOrdered
<1>10. ASSUME NEW d \in Id, NEW s \in Appearances!Slot, targets[d] # 0
       PROVE  IsFirst(slots'[targets[d]][s], Done(d, s)')
  <2> DEFINE t == targets[d]
  <2>1. Fits(d, s)' = Fits(d, s)
    BY DEF Fits, FitsSlot
  <2>2. Done(d, s)' = IF def \in Fits(d, s) THEN Done(d, s) \cup {def} ELSE Done(d, s)
    BY <1>4, <1>8, <2>1 DEF Done
  <2>3. IsFirst(slots[t][s], Done(d, s))
    BY <1>10 DEF AssignedFirst
  <2>4. t \in Object /\ objects[t].id = d /\ t # 0
    BY <1>10, TargetNamed
  <2>5. definitions[def].target \in Id
    <3> DEFINE S == [target : Id, data : 1..Len(surfaceData)]
    <3>1. definitions \in Seq(S)
      BY <1>1 DEF AppearancesTyped
    <3> HIDE DEF S
    <3>2. definitions[def] \in S
      BY <1>3, <3>1, ElementOfSeq DEF n
    <3>3. QED
      BY <3>2 DEF S
  <2> DEFINE o == targets[definitions[def].target]
             v == Appearances!WithTargetDefinition(o, def)
  <2>6. /\ slots' = IF o = 0 THEN slots ELSE [slots EXCEPT ![o] = v]
        /\ slots \in [Object -> [Appearances!Slot -> 0..Len(definitions)]]
    BY <1>1, <1>5 DEF Appearances!Assign, AppearancesTyped
  <2>7. /\ def \in Fits(d, s) => definitions[def].target = d /\ s \in Appearances!SlotsOf(def)
        /\ definitions[def].target = d /\ s \in Appearances!SlotsOf(def) => def \in Fits(d, s)
    BY <1>3 DEF Fits, FitsSlot, Appearances!SlotsOf, n
  <2>8. v[s] = IF s \in Appearances!SlotsOf(def) /\ slots[o][s] = 0 THEN def ELSE slots[o][s]
    BY DEF Appearances!WithTargetDefinition
  <2>9. o = t => definitions[def].target = d
    BY <2>4, <2>5, TargetNamed
  <2>10. Done(d, s) \subseteq Nat /\ 0 \notin Done(d, s) /\ def \in Nat
    BY <1>1, <1>3, DefinitionsFit
  <2> HIDE DEF v
  <2>11. CASE def \in Fits(d, s)
    <3>1. /\ o = t /\ Done(d, s)' = Done(d, s) \cup {def}
          /\ slots'[t][s] = IF slots[t][s] = 0 THEN def ELSE slots[t][s]
      BY <2>2, <2>4, <2>6, <2>7, <2>8, <2>11
    <3>2. ASSUME slots[t][s] # 0 PROVE slots[t][s] < def
      <4>1. slots[t][s] \in Done(d, s)
        BY <2>3, <3>2 DEF IsFirst
      <4>2. /\ slots[t][s] \in 1..n /\ ~Waits(slots[t][s])
            /\ KindOfDef(slots[t][s]) = s.kind /\ KindOfDef(def) = s.kind
        BY <1>1, <2>11, <4>1, DefinitionsFit DEF Done, n
      <4>3. QED
        BY <1>2, <1>3, <1>4, <4>2
    <3>3. CASE slots[t][s] = 0
      <4>1. Done(d, s) = {}
        BY <2>3, <2>10, <3>3 DEF IsFirst
      <4>2. QED
        BY <2>10, <3>1, <3>3, <4>1 DEF IsFirst
    <3>4. CASE slots[t][s] # 0
      <4>1. slots[t][s] \in Done(d, s) /\ \A j \in Done(d, s) : slots[t][s] <= j
        BY <2>3, <3>4 DEF IsFirst
      <4>2. slots[t][s] <= def
        BY <2>10, <3>2, <3>4, <4>1
      <4>3. QED
        BY <3>1, <3>4, <4>1, <4>2 DEF IsFirst
    <3>5. QED
      BY <3>3, <3>4
  <2>12. CASE def \notin Fits(d, s)
    <3>1. slots'[t][s] = slots[t][s]
      <4>1. CASE o = t
        BY <2>4, <2>6, <2>7, <2>8, <2>9, <2>12, <4>1
      <4>2. CASE o # t
        BY <2>4, <2>6, <4>2
      <4>3. QED
        BY <4>1, <4>2
    <3>2. QED
      BY <2>2, <2>3, <2>12, <3>1
  <2>13. QED
    BY <2>11, <2>12
<1>11. QED
  BY <1>9, <1>10 DEF AssignedFirst, Appearances!Slot

-----------------------------------------------------------------------------
(* What no step of the assignment changes.                                 *)
LEMMA NothingNew ==
  ASSUME AppearancesTyped, QueuesOrdered,
         UNCHANGED <<objects, surfaceData, definitions, materialDefs, textureDefs>>
  PROVE  /\ QueuesOrdered'
         /\ \A i \in 1..Len(definitions) : Waits(i)' = Waits(i)
         /\ \A d : Named(d)' = Named(d)
         /\ \A d, s : Fits(d, s)' = Fits(d, s) /\ Done(d, s)' = Done(d, s)
<1>1. QueuesOrdered' /\ \A i \in 1..Len(definitions) : Waits(i)' = Waits(i)
  BY QueuesKept
<1>2. \A d : Named(d)' = Named(d)
  BY DEF Named, Of
<1>3. \A d, s : Fits(d, s)' = Fits(d, s) /\ Fits(d, s) \subseteq 1..Len(definitions)
  BY DEF Fits, FitsSlot
<1>4. \A d, s : Done(d, s)' = Done(d, s)
  BY <1>1, <1>3 DEF Done
<1>5. QED
  BY <1>1, <1>2, <1>3, <1>4

(* The end of the document, and the references it left open.               *)
LEMMA ResolveKeepsAssign ==
  ASSUME AssignInv, TypeInv', UNCHANGED vars \/ EndDocument \/ FinishPolygons \/ FinishGeometries
  PROVE  AssignInv'
<1>1. /\ UNCHANGED <<objects, surfaceData, definitions, materialDefs, textureDefs, targets, slots>>
      /\ AppearancesTyped /\ QueuesOrdered
  BY DEF vars, factoryVars, EndDocument, FinishPolygons, FinishGeometries, appearanceManager,
     AssignInv, TypeInv
<1>2. /\ QueuesOrdered'
      /\ \A i \in 1..Len(definitions) : Waits(i)' = Waits(i)
      /\ \A d : Named(d)' = Named(d)
      /\ \A d, s : Fits(d, s)' = Fits(d, s) /\ Done(d, s)' = Done(d, s)
  BY <1>1, NothingNew
<1>3. /\ Resolving' => Resolving
      /\ phase' = "appearances" => Resolving \/ phase = "appearances"
      /\ ~Resolving' /\ phase' # "appearances" => ~Resolving /\ phase # "appearances"
  BY DEF vars, factoryVars, EndDocument, FinishPolygons, FinishGeometries, Resolving
<1>4. TargetsLast'
  BY <1>1, <1>2, <1>3 DEF AssignInv, TargetsLast
<1>5. NothingAssigned'
  BY <1>1, <1>2, <1>3 DEF AssignInv, NothingAssigned, Appearances!Slot, Object
<1>6. AssignedFirst'
  <2>1. SUFFICES ASSUME phase' = "appearances", NEW d \in Id, NEW s \in Appearances!Slot,
                        targets[d] # 0
                 PROVE  IsFirst(slots[targets[d]][s], Done(d, s))
    BY <1>1, <1>2 DEF AssignedFirst, Appearances!Slot
  <2>2. CASE phase = "appearances"
    BY <2>1, <2>2 DEF AssignInv, AssignedFirst
  <2>3. CASE Resolving
    <3>1. IsLast(targets[d], Named(d))
      BY <2>3 DEF AssignInv, TargetsLast
    <3>2. targets[d] \in 1..Len(objects)
      BY <2>1, <3>1 DEF IsLast, Named, Of
    <3>3. targets[d] \in Object
      BY <3>2, TopAround, FactoryAssumption DEF AssignInv, TypeInv, BuildInv, PartsOK, Object
    <3>4. slots[targets[d]][s] = 0
      BY <2>3, <3>3 DEF AssignInv, NothingAssigned
    <3>5. Done(d, s) = {}
      BY <2>3 DEF AssignInv, NothingAssigned, Done, Fits
    <3>6. QED
      BY <3>4, <3>5 DEF IsFirst
  <2>4. QED
    BY <1>3, <2>1, <2>2, <2>3
<1>7. AssignedForGood'
  <2>1. SUFFICES ASSUME ~Resolving', phase' # "appearances", NEW d \in Id
                 PROVE  \E t \in 0..Len(objects) : IsLast(t, Named(d)) /\ (t # 0 => FirstOfAll(t, d)')
    BY <1>1, <1>2 DEF AssignedForGood
  <2>2. PICK t \in 0..Len(objects) : IsLast(t, Named(d)) /\ (t # 0 => FirstOfAll(t, d))
    BY <1>3, <2>1 DEF AssignInv, AssignedForGood
  <2>3. FirstOfAll(t, d) => FirstOfAll(t, d)'
    BY <1>1, <1>2 DEF FirstOfAll, Appearances!Slot
  <2>4. QED
    BY <2>2, <2>3
<1>8. QED
  BY <1>2, <1>4, <1>5, <1>6, <1>7 DEF AssignInv

(* All that was to be assigned is.                                         *)
LEMMA AssignKeepsAssign ==
  ASSUME AssignInv, TypeInv', AssignAppearances
  PROVE  AssignInv'
<1>1. /\ TypeInv /\ AppearancesTyped /\ TargetsLast /\ QueuesOrdered /\ AssignedFirst
      /\ phase = "appearances" /\ UNCHANGED <<objects, surfaceData, definitions>>
  BY DEF AssignInv, TypeInv, AssignAppearances, Appearances!AssignMaterial,
     Appearances!AssignTexture, Appearances!Clear
<1>2. CASE Appearances!AssignMaterial \/ Appearances!AssignTexture
  <2>1. phase' = "appearances" /\ UNCHANGED targets
    BY <1>1, <1>2 DEF AssignAppearances, Appearances!AssignMaterial, Appearances!AssignTexture,
       Appearances!Clear
  <2>2. PICK kind \in DataKind :
          /\ Queue(kind) # <<>> /\ Appearances!Assign(Head(Queue(kind)))
          /\ \A k \in DataKind : Queue(k)' = IF k = kind THEN Tail(Queue(k)) ELSE Queue(k)
    BY <1>2 DEF Appearances!AssignMaterial, Appearances!AssignTexture, Queue, DataKind
  <2>3. QueuesOrdered' /\ AssignedFirst'
    BY <1>1, <2>1, <2>2, OneAssigned
  <2>4. \A d : Named(d)' = Named(d)
    BY <1>1 DEF Named, Of
  <2>5. TargetsLast'
    BY <1>1, <2>1, <2>4 DEF TargetsLast
  <2>6. QED
    BY <2>1, <2>3, <2>5 DEF AssignInv, NothingAssigned, AssignedForGood, Resolving
<1>3. CASE Appearances!Clear
  <2>1. /\ materialDefs = <<>> /\ textureDefs = <<>> /\ phase' = "closed"
        /\ UNCHANGED <<materialDefs, textureDefs, slots>>
    BY <1>3 DEF AssignAppearances, Appearances!AssignMaterial, Appearances!AssignTexture,
       Appearances!Clear
  <2>2. /\ QueuesOrdered'
        /\ \A d : Named(d)' = Named(d)
        /\ \A d, s : Fits(d, s)' = Fits(d, s)
    BY <1>1, <2>1, NothingNew
  <2>3. \A d, s : Done(d, s) = Fits(d, s)
    BY <2>1 DEF Done, Waits, Queue, ToSet
  <2>4. ASSUME NEW d \in Id
        PROVE  \E t \in 0..Len(objects) : IsLast(t, Named(d)) /\ (t # 0 => FirstOfAll(t, d)')
    <3>1. PICK t : t = targets[d]
      OBVIOUS
    <3>2. IsLast(t, Named(d)) /\ t \in 0..Len(objects)
      BY <1>1, <3>1, TopAround DEF TypeInv, BuildInv, TargetsLast, IsLast, Named, Of
    <3>3. ASSUME t # 0, NEW s \in Appearances!Slot
          PROVE  IsFirst(slots[t][s], Fits(d, s))
      BY <1>1, <2>3, <3>1, <3>3 DEF AssignedFirst
    <3>4. t # 0 => FirstOfAll(t, d)'
      BY <2>1, <2>2, <3>3 DEF FirstOfAll, IsFirst, Appearances!Slot
    <3>5. QED
      BY <3>2, <3>4
  <2>5. AssignedForGood'
    BY <1>1, <2>2, <2>4 DEF AssignedForGood
  <2>6. QED
    BY <2>1, <2>2, <2>5 DEF AssignInv, TargetsLast, NothingAssigned, AssignedFirst, Resolving
<1>4. QED
  BY <1>2, <1>3 DEF AssignAppearances

(* The walk over the model hands definitions down, to slots that are free. *)
LEMMA FinishKeepsAssign ==
  ASSUME AssignInv, TypeInv', SlotsStay,
         \/ \E tesselator \in BOOLEAN : StartFinish(tesselator)
         \/ FinishCityObject \/ FinishImplicitGeometry \/ FinishGeometry \/ FinishPolygon
         \/ EndFinish
  PROVE  AssignInv'
<1>1. /\ UNCHANGED <<objects, surfaceData, definitions, materialDefs, textureDefs>>
      /\ phase \in {"closed", "finish"} /\ phase' \in {"finish", "done", "unprocessed"}
  BY DEF StartFinish, FinishCityObject, FinishImplicitGeometry, FinishGeometry, FinishPolygon,
     EndFinish, NextCall, appearanceManager
<1>2. AppearancesTyped /\ QueuesOrdered
  BY DEF AssignInv, TypeInv
<1>3. /\ QueuesOrdered'
      /\ \A d : Named(d)' = Named(d)
      /\ \A d, s : Fits(d, s)' = Fits(d, s)
  BY <1>1, <1>2, NothingNew
<1>4. ASSUME NEW d \in Id
      PROVE  \E t \in 0..Len(objects) : IsLast(t, Named(d)) /\ (t # 0 => FirstOfAll(t, d)')
  <2>1. PICK t \in 0..Len(objects) : IsLast(t, Named(d)) /\ (t # 0 => FirstOfAll(t, d))
    BY <1>1 DEF AssignInv, AssignedForGood, Resolving
  <2>2. ASSUME t # 0, NEW s \in Appearances!Slot, Fits(d, s) # {}
        PROVE  slots'[t][s] = slots[t][s]
    <3>1. slots[t][s] # 0
      BY <1>2, <2>1, <2>2, DefinitionsFit DEF FirstOfAll
    <3>2. t \in Object
      BY <2>1, <2>2, TopAround, FactoryAssumption DEF AssignInv, TypeInv, BuildInv, PartsOK, Object
    <3>3. QED
      BY <3>1, <3>2 DEF SlotsStay
  <2>3. t # 0 => FirstOfAll(t, d)'
    BY <1>3, <2>1, <2>2 DEF FirstOfAll, Appearances!Slot
  <2>4. QED
    BY <2>1, <2>3
<1>5. AssignedForGood'
  BY <1>1, <1>3, <1>4 DEF AssignedForGood
<1>6. QED
  BY <1>1, <1>3, <1>5 DEF AssignInv, TargetsLast, NothingAssigned, AssignedFirst, Resolving

LEMMA StepKeepsAssign ==
  ASSUME AssignInv, [FinishNext]_vars
  PROVE  AssignInv'
<1>1. TypeInv'
  BY StepKeepsTypes DEF AssignInv
<1>2. SlotsStay
  <2>1. SlotsAreMaps
    BY DEF AssignInv, TypeInv, AppearancesTyped, SlotsAreMaps
  <2>2. QED
    BY <2>1, StepKeepsSlots
<1>3. CASE Parse
  <2>1. TargetsLast'
    BY <1>3, ParseKeepsTargetsLast DEF AssignInv
  <2>2. QueuesOrdered' /\ NothingAssigned'
    BY <1>3, ParseKeepsQueues DEF AssignInv
  <2>3. phase' = "parsing"
    BY <1>3, ParseWhileParsing
  <2>4. QED
    BY <1>1, <2>1, <2>2, <2>3 DEF AssignInv, AssignedFirst, AssignedForGood, Resolving
<1>4. QED
  BY <1>1, <1>2, <1>3, ResolveKeepsAssign, AssignKeepsAssign, FinishKeepsAssign
     DEF FinishNext, closeFactory

LEMMA AssignBegins == FinishInit => AssignInv
<1> SUFFICES ASSUME FinishInit PROVE AssignInv
  OBVIOUS
<1>1. /\ objects = <<>> /\ definitions = <<>> /\ materialDefs = <<>> /\ textureDefs = <<>>
      /\ targets = [d \in Id |-> 0] /\ phase = "parsing"
      /\ slots = [o \in Object |-> [s \in Appearances!Slot |-> 0]]
  BY DEF FinishInit, Init, Appearances!Empty, Object
<1>2. TargetsLast
  BY <1>1 DEF TargetsLast, IsLast, Named, Of
<1>3. QueuesOrdered
  BY <1>1 DEF QueuesOrdered, Queue, Ordered, ToSet
<1>4. NothingAssigned
  BY <1>1 DEF NothingAssigned
<1>5. QED
  BY <1>1, <1>2, <1>3, <1>4, TypesBegin DEF AssignInv, AssignedFirst, AssignedForGood, Resolving

(* There is one last object of a name.                                     *)
LEMMA LastIs ==
  ASSUME NEW S \in SUBSET Nat, NEW t, IsLast(t, S)
  PROVE  LastOf(S) = t
<1>1. CASE S = {}
  BY <1>1 DEF IsLast, LastOf
<1>2. CASE S # {}
  <2>1. t \in S /\ \A p \in S : p <= t
    BY <1>2 DEF IsLast
  <2>2. LastOf(S) \in S /\ \A p \in S : p <= LastOf(S)
    BY <1>2, <2>1 DEF LastOf
  <2>3. t \in Nat /\ LastOf(S) \in Nat /\ t <= LastOf(S) /\ LastOf(S) <= t
    BY <2>1, <2>2
  <2>4. QED
    BY <2>3
<1>3. QED
  BY <1>1, <1>2

(* In a model that is delivered, the last geometry or polygon of an id has *)
(* for every theme and side the first definition of the document that      *)
(* names this id, whatever other definitions it got or was handed down.    *)
THEOREM FirstDefinitionWins == Spec => []FirstDefinitionAssigned
<1>1. AssignInv => FirstDefinitionAssigned
  <2> SUFFICES ASSUME AssignInv, phase \in {"closed", "finish", "done", "unprocessed"},
                      NEW d \in Id, NEW s \in Appearances!Slot,
                      Fits(d, s) # {}, LastOf(Named(d)) # 0
               PROVE  LET target == LastOf(Named(d)) IN
                        /\ slots[target][s] \in Fits(d, s)
                        /\ \A i \in Fits(d, s) : slots[target][s] <= i
    BY DEF FirstDefinitionAssigned, Fits, Named
  <2>1. PICK t \in 0..Len(objects) : IsLast(t, Named(d)) /\ (t # 0 => FirstOfAll(t, d))
    BY DEF AssignInv, AssignedForGood, Resolving
  <2>2. Named(d) \in SUBSET Nat
    BY TopAround DEF AssignInv, TypeInv, BuildInv, Named, Of
  <2>3. LastOf(Named(d)) = t
    BY <2>1, <2>2, LastIs
  <2>4. QED
    BY <2>1, <2>3 DEF FirstOfAll
<1>2. AssignInv /\ [FinishNext]_vars => AssignInv'
  BY StepKeepsAssign
<1>3. QED
  BY <1>1, <1>2, AssignBegins, PTL DEF Spec

-----------------------------------------------------------------------------
(* The tree of the objects, and who holds a geometry.                      *)

(* What the element of an object may be in.                                *)
Allowed(kind, around) ==
  /\ kind = "cityobject" => around \in {"model", "cityobject"}
  /\ kind = "implicit" => around = "cityobject"
  /\ kind = "geometry" => around \in {"cityobject", "implicit", "geometry"}

(* The open objects: those inside others are younger, and of a kind that   *)
(* may be there.                                                           *)
PathOrdered ==
  /\ phase # "parsing" => path = <<>>
  /\ \A i, j \in 1..Len(path) : i < j => path[i] < path[j]
  /\ \A i \in 1..Len(path) :
       Allowed(KindOf(path[i]), IF i = 1 THEN "model" ELSE KindOf(path[i - 1]))

(* What the walk over the model goes on to from h.                         *)
PartOf(o, h) ==
  \/ o \in ToSet(children[h]) /\ KindOf(h) \in {"model", "cityobject"}
  \/ o \in ToSet(implicits[h]) /\ KindOf(h) = "cityobject"
  \/ o \in ToSet(geometries[h]) /\ KindOf(h) \in {"cityobject", "implicit", "geometry"}

(* An object that is closed is part of an older one.                       *)
InTree ==
  \A o \in 1..Len(objects) :
    \/ objects[o].kind = "polygon"
    \/ o \in ToSet(path)
    \/ \E h \in 0..Len(objects) : h < o /\ PartOf(o, h)

(* A geometry has its place when it is closed, and only the geometries of  *)
(* implicit geometries have several: what is part of a geometry is part of *)
(* nothing else.                                                           *)
OffPath     == \A h \in 0..MaxObjects, o \in ToSet(path) : o \notin ToSet(geometries[h])
NoneYet     == \A h \in 0..MaxObjects : h > Len(objects) => geometries[h] = <<>>
HasParent(o) == \E g \in Of("geometry") : o \in ToSet(geometries[g])
OneHolder ==
  \A g \in Of("geometry"), h \in 0..MaxObjects :
    \A i \in 1..Len(geometries[g]), j \in 1..Len(geometries[h]) :
      geometries[h][j] = geometries[g][i] => h = g /\ j = i
SharedHeld ==
  \A d \in Id : sharedGeometries[d] # 0 =>
    \E h \in Of("implicit") : sharedGeometries[d] \in ToSet(geometries[h])

TreeInv == PathOrdered /\ InTree /\ OffPath /\ NoneYet /\ OneHolder /\ SharedHeld

(* The lists of a larger document hold what they held.                     *)
ListsGrow ==
  \A h \in 0..Len(objects) :
    /\ ToSet(children[h]) \subseteq ToSet(children'[h])
    /\ ToSet(implicits[h]) \subseteq ToSet(implicits'[h])
    /\ ToSet(geometries[h]) \subseteq ToSet(geometries'[h])

LEMMA PartGrows ==
  ASSUME NEW S, NEW A, NEW f \in [A -> Seq(S)], NEW w \in A, NEW p \in S
  PROVE  /\ \A a \in A : ToSet(f[a]) \subseteq ToSet(AddPart(f, w, p)[a])
         /\ p \in ToSet(AddPart(f, w, p)[w])
<1>1. AddPart(f, w, p)[w] = Append(f[w], p) /\ \A a \in A : a # w => AddPart(f, w, p)[a] = f[a]
  BY DEF AddPart
<1>2. f[w] \in Seq(S)
  OBVIOUS
<1>3. ToSet(f[w]) \subseteq ToSet(Append(f[w], p)) /\ p \in ToSet(Append(f[w], p))
  BY <1>2, AppendedSet
<1>4. QED
  BY <1>1, <1>3

(* A larger document keeps the tree if what leaves the path and what is    *)
(* new has its place.                                                      *)
LEMMA InTreeStays ==
  ASSUME InTree, Len(objects) \in Nat, Len(objects') \in Nat, KindsKept, ListsGrow,
         \A o \in 1..Len(objects') :
           o \in ToSet(path) \/ o > Len(objects) =>
             \/ objects'[o].kind = "polygon"
             \/ o \in ToSet(path')
             \/ \E h \in 0..Len(objects') : h < o /\ PartOf(o, h)'
  PROVE  InTree'
<1>1. SUFFICES ASSUME NEW o \in 1..Len(objects), o \notin ToSet(path),
                      objects[o].kind # "polygon"
               PROVE  \E h \in 0..Len(objects') : h < o /\ PartOf(o, h)'
  BY DEF InTree, KindsKept
<1>2. PICK h \in 0..Len(objects) : h < o /\ PartOf(o, h)
  BY <1>1 DEF InTree
<1>3. KindOf(h)' = KindOf(h)
  BY <1>2 DEF KindOf, KindsKept
<1>4. PartOf(o, h)'
  BY <1>2, <1>3 DEF PartOf, ListsGrow
<1>5. h \in 0..Len(objects')
  BY <1>2 DEF KindsKept
<1>6. QED
  BY <1>2, <1>4, <1>5

(* A geometry joins what is part of w.                                     *)
LEMMA OneHolderJoins ==
  ASSUME Len(objects) \in Nat, Len(objects') \in Nat, KindsKept, MaxObjects \in Nat,
         Len(objects') <= MaxObjects,
         OneHolder, NoneYet,
         NEW S, geometries \in [0..MaxObjects -> Seq(S)],
         NEW w \in 0..Len(objects), NEW o \in S, geometries' = AddPart(geometries, w, o),
         ~HasParent(o),
         w \in Of("geometry") => \A h \in 0..MaxObjects : o \notin ToSet(geometries[h])
  PROVE  OneHolder' /\ NoneYet'
<1>1. w \in 0..MaxObjects
  BY DEF KindsKept
<1>2. /\ \A a \in 0..MaxObjects : a # w => geometries'[a] = geometries[a]
      /\ Len(geometries[w]) \in Nat
      /\ Len(geometries'[w]) = Len(geometries[w]) + 1
      /\ \A i \in 1..Len(geometries[w]) : geometries'[w][i] = geometries[w][i]
      /\ geometries'[w][Len(geometries[w]) + 1] = o
  <2>1. geometries[w] \in Seq(S) /\ geometries'[w] = Append(geometries[w], o)
    BY <1>1 DEF AddPart
  <2>2. \A a \in 0..MaxObjects : a # w => geometries'[a] = geometries[a]
    BY DEF AddPart
  <2>3. ASSUME NEW s \in Seq(S)
        PROVE  /\ Len(s) \in Nat /\ Len(Append(s, o)) = Len(s) + 1
               /\ \A i \in 1..Len(s) : Append(s, o)[i] = s[i]
               /\ Append(s, o)[Len(s) + 1] = o
    BY AppendProperties, LenProperties
  <2>4. QED
    BY <2>1, <2>2, <2>3
<1>3. \A a \in 0..MaxObjects : \A i \in 1..Len(geometries[a]) : geometries[a][i] \in ToSet(geometries[a])
  BY LenProperties DEF ToSet
<1>4. NoneYet'
  BY <1>2 DEF NoneYet, KindsKept
<1>5. ASSUME NEW g \in Of("geometry")', NEW h \in 0..MaxObjects,
             NEW i \in 1..Len(geometries'[g]), NEW j \in 1..Len(geometries'[h]),
             geometries'[h][j] = geometries'[g][i]
      PROVE  h = g /\ j = i
  <2>1. g \in Of("geometry") /\ g \in 0..MaxObjects
    <3>1. g \in 1..Len(objects') /\ objects'[g].kind = "geometry"
      BY DEF Of
    <3>2. g <= Len(objects)
      <4>1. SUFFICES ASSUME g > Len(objects) PROVE FALSE
        BY <3>1
      <4>2. g \in 0..MaxObjects /\ g # w
        BY <3>1, <4>1
      <4>3. geometries'[g] = <<>>
        BY <1>2, <4>1, <4>2 DEF NoneYet
      <4>4. QED
        BY <1>5, <4>3
    <3>3. g \in 1..Len(objects)
      BY <3>1, <3>2
    <3>4. objects'[g].kind = objects[g].kind
      BY <3>3 DEF KindsKept
    <3>5. g \in Of("geometry")
      BY <3>1, <3>3, <3>4 DEF Of
    <3>6. g \in 0..MaxObjects
      BY <3>1
    <3>7. QED
      BY <3>5, <3>6
  <2>2. ASSUME NEW a \in 0..MaxObjects, NEW k \in 1..Len(geometries'[a])
        PROVE  \/ k \in 1..Len(geometries[a]) /\ geometries'[a][k] = geometries[a][k]
               \/ a = w /\ k = Len(geometries[w]) + 1 /\ geometries'[a][k] = o
    <3>1. CASE a = w
      <4>1. k \in 1..(Len(geometries[w]) + 1)
        BY <1>2, <3>1
      <4>2. k \in 1..Len(geometries[w]) \/ k = Len(geometries[w]) + 1
        BY <1>2, <4>1
      <4>3. QED
        BY <1>2, <3>1, <4>2
    <3>2. CASE a # w
      BY <1>2, <3>2
    <3>3. QED
      BY <3>1, <3>2
  <2>3. CASE i \in 1..Len(geometries[g]) /\ geometries'[g][i] = geometries[g][i]
    <3>1. geometries[g][i] # o
      BY <1>3, <2>1, <2>3 DEF HasParent
    <3>2. j \in 1..Len(geometries[h]) /\ geometries'[h][j] = geometries[h][j]
      BY <1>5, <2>2, <2>3, <3>1
    <3>3. QED
      BY <1>5, <2>1, <2>3, <3>2 DEF OneHolder
  <2>4. CASE g = w /\ i = Len(geometries[w]) + 1 /\ geometries'[g][i] = o
    <3>1. \A a \in 0..MaxObjects : o \notin ToSet(geometries[a])
      BY <2>1, <2>4
    <3>2. geometries'[h][j] = o
      BY <1>5, <2>4
    <3>3. ~(j \in 1..Len(geometries[h]) /\ geometries'[h][j] = geometries[h][j])
      BY <1>3, <3>1, <3>2
    <3>4. h = w /\ j = Len(geometries[w]) + 1
      BY <2>2, <3>3
    <3>5. QED
      BY <2>4, <3>4
  <2>5. QED
    BY <2>1, <2>2, <2>3, <2>4
<1>6. QED
  BY <1>4, <1>5 DEF OneHolder

(* An element is opened, inside the one on top.                            *)
LEMMA PathPush ==
  ASSUME PartsOK, PathOrdered, phase = "parsing", UNCHANGED phase, KindsKept,
         Len(objects') = Len(objects) + 1, path' = Append(path, Fresh),
         Allowed(objects'[Fresh].kind, KindOf(Top))
  PROVE  PathOrdered' /\ ToSet(path') = ToSet(path) \cup {Fresh}
<1>1. /\ Len(path) \in Nat /\ Len(objects) \in Nat
      /\ Top = IF Len(path) = 0 THEN 0 ELSE path[Len(path)]
      /\ path \in Seq(1..Len(objects))
  BY TopAround DEF PartsOK
<1>2. \A i \in 1..Len(path) : path[i] \in 1..Len(objects)
  BY <1>1, ElementOfSeq
<1>3. /\ Len(path') = Len(path) + 1
      /\ \A i \in 1..Len(path) : path'[i] = path[i]
      /\ path'[Len(path) + 1] = Fresh
      /\ DOMAIN path = 1..Len(path) /\ DOMAIN path' = 1..(Len(path) + 1)
  <2> DEFINE S == 1..(Len(objects) + 1)
  <2>1. path \in Seq(S) /\ Fresh \in S
    <3>1. 1..Len(objects) \subseteq S /\ Fresh \in S
      BY <1>1 DEF Fresh
    <3> HIDE DEF S
    <3>2. QED
      BY <1>1, <3>1, SeqMonotone
  <2> HIDE DEF S
  <2>2. QED
    BY <2>1, AppendProperties, LenProperties
<1>4. ToSet(path') = ToSet(path) \cup {Fresh}
  <2>1. ToSet(path') = {path'[i] : i \in 1..(Len(path) + 1)} /\ ToSet(path) = {path[i] : i \in 1..Len(path)}
    BY <1>3 DEF ToSet
  <2>2. 1..(Len(path) + 1) = 1..Len(path) \cup {Len(path) + 1}
    BY <1>1
  <2>3. QED
    BY <1>3, <2>1, <2>2
<1>5. \A i, j \in 1..Len(path') : i < j => path'[i] < path'[j]
  <2>1. TAKE i, j \in 1..Len(path')
  <2>2. HAVE i < j
  <2>3. i \in 1..Len(path) /\ path'[i] = path[i]
    BY <1>1, <1>3, <2>2
  <2>4. CASE j = Len(path) + 1
    BY <1>1, <1>2, <1>3, <2>3, <2>4 DEF Fresh
  <2>5. CASE j # Len(path) + 1
    <3>1. j \in 1..Len(path) /\ path'[j] = path[j]
      BY <1>1, <1>3, <2>5
    <3>2. QED
      BY <2>2, <2>3, <3>1 DEF PathOrdered
  <2>6. QED
    BY <2>4, <2>5
<1>6. \A o \in 0..Len(objects) : KindOf(o)' = KindOf(o)
  BY DEF KindOf, KindsKept
<1>7. ASSUME NEW i \in 1..Len(path')
      PROVE  Allowed(KindOf(path[i])', IF i = 1 THEN "model" ELSE KindOf(path[i - 1])')
  <2>1. CASE i = Len(path) + 1
    <3>1. KindOf(path[i])' = objects'[Fresh].kind
      BY <1>1, <1>3, <2>1 DEF KindOf, Fresh
    <3>2. CASE i = 1
      <4>1. KindOf(Top) = "model"
        BY <1>1, <2>1, <3>2 DEF KindOf
      <4>2. QED
        BY <3>1, <3>2, <4>1
    <3>3. CASE i # 1
      <4>1. Len(path) \in 1..Len(path) /\ i - 1 = Len(path)
        BY <1>1, <2>1, <3>3
      <4>2. path'[i - 1] = Top /\ Top \in 0..Len(objects)
        BY <1>1, <1>2, <1>3, <3>3, <4>1
      <4>3. KindOf(path[i - 1])' = KindOf(Top)
        BY <1>6, <4>2 DEF KindOf
      <4>4. QED
        BY <3>1, <3>3, <4>3
    <3>4. QED
      BY <3>2, <3>3
  <2>2. CASE i # Len(path) + 1
    <3>1. i \in 1..Len(path) /\ path'[i] = path[i] /\ path[i] \in 1..Len(objects)
      BY <1>1, <1>2, <1>3, <2>2
    <3>2. Allowed(KindOf(path[i]), IF i = 1 THEN "model" ELSE KindOf(path[i - 1]))
      BY <3>1 DEF PathOrdered
    <3>3. i # 1 => i - 1 \in 1..Len(path) /\ path'[i - 1] = path[i - 1] /\ path[i - 1] \in 1..Len(objects)
      BY <1>1, <1>2, <1>3, <3>1
    <3>4. QED
      BY <3>1, <3>2, <3>3 DEF KindOf, KindsKept
  <2>3. QED
    BY <2>1, <2>2
<1>8. QED
  BY <1>4, <1>5, <1>7 DEF PathOrdered

(* The element on top is closed.                                           *)
LEMMA PathPop ==
  ASSUME PartsOK, PathOrdered, phase = "parsing", UNCHANGED phase, KindsKept,
         Len(objects') \in Nat, KindOf(Top) # "model", path' = Front(path)
  PROVE  /\ PathOrdered'
         /\ ToSet(path') \subseteq ToSet(path)
         /\ \A o \in ToSet(path) : o \in ToSet(path') \/ o = Top
         /\ Top \in ToSet(path) /\ Top \notin ToSet(path')
         /\ Top \in 1..Len(objects) /\ Around \in 0..Len(objects) /\ Around < Top
         /\ Allowed(KindOf(Top), KindOf(Around))
<1>1. /\ Len(path) \in Nat /\ Len(objects) \in Nat
      /\ Top = IF Len(path) = 0 THEN 0 ELSE path[Len(path)]
      /\ Around = IF Len(path) < 2 THEN 0 ELSE path[Len(path) - 1]
      /\ path \in Seq(1..Len(objects))
  BY TopAround DEF PartsOK
<1>2. Len(path) # 0
  BY <1>1 DEF KindOf
<1>3. \A i \in 1..Len(path) : path[i] \in 1..Len(objects)
  BY <1>1, ElementOfSeq
<1>4. /\ Len(path') = Len(path) - 1
      /\ \A i \in 1..(Len(path) - 1) : path'[i] = path[i]
      /\ path' \in Seq(1..Len(objects))
  BY <1>1, <1>2, FrontSet
<1>5. DOMAIN path = 1..Len(path) /\ DOMAIN path' = 1..(Len(path) - 1)
  BY <1>1, <1>4, LenProperties
<1>6. /\ Len(path) \in 1..Len(path) /\ Top = path[Len(path)]
      /\ \A i \in 1..(Len(path) - 1) : i \in 1..Len(path) /\ path[i] < Top
  <2>1. /\ Len(path) \in 1..Len(path) /\ Top = path[Len(path)]
        /\ \A i \in 1..(Len(path) - 1) : i \in 1..Len(path) /\ i < Len(path)
    BY <1>1, <1>2
  <2> HIDE DEF Top
  <2>2. QED
    BY <2>1 DEF PathOrdered
<1> HIDE DEF Top, Around
<1>7. /\ ToSet(path') \subseteq ToSet(path) /\ Top \in ToSet(path)
      /\ \A o \in ToSet(path) : o \in ToSet(path') \/ o = Top
  <2>1. ToSet(path') = {path'[i] : i \in 1..(Len(path) - 1)} /\ ToSet(path) = {path[i] : i \in 1..Len(path)}
    BY <1>5 DEF ToSet
  <2>2. 1..Len(path) = 1..(Len(path) - 1) \cup {Len(path)}
    BY <1>1, <1>2
  <2>3. QED
    BY <1>4, <1>6, <2>1, <2>2
<1>8. Top \notin ToSet(path')
  <2>1. \A i \in 1..(Len(path) - 1) : path'[i] # Top
    BY <1>3, <1>4, <1>6
  <2>2. QED
    BY <1>5, <2>1 DEF ToSet
<1>9. Top \in 1..Len(objects) /\ Around \in 0..Len(objects) /\ Around < Top
  <2>1. CASE Len(path) = 1
    BY <1>1, <1>3, <1>6, <2>1
  <2>2. CASE Len(path) # 1
    <3>1. Len(path) - 1 \in 1..(Len(path) - 1) /\ ~(Len(path) < 2)
      <4>1. \A n \in Nat : n # 0 /\ n # 1 => n - 1 \in 1..(n - 1) /\ ~(n < 2)
        OBVIOUS
      <4>2. QED
        BY <1>1, <1>2, <2>2, <4>1
    <3>3. Around = path[Len(path) - 1]
      BY <1>1, <3>1
    <3>2. QED
      BY <1>3, <1>6, <3>1, <3>3
  <2>3. QED
    BY <2>1, <2>2
<1>10. Allowed(KindOf(Top), KindOf(Around))
  <2>1. Allowed(KindOf(path[Len(path)]),
                IF Len(path) = 1 THEN "model" ELSE KindOf(path[Len(path) - 1]))
    BY <1>6 DEF PathOrdered
  <2>2. KindOf(Around) = IF Len(path) = 1 THEN "model" ELSE KindOf(path[Len(path) - 1])
    <3>1. CASE Len(path) = 1
      BY <1>1, <3>1 DEF KindOf
    <3>2. CASE Len(path) # 1
      <4>1. ~(Len(path) < 2)
        BY <1>1, <1>2, <3>2
      <4>2. Around = path[Len(path) - 1]
        BY <1>1, <4>1
      <4>3. QED
        BY <3>2, <4>2
    <3>3. QED
      BY <3>1, <3>2
  <2>3. QED
    BY <1>6, <2>1, <2>2
<1>11. PathOrdered'
  <2>1. \A i, j \in 1..Len(path') : i < j => path'[i] < path'[j]
    BY <1>1, <1>4, <1>6 DEF PathOrdered
  <2>2. ASSUME NEW i \in 1..Len(path')
        PROVE  Allowed(KindOf(path[i])', IF i = 1 THEN "model" ELSE KindOf(path[i - 1])')
    <3>1. i \in 1..Len(path) /\ path'[i] = path[i] /\ path[i] \in 1..Len(objects)
      BY <1>3, <1>4, <1>6
    <3>2. Allowed(KindOf(path[i]), IF i = 1 THEN "model" ELSE KindOf(path[i - 1]))
      BY <3>1 DEF PathOrdered
    <3>3. i # 1 => path'[i - 1] = path[i - 1] /\ path[i - 1] \in 1..Len(objects)
      <4>1. i # 1 => i - 1 \in 1..(Len(path) - 1)
        BY <1>1, <1>4
      <4>2. QED
        BY <1>3, <1>4, <1>6, <4>1
    <3>4. QED
      BY <3>1, <3>2, <3>3 DEF KindOf, KindsKept
  <2>3. QED
    BY <2>1, <2>2 DEF PathOrdered
<1>12. QED
  BY <1>7, <1>8, <1>9, <1>10, <1>11

(* What is part of an object is an object.                                 *)
LEMMA ListsOfObjects ==
  ASSUME PartsTyped, NEW h \in 0..MaxObjects
  PROVE  /\ ToSet(children[h]) \subseteq Of("cityobject")
         /\ ToSet(implicits[h]) \subseteq Of("implicit")
         /\ ToSet(geometries[h]) \subseteq Of("geometry")
<1>1. ASSUME NEW S, NEW s \in Seq(S)
      PROVE  ToSet(s) \subseteq S
  BY ElementOfSeq, LenProperties DEF ToSet
<1>2. /\ children[h] \in Seq(Of("cityobject")) /\ implicits[h] \in Seq(Of("implicit"))
      /\ geometries[h] \in Seq(Of("geometry"))
  BY DEF PartsTyped
<1>3. QED
  BY <1>1, <1>2

(* A document that is larger by objects of which nothing is part yet.      *)
LEMMA OneHolderStays ==
  ASSUME Len(objects) \in Nat, Len(objects') \in Nat, KindsKept, MaxObjects \in Nat,
         Len(objects') <= MaxObjects, OneHolder, NoneYet, UNCHANGED geometries
  PROVE  OneHolder' /\ NoneYet'
<1>1. NoneYet'
  BY DEF NoneYet, KindsKept
<1>2. ASSUME NEW g \in Of("geometry")', g \notin Of("geometry")
      PROVE  geometries[g] = <<>>
  BY <1>2 DEF NoneYet, KindsKept, Of
<1>3. ASSUME NEW g \in Of("geometry")', NEW h \in 0..MaxObjects,
             NEW i \in 1..Len(geometries[g]), NEW j \in 1..Len(geometries[h]),
             geometries[h][j] = geometries[g][i]
      PROVE  h = g /\ j = i
  <2>1. geometries[g] # <<>>
    BY <1>3
  <2>2. g \in Of("geometry")
    BY <1>2, <2>1
  <2>3. QED
    BY <1>3, <2>2 DEF OneHolder
<1>4. QED
  BY <1>1, <1>3 DEF OneHolder

(* The start tag of an object where it may be.                             *)
LEMMA OpenTree ==
  ASSUME BuildInv, PartsTyped, TreeInv, NEW kind \in Kind, NEW d \in Id \cup {NoId},
         NEW orientation \in {"+", "-"}, Open(kind, d, orientation), Allowed(kind, KindOf(Top))
  PROVE  TreeInv'
<1>1. Creates(kind, d)
  BY OpenCreates
<1>2. /\ \A k : Of(k) \subseteq Of(k)'
      /\ Len(objects) \in Nat /\ Len(objects') \in Nat /\ KindsKept
      /\ Len(objects') = Len(objects) + 1
  BY <1>1, CreatesOf DEF KindsKept, Creates
<1>3. /\ phase = "parsing" /\ path' = Append(path, Fresh) /\ objects'[Fresh].kind = kind
      /\ UNCHANGED <<phase, children, implicits, geometries, sharedGeometries>>
      /\ Len(objects) < MaxObjects /\ MaxObjects \in Nat
  BY <1>1, FactoryAssumption DEF Open, Creates, model, geometryManager
<1>4. PathOrdered' /\ ToSet(path') = ToSet(path) \cup {Fresh}
  <2>1. PartsOK /\ PathOrdered /\ Allowed(objects'[Fresh].kind, KindOf(Top))
    BY <1>3 DEF BuildInv, TreeInv
  <2> HIDE DEF Top
  <2>2. QED
    BY <1>2, <1>3, <2>1, PathPush
<1>5. InTree'
  <2>1. ListsGrow
    BY <1>3 DEF ListsGrow
  <2>2. \A o \in 1..Len(objects') : o \in ToSet(path) \/ o > Len(objects) => o \in ToSet(path')
    BY <1>2, <1>4 DEF Fresh
  <2>3. QED
    BY <1>2, <2>1, <2>2, InTreeStays DEF TreeInv
<1>6. OffPath'
  <2>1. \A h \in 0..MaxObjects : Fresh \notin ToSet(geometries[h])
    BY <1>2, ListsOfObjects DEF Fresh, Of
  <2>2. QED
    BY <1>3, <1>4, <2>1 DEF OffPath, TreeInv
<1>7. OneHolder' /\ NoneYet'
  BY <1>2, <1>3, OneHolderStays DEF TreeInv
<1>8. SharedHeld'
  <2>1. Of("implicit") \subseteq Of("implicit")'
    BY <1>2
  <2>2. QED
    BY <1>3, <2>1 DEF SharedHeld, TreeInv
<1>9. QED
  BY <1>4, <1>5, <1>6, <1>7, <1>8 DEF TreeInv

(* A geometry that has no place yet joins what is part of w.               *)
LEMMA AddGeometryTree ==
  ASSUME PartsTyped, TreeInv, Len(objects) \in Nat, Len(objects') \in Nat, KindsKept,
         MaxObjects \in Nat, Len(objects') <= MaxObjects,
         NEW w \in 1..Len(objects), NEW g \in Of("geometry")', NEW d \in Id \cup {NoId},
         AddGeometry(g, d, w),
         \A h \in 0..MaxObjects : g \notin ToSet(geometries[h]),
         ToSet(path') \subseteq ToSet(path), g \notin ToSet(path'),
         UNCHANGED <<children, implicits>>
  PROVE  OneHolder' /\ NoneYet' /\ OffPath' /\ SharedHeld' /\ ListsGrow
         /\ g \in ToSet(geometries'[w])
<1> DEFINE S == Of("geometry")'
<1>1. /\ geometries \in [0..MaxObjects -> Seq(S)] /\ g \in S
      /\ geometries' = AddPart(geometries, w, g)
      /\ w \in 0..MaxObjects /\ w \in 0..Len(objects)
  BY OfGrows, PartsStillTyped DEF AddGeometry, KindsKept
<1>2. \A k : Of(k) \subseteq Of(k)'
  BY OfGrows
<1>3. ~HasParent(g)
  BY DEF HasParent, Of, KindsKept
<1> HIDE DEF S
<1>4. OneHolder' /\ NoneYet'
  BY <1>1, <1>3, OneHolderJoins DEF TreeInv
<1>5. /\ \A h \in 0..MaxObjects : ToSet(geometries[h]) \subseteq ToSet(geometries'[h])
      /\ g \in ToSet(geometries'[w])
  BY <1>1, PartGrows
<1>6. ListsGrow
  <2>1. \A h \in 0..Len(objects) : h \in 0..MaxObjects
    BY DEF KindsKept
  <2>2. QED
    BY <1>5, <2>1 DEF ListsGrow
<1>7. \A h \in 0..MaxObjects : \A e \in ToSet(geometries'[h]) : e \in ToSet(geometries[h]) \/ e = g
  <2>1. ASSUME NEW s \in Seq(S)
        PROVE  \A e \in ToSet(Append(s, g)) : e \in ToSet(s) \/ e = g
    <3>1. /\ DOMAIN s = 1..Len(s) /\ Len(s) \in Nat
          /\ DOMAIN Append(s, g) = 1..(Len(s) + 1)
          /\ \A i \in 1..Len(s) : Append(s, g)[i] = s[i]
          /\ Append(s, g)[Len(s) + 1] = g
      BY <1>1, AppendProperties, LenProperties
    <3>2. \A i \in 1..(Len(s) + 1) : i \in 1..Len(s) \/ i = Len(s) + 1
      BY <3>1
    <3>3. QED
      BY <3>1, <3>2 DEF ToSet
  <2>2. \A h \in 0..MaxObjects : geometries'[h] = geometries[h]
                                 \/ (geometries[h] \in Seq(S) /\ geometries'[h] = Append(geometries[h], g))
    BY <1>1 DEF AddPart
  <2>3. QED
    BY <2>1, <2>2
<1>8. OffPath'
  BY <1>7 DEF OffPath, TreeInv
<1>9. SharedHeld'
  <2>1. ASSUME NEW e \in Id, sharedGeometries'[e] # 0
        PROVE  \E h \in Of("implicit")' : sharedGeometries'[e] \in ToSet(geometries'[h])
    <3>1. CASE sharedGeometries'[e] = sharedGeometries[e]
      <4>1. PICK h \in Of("implicit") : sharedGeometries[e] \in ToSet(geometries[h])
        BY <2>1, <3>1 DEF SharedHeld, TreeInv
      <4>2. h \in 0..MaxObjects /\ h \in Of("implicit")'
        BY <1>2, <4>1 DEF Of, KindsKept
      <4>3. QED
        BY <1>5, <3>1, <4>1, <4>2
    <3>2. CASE sharedGeometries'[e] # sharedGeometries[e]
      <4>1. KindOf(w) = "implicit" /\ Geometries!Add(d, g)
        BY <3>2 DEF AddGeometry, geometryManager
      <4>2. w \in Of("implicit")
        BY <4>1 DEF KindOf, Of
      <4>3. sharedGeometries'[e] = g
        <5>1. d # NoId /\ sharedGeometries' = [sharedGeometries EXCEPT ![d] = g]
          BY <3>2, <4>1 DEF Geometries!Add
        <5>2. e # d => sharedGeometries'[e] = sharedGeometries[e]
          BY <5>1
        <5>3. QED
          BY <2>1, <3>2, <5>1, <5>2
      <4>4. QED
        BY <1>2, <1>5, <4>2, <4>3
    <3>3. QED
      BY <3>1, <3>2
  <2>2. QED
    BY <2>1 DEF SharedHeld
<1>10. QED
  BY <1>4, <1>5, <1>6, <1>8, <1>9

(* The end tag of an object, which becomes part of the one around it.      *)
LEMMA EndTree ==
  ASSUME BuildInv, PartsTyped, TreeInv,
         EndCityObject \/ EndImplicitGeometry \/ EndGeometry \/ EndPolygon
  PROVE  TreeInv'
<1>1. /\ phase = "parsing" /\ UNCHANGED <<phase, objects>> /\ path' = Front(path)
      /\ KindOf(Top) # "model" /\ KindsKept /\ (\A k : Of(k)' = Of(k))
      /\ Len(objects) \in Nat /\ Len(objects') \in Nat /\ Len(objects) <= MaxObjects /\ MaxObjects \in Nat
  BY TopAround, FactoryAssumption DEF EndCityObject, EndImplicitGeometry, EndGeometry, EndPolygon,
     Close, BuildInv, PartsOK, KindsKept, Of
<1>2. PICK t \in 1..Len(objects), a \in 0..Len(objects) :
        /\ t = Top /\ a = Around /\ a < t
        /\ PathOrdered'
        /\ ToSet(path') \subseteq ToSet(path)
        /\ \A o \in ToSet(path) : o \in ToSet(path') \/ o = t
        /\ t \in ToSet(path) /\ t \notin ToSet(path')
        /\ Allowed(KindOf(t), KindOf(a))
  <2>1. PartsOK /\ PathOrdered
    BY DEF BuildInv, TreeInv
  <2> HIDE DEF Top, Around
  <2>2. QED
    BY <1>1, <2>1, PathPop
<1> HIDE DEF Top, Around
<1>3. KindOf(t) = objects[t].kind /\ a \in 0..MaxObjects /\ KindOf(a)' = KindOf(a)
  BY <1>1, <1>2 DEF KindOf
<1>4. ASSUME ListsGrow, objects[t].kind = "polygon" \/ PartOf(t, a)'
      PROVE  InTree'
  <2>1. \A o \in 1..Len(objects') :
          o \in ToSet(path) \/ o > Len(objects) =>
            \/ objects'[o].kind = "polygon"
            \/ o \in ToSet(path')
            \/ \E h \in 0..Len(objects') : h < o /\ PartOf(o, h)'
    BY <1>1, <1>2, <1>4
  <2>2. QED
    BY <1>1, <1>4, <2>1, InTreeStays DEF TreeInv
<1>5. ASSUME UNCHANGED <<geometries, sharedGeometries>>
      PROVE  OneHolder' /\ NoneYet' /\ OffPath' /\ SharedHeld'
  <2>1. Of("geometry")' = Of("geometry") /\ Of("implicit")' = Of("implicit")
    BY <1>1 DEF Of
  <2>2. OneHolder' /\ NoneYet'
    BY <1>1, <1>5, OneHolderStays DEF TreeInv
  <2>3. QED
    BY <1>1, <1>2, <1>5, <2>1, <2>2 DEF TreeInv, OffPath, SharedHeld
<1>6. CASE EndCityObject
  <2>1. /\ children' = AddPart(children, a, t) /\ children \in [0..MaxObjects -> Seq(Of("cityobject"))]
        /\ UNCHANGED <<implicits, geometries, sharedGeometries>> /\ KindOf(t) = "cityobject"
    BY <1>2, <1>6 DEF EndCityObject, PartsTyped, geometryManager, Close
  <2>2. t \in Of("cityobject")
    BY <1>2, <1>3, <2>1 DEF Of
  <2>3. /\ \A h \in 0..MaxObjects : ToSet(children[h]) \subseteq ToSet(children'[h])
        /\ t \in ToSet(children'[a])
    BY <1>3, <2>1, <2>2, PartGrows
  <2>4. ListsGrow
    BY <1>1, <2>1, <2>3 DEF ListsGrow
  <2>5. PartOf(t, a)'
    BY <1>2, <1>3, <2>1, <2>3 DEF PartOf, Allowed
  <2>6. QED
    BY <1>2, <1>4, <1>5, <2>1, <2>4, <2>5 DEF TreeInv
<1>7. CASE EndImplicitGeometry
  <2>1. /\ implicits' = AddPart(implicits, a, t) /\ implicits \in [0..MaxObjects -> Seq(Of("implicit"))]
        /\ UNCHANGED <<children, geometries, sharedGeometries>> /\ KindOf(t) = "implicit"
    BY <1>2, <1>7 DEF EndImplicitGeometry, PartsTyped, geometryManager, Close
  <2>2. t \in Of("implicit")
    BY <1>2, <1>3, <2>1 DEF Of
  <2>3. /\ \A h \in 0..MaxObjects : ToSet(implicits[h]) \subseteq ToSet(implicits'[h])
        /\ t \in ToSet(implicits'[a])
    BY <1>3, <2>1, <2>2, PartGrows
  <2>4. ListsGrow
    BY <1>1, <2>1, <2>3 DEF ListsGrow
  <2>5. PartOf(t, a)'
    BY <1>2, <1>3, <2>1, <2>3 DEF PartOf, Allowed
  <2>6. QED
    BY <1>2, <1>4, <1>5, <2>1, <2>4, <2>5 DEF TreeInv
<1>8. CASE EndGeometry
  <2>1. /\ AddGeometry(t, objects[t].id, a) /\ KindOf(t) = "geometry"
        /\ UNCHANGED <<children, implicits>>
    BY <1>2, <1>8 DEF EndGeometry, Close
  <2>2. t \in Of("geometry")' /\ objects[t].id \in Id \cup {NoId}
    <3>1. objects[t] \in FullObjectType
      BY <1>2, ElementOfSeq DEF PartsTyped
    <3>2. QED
      BY <1>1, <1>2, <1>3, <2>1, <3>1 DEF Of, FullObjectType
  <2>3. KindOf(a) \in {"cityobject", "implicit", "geometry"}
    BY <1>2, <2>1 DEF Allowed
  <2>4. a \in 1..Len(objects)
    BY <1>1, <1>2, <2>3 DEF KindOf
  <2>5. \A h \in 0..MaxObjects : t \notin ToSet(geometries[h])
    BY <1>2 DEF TreeInv, OffPath
  <2>6. /\ OneHolder' /\ NoneYet' /\ OffPath' /\ SharedHeld' /\ ListsGrow
        /\ t \in ToSet(geometries'[a])
    BY <1>1, <1>2, <2>1, <2>2, <2>4, <2>5, AddGeometryTree
  <2>7. PartOf(t, a)'
    BY <1>3, <2>3, <2>6 DEF PartOf
  <2>8. QED
    BY <1>2, <1>4, <2>6, <2>7 DEF TreeInv
<1>9. CASE EndPolygon
  <2>1. UNCHANGED <<children, implicits, geometries, sharedGeometries>> /\ KindOf(t) = "polygon"
    BY <1>2, <1>9 DEF EndPolygon, geometryManager, Close
  <2>2. ListsGrow
    BY <2>1 DEF ListsGrow
  <2>3. QED
    BY <1>2, <1>3, <1>4, <1>5, <2>1, <2>2 DEF TreeInv
<1>10. QED
  BY <1>6, <1>7, <1>8, <1>9

(* The geometry made for a polygon, or for a line string.                  *)
LEMMA MadeGeometryTree ==
  ASSUME BuildInv, PartsTyped, TreeInv, BuildInv', NEW d \in Id \cup {NoId},
         EndLonePolygon(d) \/ EndLineString(d)
  PROVE  TreeInv'
<1>1. Creates("geometry", d)
  BY EndLonePolygonCreates, EndLineStringCreates
<1>2. /\ \A k : Of(k) \subseteq Of(k)'
      /\ Fresh \in Of("geometry")'
      /\ Len(objects) \in Nat /\ Len(objects') \in Nat /\ KindsKept
      /\ Len(objects') = Len(objects) + 1 /\ Len(objects') <= MaxObjects /\ MaxObjects \in Nat
  BY <1>1, CreatesOf, FactoryAssumption DEF KindsKept, Creates, BuildInv, PartsOK
<1>3. phase = "parsing" /\ UNCHANGED <<phase, children, implicits>>
  BY DEF EndLonePolygon, EndLineString, Close
<1>4. \A h \in 0..MaxObjects : Fresh \notin ToSet(geometries[h])
  BY <1>2, ListsOfObjects DEF Fresh, Of
<1>5. /\ \A o \in ToSet(path) : o \in 1..Len(objects)
      /\ Top \in 0..Len(objects)
  BY TopAround, ElementOfSeq, LenProperties DEF BuildInv, PartsOK, ToSet
<1>6. ASSUME NEW w \in 0..Len(objects), AddGeometry(Fresh, d, w), PathOrdered',
             KindOf(w) \in {"cityobject", "implicit", "geometry"},
             ToSet(path') \subseteq ToSet(path),
             \A o \in ToSet(path) : o \in ToSet(path') \/ objects'[o].kind = "polygon"
      PROVE  TreeInv'
  <2>1. w \in 1..Len(objects)
    BY <1>2, <1>6 DEF KindOf
  <2>2. Fresh \notin ToSet(path')
    BY <1>2, <1>5, <1>6 DEF Fresh
  <2>3. /\ OneHolder' /\ NoneYet' /\ OffPath' /\ SharedHeld' /\ ListsGrow
        /\ Fresh \in ToSet(geometries'[w])
    BY <1>2, <1>3, <1>4, <1>6, <2>1, <2>2, AddGeometryTree
  <2>4. KindOf(w)' = KindOf(w)
    BY <1>2, <2>1 DEF KindOf, KindsKept
  <2>5. \A o \in 1..Len(objects') : o > Len(objects) => o = Fresh
    BY <1>2 DEF Fresh
  <2>6. w \in 0..Len(objects') /\ w < Fresh
    BY <1>2, <2>1 DEF Fresh
  <2>7. ASSUME NEW o \in 1..Len(objects'), o = Fresh
        PROVE  \E h \in 0..Len(objects') : h < o /\ PartOf(o, h)'
    <3>1. PartOf(o, w)'
      BY <1>6, <2>3, <2>4, <2>7 DEF PartOf
    <3>2. QED
      BY <2>6, <2>7, <3>1
  <2>8. \A o \in 1..Len(objects') :
          o \in ToSet(path) \/ o > Len(objects) =>
            \/ objects'[o].kind = "polygon"
            \/ o \in ToSet(path')
            \/ \E h \in 0..Len(objects') : h < o /\ PartOf(o, h)'
    BY <1>6, <2>5, <2>7
  <2>9. InTree'
    BY <1>2, <2>3, <2>8, InTreeStays DEF TreeInv
  <2>10. QED
    BY <1>6, <2>3, <2>9 DEF TreeInv
<1>7. CASE EndLonePolygon(d)
  <2>1. /\ AddGeometry(Fresh, d, Around) /\ path' = Front(path) /\ KindOf(Top) = "polygon"
        /\ KindOf(Around) \in {"cityobject", "implicit"}
    BY <1>7 DEF EndLonePolygon, Close
  <2>2. /\ PathOrdered'
        /\ ToSet(path') \subseteq ToSet(path)
        /\ \A o \in ToSet(path) : o \in ToSet(path') \/ o = Top
        /\ Top \in 1..Len(objects) /\ Around \in 0..Len(objects)
    <3>1. PartsOK /\ PathOrdered
      BY DEF BuildInv, TreeInv
    <3> HIDE DEF Top, Around
    <3>2. QED
      BY <1>2, <1>3, <2>1, <3>1, PathPop
  <2>3. objects'[Top].kind = "polygon"
    BY <1>2, <2>1, <2>2 DEF KindOf, KindsKept
  <2> HIDE DEF Top, Around
  <2>4. QED
    BY <1>6, <2>1, <2>2, <2>3
<1>8. CASE EndLineString(d)
  <2>1. /\ AddGeometry(Fresh, d, Top) /\ UNCHANGED path
        /\ KindOf(Top) \in {"cityobject", "implicit"}
    BY <1>8 DEF EndLineString
  <2>2. PathOrdered'
    <3>1. /\ \A i \in 1..Len(path) : path[i] \in 1..Len(objects)
          /\ Len(path) \in Nat
      BY TopAround, ElementOfSeq DEF BuildInv, PartsOK
    <3>2. \A i \in 1..Len(path) : i # 1 => i - 1 \in 1..Len(path)
      BY <3>1
    <3>3. \A o \in 1..Len(objects) : KindOf(o)' = KindOf(o)
      BY <1>2 DEF KindOf, KindsKept
    <3>4. \A i \in 1..Len(path) : KindOf(path[i])' = KindOf(path[i])
      BY <2>1, <3>1, <3>3 DEF KindOf
    <3>5. \A i \in 1..Len(path) : i # 1 => KindOf(path[i - 1])' = KindOf(path[i - 1])
      BY <3>2, <3>4
    <3>6. QED
      BY <1>3, <2>1, <3>4, <3>5 DEF PathOrdered, TreeInv
  <2> HIDE DEF Top
  <2>3. QED
    BY <1>5, <1>6, <2>1, <2>2
<1>9. QED
  BY <1>7, <1>8

(* Steps that leave the tree alone.                                        *)
LEMMA TreeUnchanged ==
  ASSUME TreeInv, UNCHANGED <<objects, path, children, implicits, geometries>>,
         \A d \in Id : sharedGeometries'[d] \in {0, sharedGeometries[d]},
         phase' # "parsing" => path = <<>>
  PROVE  TreeInv'
<1>1. \A k : Of(k)' = Of(k)
  BY DEF Of
<1>2. PathOrdered'
  BY DEF TreeInv, PathOrdered, KindOf
<1>3. InTree'
  BY DEF TreeInv, InTree, PartOf, KindOf
<1>4. OffPath' /\ NoneYet'
  BY DEF TreeInv, OffPath, NoneYet
<1>5. OneHolder' /\ SharedHeld'
  BY <1>1 DEF TreeInv, OneHolder, SharedHeld
<1>6. QED
  BY <1>2, <1>3, <1>4, <1>5 DEF TreeInv

(* A geometry that is linked to is one of an implicit geometry, and goes   *)
(* to another one.                                                         *)
LEMMA ResolveTree ==
  ASSUME BuildInv, PartsTyped, ManagersTyped, TreeInv, FinishGeometries
  PROVE  TreeInv'
<1>1. /\ UNCHANGED <<objects, path, children, implicits>> /\ phase = "geometries"
      /\ phase' \in {"geometries", "appearances"}
      /\ \A k : Of(k)' = Of(k)
      /\ Len(objects) \in Nat /\ Len(objects) <= MaxObjects /\ MaxObjects \in Nat
      /\ KindsKept
  BY TopAround, FactoryAssumption DEF BuildInv, PartsOK, FinishGeometries, Of, KindsKept
<1>2. path = <<>> /\ ToSet(path) = {}
  BY <1>1 DEF TreeInv, PathOrdered, ToSet
<1>3. CASE Geometries!Clear
  BY <1>1, <1>2, <1>3, TreeUnchanged DEF Geometries!Clear
<1>4. CASE Geometries!ResolveNext
  <2> DEFINE r == Head(geometryRequests)
             o == sharedGeometries[r.id]
  <2>1. r \in [target : Of("implicit"), id : Id]
    BY <1>4, HeadTailProperties DEF Geometries!ResolveNext, ManagersTyped
  <2>2. /\ geometries' = IF o = 0 THEN geometries ELSE AddPart(geometries, r.target, o)
        /\ UNCHANGED sharedGeometries
    BY <1>4 DEF Geometries!ResolveNext, AddPart
  <2>3. CASE o = 0
    <3>1. UNCHANGED geometries
      BY <2>2, <2>3
    <3>2. QED
      BY <1>1, <1>2, <2>2, <3>1, TreeUnchanged
  <2>4. CASE o # 0
    <3>1. PICK w \in Of("implicit") : w = r.target
      BY <2>1
    <3>2. PICK h \in Of("implicit") : o \in ToSet(geometries[h])
      BY <2>1, <2>4 DEF SharedHeld, TreeInv
    <3>3. /\ w \in 0..Len(objects) /\ w \in 0..MaxObjects /\ w \notin Of("geometry")
          /\ h \in 0..MaxObjects /\ h \notin Of("geometry")
      BY <1>1 DEF Of
    <3>4. ~HasParent(o)
      <4>1. SUFFICES ASSUME NEW g \in Of("geometry"), o \in ToSet(geometries[g])
                     PROVE  FALSE
        BY DEF HasParent
      <4>2. g \in 0..MaxObjects
        BY <1>1 DEF Of
      <4>3. \A x \in 0..MaxObjects : DOMAIN geometries[x] = 1..Len(geometries[x])
        BY LenProperties DEF PartsTyped
      <4>4. PICK i \in 1..Len(geometries[g]) : geometries[g][i] = o
        BY <4>1, <4>2, <4>3 DEF ToSet
      <4>5. PICK j \in 1..Len(geometries[h]) : geometries[h][j] = o
        BY <3>2, <3>3, <4>3 DEF ToSet
      <4>6. h = g
        BY <3>3, <4>4, <4>5 DEF OneHolder, TreeInv
      <4>7. QED
        BY <3>3, <4>6
    <3> DEFINE S == Of("geometry")
    <3>5. geometries \in [0..MaxObjects -> Seq(S)] /\ o \in S
      <4>1. sharedGeometries[r.id] \in Of("geometry") \cup {0}
        BY <2>1 DEF ManagersTyped
      <4>2. QED
        BY <2>4, <4>1 DEF PartsTyped
    <3>6. geometries' = AddPart(geometries, w, o)
      BY <2>2, <2>4, <3>1
    <3> HIDE DEF o, r, S
    <3>7. OneHolder' /\ NoneYet'
      BY <1>1, <3>3, <3>4, <3>5, <3>6, OneHolderJoins DEF TreeInv
    <3>8. \A x \in 0..MaxObjects : ToSet(geometries[x]) \subseteq ToSet(geometries'[x])
      BY <3>3, <3>5, <3>6, PartGrows
    <3>9. ListsGrow
      BY <1>1, <3>8 DEF ListsGrow
    <3>10. InTree'
      <4>1. \A x \in 1..Len(objects') : x \notin ToSet(path) /\ ~(x > Len(objects))
        BY <1>1, <1>2
      <4>2. QED
        BY <1>1, <3>9, <4>1, InTreeStays DEF TreeInv
    <3>11. PathOrdered'
      BY <1>1, <1>2 DEF TreeInv, PathOrdered, KindOf
    <3>12. OffPath'
      BY <1>1, <1>2 DEF OffPath
    <3>13. SharedHeld'
      <4>1. Of("implicit") \subseteq 0..MaxObjects
        BY <1>1 DEF Of
      <4>2. QED
        BY <1>1, <2>2, <3>8, <4>1 DEF SharedHeld, TreeInv
    <3>14. QED
      BY <3>7, <3>10, <3>11, <3>12, <3>13 DEF TreeInv
  <2>5. QED
    BY <2>3, <2>4
<1>5. QED
  BY <1>3, <1>4 DEF FinishGeometries

LEMMA StepKeepsTree ==
  ASSUME TypeInv, TypeInv', TreeInv, [FinishNext]_vars
  PROVE  TreeInv'
<1>1. BuildInv /\ BuildInv' /\ PartsTyped /\ ManagersTyped
  BY DEF TypeInv
<1>2. ASSUME UNCHANGED <<objects, path, children, implicits, geometries, sharedGeometries>>,
             phase' # "parsing" => path = <<>>
      PROVE  TreeInv'
  BY <1>2, TreeUnchanged
<1>3. phase # "parsing" => path = <<>>
  BY DEF TreeInv, PathOrdered
<1>4. CASE UNCHANGED vars
  BY <1>2, <1>3, <1>4 DEF vars, factoryVars, model, geometryManager
<1>5. CASE Parse
  <2>1. CASE StartCityObject
    <3>1. Open("cityobject", NoId, "+") /\ "cityobject" \in Kind /\ Allowed("cityobject", KindOf(Top))
      BY <2>1 DEF StartCityObject, Kind, Allowed
    <3> HIDE DEF Top
    <3>2. QED
      BY <1>1, <3>1, OpenTree
  <2>2. CASE StartImplicitGeometry
    <3>1. Open("implicit", NoId, "+") /\ "implicit" \in Kind /\ Allowed("implicit", KindOf(Top))
      BY <2>2 DEF StartImplicitGeometry, Kind, Allowed
    <3> HIDE DEF Top
    <3>2. QED
      BY <1>1, <3>1, OpenTree
  <2>3. ASSUME NEW d \in Id \cup {NoId}, NEW s \in Orientation, StartGeometry(d, s)
        PROVE  TreeInv'
    <3>1. /\ Open("geometry", d, s) /\ "geometry" \in Kind /\ s \in {"+", "-"}
          /\ Allowed("geometry", KindOf(Top))
      BY <2>3, FactoryAssumption DEF StartGeometry, Kind, Allowed
    <3> HIDE DEF Top
    <3>2. QED
      BY <1>1, <3>1, OpenTree
  <2>4. ASSUME NEW d \in Id \cup {NoId}, StartPolygon(d)
        PROVE  TreeInv'
    <3>1. Open("polygon", d, "+") /\ "polygon" \in Kind /\ Allowed("polygon", KindOf(Top))
      BY <2>4 DEF StartPolygon, Kind, Allowed
    <3> HIDE DEF Top
    <3>2. QED
      BY <1>1, <3>1, OpenTree
  <2>5. CASE EndCityObject \/ EndImplicitGeometry \/ EndGeometry \/ EndPolygon
    BY <1>1, <2>5, EndTree
  <2>6. CASE \E d \in Id \cup {NoId} : EndLonePolygon(d) \/ EndLineString(d)
    BY <1>1, <2>6, MadeGeometryTree
  <2>7. CASE \E d \in Id : LinkPolygon(d) \/ LinkGeometry(d)
    <3>1. /\ UNCHANGED <<objects, path, children, implicits, geometries, sharedGeometries, phase>>
          /\ phase = "parsing"
      BY <2>7 DEF LinkPolygon, LinkGeometry, Link, Geometries!Request, geometryManager
    <3>2. QED
      BY <1>2, <3>1
  <2>8. CASE ParseAppearances
    <3>1. InAppearance
      BY <2>8 DEF ParseAppearances, StartAppearance, LinkSurfaceData, StartSurfaceData, Target,
         EndSurfaceData, EndAppearance
    <3>2. QED
      BY <1>2, <1>3, <3>1 DEF InAppearance, model, geometryManager
  <2>9. QED
    BY <1>5, <2>1, <2>2, <2>3, <2>4, <2>5, <2>6, <2>7, <2>8 DEF Parse, ParseAppearances
<1>6. CASE EndDocument
  BY <1>2, <1>6 DEF EndDocument, model, geometryManager
<1>7. CASE FinishPolygons
  BY <1>2, <1>3, <1>7 DEF FinishPolygons, geometryManager
<1>8. CASE FinishGeometries
  BY <1>1, <1>8, ResolveTree
<1>9. CASE AssignAppearances
  BY <1>2, <1>3, <1>9 DEF AssignAppearances, model, geometryManager
<1>10. CASE \/ \E tesselator \in BOOLEAN : StartFinish(tesselator)
            \/ FinishCityObject \/ FinishImplicitGeometry \/ FinishGeometry \/ FinishPolygon
            \/ EndFinish
  <2>1. UNCHANGED <<objects, path, children, implicits, geometries, sharedGeometries>>
    BY <1>10 DEF StartFinish, FinishCityObject, FinishImplicitGeometry, FinishGeometry,
       FinishPolygon, EndFinish, NextCall, model, geometryManager
  <2>2. phase # "parsing"
    BY <1>10 DEF StartFinish, FinishCityObject, FinishImplicitGeometry, FinishGeometry,
       FinishPolygon, EndFinish, NextCall
  <2>3. QED
    BY <1>2, <1>3, <2>1, <2>2
<1>11. QED
  BY <1>4, <1>5, <1>6, <1>7, <1>8, <1>9, <1>10 DEF FinishNext, closeFactory

LEMMA TreeBegins == FinishInit => TreeInv
<1> SUFFICES ASSUME FinishInit PROVE TreeInv
  OBVIOUS
<1>1. /\ objects = <<>> /\ path = <<>> /\ geometries = [o \in 0..MaxObjects |-> <<>>]
      /\ sharedGeometries = [d \in Id |-> 0]
  BY DEF FinishInit, Init
<1>2. Len(objects) = 0 /\ Len(path) = 0 /\ ToSet(path) = {} /\ Of("geometry") = {}
  BY <1>1 DEF ToSet, Of
<1>3. \A h \in 0..MaxObjects : geometries[h] = <<>> /\ ToSet(geometries[h]) = {}
  BY <1>1 DEF ToSet
<1>4. PathOrdered /\ InTree
  BY <1>1, <1>2 DEF PathOrdered, InTree
<1>5. OffPath /\ NoneYet /\ OneHolder /\ SharedHeld
  BY <1>1, <1>2, <1>3 DEF OffPath, NoneYet, OneHolder, SharedHeld
<1>6. QED
  BY <1>4, <1>5 DEF TreeInv

-----------------------------------------------------------------------------
(* The walk over the model.                                                *)

(* It has not begun, or is over.                                           *)
WalkBegins ==
  /\ phase \notin {"finish", "done"} => calls = <<>> /\ finished = {}
  /\ phase = "done" => calls = <<>>

(* A geometry is called for one that holds it only once, after that one    *)
(* and before it is finished itself.                                       *)
CallOK(c) ==
  c.obj \in Of("geometry") =>
    IF c.from = 0 THEN ~HasParent(c.obj)
    ELSE /\ c.from \in finished \cap Of("geometry")
         /\ c.obj \in ToSet(geometries[c.from])
         /\ c.obj \notin finished
CallsOK == \A i \in 1..Len(calls) : CallOK(calls[i])
CalledOnce ==
  \A i, j \in 1..Len(calls) :
    /\ calls[i].obj = calls[j].obj /\ calls[i].obj \in Of("geometry")
    /\ calls[i].from # 0 /\ calls[j].from # 0
    => i = j
ParentFinished ==
  \A g \in Of("geometry") : \A o \in ToSet(geometries[g]) : o \in finished => g \in finished

(* The parts of a finished geometry are called or have what it has, which  *)
(* is all that it will ever have.                                          *)
Called(o, from) == \E i \in 1..Len(calls) : calls[i].obj = o /\ calls[i].from = from
Handed(g, o)    == \A s \in Appearances!Slot : slots[g][s] # 0 => slots[o][s] # 0
HandedDown ==
  \A g \in Of("geometry") \cap finished : \A o \in ToSet(geometries[g]) \cup ToSet(polygons[g]) :
    Called(o, g) \/ (o \in finished /\ Handed(g, o))

(* What is part of the objects visited has been visited or is called.      *)
Visited(V) ==
  /\ V \cap Of("geometry") = finished \cap Of("geometry")
  /\ \A h \in V \cup {0}, o \in 1..Len(objects) :
       PartOf(o, h) => o \in V \/ \E i \in 1..Len(calls) : calls[i].obj = o
Walked == phase \in {"finish", "done"} => \E V \in SUBSET (1..Len(objects)) : Visited(V)

WalkInv ==
  WalkBegins /\ CallsOK /\ CalledOnce /\ ParentFinished /\ HandedDown /\ Walked

LEMMA NotYetWalking ==
  ASSUME WalkBegins, phase \notin {"finish", "done"}
  PROVE  WalkInv
<1>1. calls = <<>> /\ finished = {} /\ Len(calls) = 0
  BY DEF WalkBegins
<1>2. QED
  BY <1>1 DEF WalkInv, CallsOK, CalledOnce, ParentFinished, HandedDown, Walked

LEMMA OneHolderSet ==
  ASSUME PartsTyped, OneHolder, Len(objects) \in Nat, Len(objects) <= MaxObjects,
         MaxObjects \in Nat
  PROVE  \A g \in Of("geometry"), h \in 0..MaxObjects :
           \A o \in ToSet(geometries[g]) : o \in ToSet(geometries[h]) => h = g
<1>1. SUFFICES ASSUME NEW g \in Of("geometry"), NEW h \in 0..MaxObjects,
                      NEW o \in ToSet(geometries[g]), o \in ToSet(geometries[h])
               PROVE  h = g
  OBVIOUS
<1>2. g \in 0..MaxObjects
  BY DEF Of
<1>3. \A x \in 0..MaxObjects : DOMAIN geometries[x] = 1..Len(geometries[x])
  BY LenProperties DEF PartsTyped
<1>4. PICK i \in 1..Len(geometries[g]) : geometries[g][i] = o
  BY <1>1, <1>2, <1>3 DEF ToSet
<1>5. PICK j \in 1..Len(geometries[h]) : geometries[h][j] = o
  BY <1>1, <1>3 DEF ToSet
<1>6. QED
  BY <1>4, <1>5 DEF OneHolder

LEMMA CallsAfter ==
  ASSUME NEW S, NEW s \in Seq(S), s # <<>>, NEW new \in Seq(S), NEW r, r = new \o Tail(s)
  PROVE  /\ Head(s) = s[1] /\ 1 \in 1..Len(s)
         /\ Len(new) \in Nat /\ Len(s) \in Nat
         /\ \A j \in 1..Len(r) :
              \/ j \in 1..Len(new) /\ r[j] = new[j]
              \/ j - Len(new) + 1 \in 2..Len(s) /\ r[j] = s[j - Len(new) + 1]
         /\ \A i \in 1..Len(new) : i \in 1..Len(r) /\ r[i] = new[i]
         /\ \A i \in 1..Len(s) : i # 1 =>
              Len(new) + i - 1 \in 1..Len(r) /\ r[Len(new) + i - 1] = s[i]
<1>1. /\ Len(s) \in Nat /\ Len(s) # 0 /\ Len(new) \in Nat
      /\ Head(s) = s[1]
  BY LenProperties, EmptySeq, HeadTailProperties
<1>2. /\ Tail(s) \in Seq(S) /\ Len(Tail(s)) = Len(s) - 1
      /\ \A i \in 1..(Len(s) - 1) : Tail(s)[i] = s[i + 1]
  BY <1>1, HeadTailProperties
<1>3. /\ Len(r) = Len(new) + Len(s) - 1
      /\ \A i \in 1..Len(r) : r[i] = IF i <= Len(new) THEN new[i] ELSE Tail(s)[i - Len(new)]
  <2>1. /\ Len(new \o Tail(s)) = Len(new) + Len(Tail(s))
        /\ \A i \in 1..(Len(new) + Len(Tail(s))) :
             (new \o Tail(s))[i] = IF i <= Len(new) THEN new[i] ELSE Tail(s)[i - Len(new)]
    BY <1>2, ConcatProperties
  <2>2. QED
    BY <1>1, <1>2, <2>1
<1>4. ASSUME NEW j \in 1..Len(r)
      PROVE  \/ j \in 1..Len(new) /\ r[j] = new[j]
             \/ j - Len(new) + 1 \in 2..Len(s) /\ r[j] = s[j - Len(new) + 1]
  <2>1. CASE j <= Len(new)
    BY <1>1, <1>3, <2>1
  <2>2. CASE ~(j <= Len(new))
    <3>1. j - Len(new) \in 1..(Len(s) - 1) /\ r[j] = Tail(s)[j - Len(new)]
      BY <1>1, <1>3, <2>2
    <3>2. QED
      BY <1>1, <1>2, <3>1
  <2>3. QED
    BY <2>1, <2>2
<1>5. \A i \in 1..Len(new) : i \in 1..Len(r) /\ r[i] = new[i]
  BY <1>1, <1>3
<1>6. ASSUME NEW i \in 1..Len(s), i # 1
      PROVE  Len(new) + i - 1 \in 1..Len(r) /\ r[Len(new) + i - 1] = s[i]
  <2>1. /\ Len(new) + i - 1 \in 1..Len(r) /\ ~(Len(new) + i - 1 <= Len(new))
        /\ (Len(new) + i - 1) - Len(new) = i - 1
        /\ i - 1 \in 1..(Len(s) - 1) /\ (i - 1) + 1 = i
    BY <1>1, <1>3, <1>6
  <2>2. r[Len(new) + i - 1] = Tail(s)[i - 1]
    BY <1>3, <2>1
  <2>3. QED
    BY <1>2, <2>1, <2>2
<1>7. QED
  BY <1>1, <1>4, <1>5, <1>6

(* The calls that the call c makes of finish methods: for all parts of an  *)
(* object that is visited for the first time.                              *)
NewCalls(c, new) ==
  /\ \A i \in 1..Len(new) : new[i].obj \in Of("geometry") =>
       \/ new[i].from = 0 /\ ~HasParent(new[i].obj)
       \/ /\ new[i].from = c.obj /\ c.obj \in Of("geometry") \ finished
          /\ i \in 1..Len(geometries[c.obj]) /\ new[i].obj = geometries[c.obj][i]
  /\ c.obj \in Of("geometry") \ finished =>
       \A o \in ToSet(geometries[c.obj]) \cup ToSet(polygons[c.obj]) :
         \E i \in 1..Len(new) : new[i].obj = o /\ new[i].from = c.obj
  /\ c.obj \notin Of("geometry") \cap finished =>
       \A o \in 1..Len(objects) : PartOf(o, c.obj) => \E i \in 1..Len(new) : new[i].obj = o

LEMMA WalkStep ==
  ASSUME TypeInv, TreeInv, WalkInv, phase = "finish",
         UNCHANGED <<objects, phase, children, implicits, geometries, polygons>>,
         NEW c, calls # <<>>, c = Head(calls), c.obj \in 1..Len(objects),
         NEW new \in Seq(CallType), calls' = new \o Tail(calls),
         \/ UNCHANGED <<slots, finished>> /\ c.obj \notin Of("geometry") \cup Of("polygon")
         \/ slots' = Inherited(c) /\ finished' = finished \cup {c.obj},
         NewCalls(c, new)
  PROVE  WalkInv'
<1>1. /\ Len(objects) \in Nat /\ Len(objects) <= MaxObjects /\ MaxObjects \in Nat
      /\ calls \in Seq(CallType) /\ PartsTyped
      /\ \A k : Of(k)' = Of(k) /\ Of(k) \subseteq Object /\ Of(k) \subseteq 0..MaxObjects
      /\ \A o : HasParent(o)' = HasParent(o)
      /\ \A o, h : PartOf(o, h)' = PartOf(o, h)
  <2>1. /\ Len(objects) \in Nat /\ Len(objects) <= MaxObjects /\ MaxObjects \in Nat
        /\ calls \in Seq(CallType) /\ PartsTyped
    BY TopAround, FactoryAssumption DEF TypeInv, BuildInv, PartsOK, FinishTyped, CallType
  <2>2. \A k : Of(k)' = Of(k) /\ Of(k) \subseteq Object /\ Of(k) \subseteq 0..MaxObjects
    BY <2>1 DEF Of, Object
  <2>3. \A o : HasParent(o)' = HasParent(o)
    BY <2>2 DEF HasParent
  <2>4. \A o, h : PartOf(o, h)' = PartOf(o, h)
    BY DEF PartOf, KindOf
  <2>5. QED
    BY <2>1, <2>2, <2>3, <2>4
<1>2. /\ c = calls[1] /\ 1 \in 1..Len(calls)
      /\ Len(new) \in Nat /\ Len(calls) \in Nat
      /\ \A j \in 1..Len(calls') :
           \/ j \in 1..Len(new) /\ calls'[j] = new[j]
           \/ j - Len(new) + 1 \in 2..Len(calls) /\ calls'[j] = calls[j - Len(new) + 1]
      /\ \A i \in 1..Len(new) : i \in 1..Len(calls') /\ calls'[i] = new[i]
      /\ \A i \in 1..Len(calls) : i # 1 =>
           Len(new) + i - 1 \in 1..Len(calls') /\ calls'[Len(new) + i - 1] = calls[i]
  BY <1>1, CallsAfter
<1>3. \A g \in Of("geometry"), h \in 0..MaxObjects :
        \A o \in ToSet(geometries[g]) : o \in ToSet(geometries[h]) => h = g
  BY <1>1, OneHolderSet DEF TreeInv
<1>4. CallsOK /\ CalledOnce /\ ParentFinished /\ HandedDown /\ CallOK(c)
  BY <1>2 DEF WalkInv, CallsOK
<1>5. \A o \in Of("geometry") : o \in finished' => o \in finished \/ o = c.obj
  OBVIOUS
<1>6. finished \subseteq finished' /\ (c.obj \in Of("geometry") \cup Of("polygon") => c.obj \in finished')
  OBVIOUS
(* The holder of a geometry that is called has made the call.              *)
<1>7. ASSUME NEW i \in 1..Len(calls), NEW g \in Of("geometry"), NEW o \in ToSet(geometries[g]),
             calls[i].obj = o
      PROVE  calls[i].from = g /\ g \in finished /\ o \notin finished
  <2>1. o \in Of("geometry")
    BY <1>1, ListsOfObjects
  <2>2. HasParent(o) /\ CallOK(calls[i])
    BY <1>4 DEF HasParent, CallsOK
  <2>3. calls[i].from \in Of("geometry") /\ o \in ToSet(geometries[calls[i].from])
        /\ calls[i].from \in finished /\ o \notin finished
    BY <1>7, <2>1, <2>2 DEF CallOK
  <2>4. QED
    BY <1>1, <1>3, <2>3
(* No other call is one of this geometry by its holder.                    *)
<1>8. ASSUME NEW i \in 1..Len(calls), i # 1, calls[i].obj \in Of("geometry"), calls[i].from # 0
      PROVE  calls[i].obj # c.obj /\ calls[i].obj \notin finished'
  <2>1. /\ calls[i].from \in Of("geometry") /\ calls[i].obj \in ToSet(geometries[calls[i].from])
        /\ calls[i].obj \notin finished
    BY <1>4, <1>8 DEF CallsOK, CallOK
  <2>2. ASSUME calls[i].obj = c.obj
        PROVE  FALSE
    <3>1. c.from = calls[i].from
      BY <1>2, <1>7, <2>1, <2>2
    <3>2. QED
      BY <1>2, <1>4, <1>8, <2>2, <3>1 DEF CalledOnce
  <2>3. QED
    BY <1>5, <1>8, <2>1, <2>2
(* A geometry is no part of itself.                                        *)
<1>9. ASSUME c.obj \in Of("geometry"), c.obj \notin finished,
             NEW o \in ToSet(geometries[c.obj])
      PROVE  o \in Of("geometry") /\ o \notin finished' /\ \A i \in 1..Len(calls) : calls[i].obj # o
  <2>1. \A i \in 1..Len(calls) : calls[i].obj # o
    BY <1>7, <1>9
  <2>2. o # c.obj /\ o \notin finished /\ o \in Of("geometry")
    BY <1>1, <1>2, <1>4, <1>9, <2>1, ListsOfObjects DEF ParentFinished
  <2>3. QED
    BY <1>5, <2>1, <2>2
<1>10. ASSUME NEW i \in 1..Len(new), new[i].obj \in Of("geometry"), new[i].from # 0
       PROVE  /\ new[i].from = c.obj /\ c.obj \in Of("geometry") \ finished
              /\ i \in 1..Len(geometries[c.obj]) /\ new[i].obj = geometries[c.obj][i]
              /\ new[i].obj \in ToSet(geometries[c.obj])
  <2>1. /\ new[i].from = c.obj /\ c.obj \in Of("geometry") \ finished
        /\ i \in 1..Len(geometries[c.obj]) /\ new[i].obj = geometries[c.obj][i]
    BY <1>10 DEF NewCalls
  <2>2. DOMAIN geometries[c.obj] = 1..Len(geometries[c.obj])
    BY <1>1, <2>1, LenProperties DEF PartsTyped
  <2>3. QED
    BY <2>1, <2>2 DEF ToSet
<1>11. WalkBegins'
  BY DEF WalkBegins
<1>12. CallsOK'
  <2>1. ASSUME NEW j \in 1..Len(calls')
        PROVE  CallOK(calls[j])'
    <3>1. CASE j \in 1..Len(new) /\ calls'[j] = new[j]
      <4>1. CASE calls'[j].obj \in Of("geometry") /\ calls'[j].from # 0
        BY <1>1, <1>6, <1>9, <1>10, <3>1, <4>1 DEF CallOK
      <4>2. CASE calls'[j].obj \in Of("geometry") /\ calls'[j].from = 0
        <5>1. ~HasParent(calls'[j].obj)
          <6>1. c.obj # 0
            BY <1>1
          <6>2. QED
            BY <3>1, <4>2, <6>1 DEF NewCalls
        <5>2. ~HasParent(calls[j].obj)'
          BY <1>1, <5>1 DEF HasParent
        <5>3. QED
          BY <4>2, <5>2 DEF CallOK
      <4>3. QED
        BY <1>1, <4>1, <4>2 DEF CallOK
    <3>2. ASSUME NEW i \in 2..Len(calls), calls'[j] = calls[i]
          PROVE  CallOK(calls[j])'
      <4>1. i \in 1..Len(calls) /\ i # 1
        BY <1>2
      <4>2. CallOK(calls[i])
        BY <1>4, <4>1 DEF CallsOK
      <4>3. ASSUME calls[i].obj \in Of("geometry"), calls[i].from = 0
            PROVE  ~HasParent(calls[j].obj)'
        BY <3>2, <4>2, <4>3, <1>1 DEF CallOK, HasParent
      <4>4. ASSUME calls[i].obj \in Of("geometry"), calls[i].from # 0
            PROVE  /\ calls[i].from \in finished' \cap Of("geometry")
                   /\ calls[i].obj \in ToSet(geometries[calls[i].from])
                   /\ calls[i].obj \notin finished'
        BY <1>6, <1>8, <4>1, <4>2, <4>4 DEF CallOK
      <4>5. QED
        BY <1>1, <3>2, <4>3, <4>4 DEF CallOK
    <3>3. QED
      BY <1>2, <3>1, <3>2
  <2>2. QED
    BY <2>1 DEF CallsOK
<1>13. CalledOnce'
  <2>1. SUFFICES ASSUME NEW i \in 1..Len(calls'), NEW j \in 1..Len(calls'),
                        calls'[i].obj = calls'[j].obj, calls'[i].obj \in Of("geometry"),
                        calls'[i].from # 0, calls'[j].from # 0
                 PROVE  i = j
    BY <1>1 DEF CalledOnce
  <2> DEFINE Made(k) == k \in 1..Len(new) /\ calls'[k] = new[k]
             Left(k) == k - Len(new) + 1 \in 2..Len(calls) /\ calls'[k] = calls[k - Len(new) + 1]
  <2>2. (Made(i) \/ Left(i)) /\ (Made(j) \/ Left(j))
    BY <1>2
  <2>3. CASE Made(i) /\ Made(j)
    <3>1. /\ i \in 1..Len(geometries[c.obj]) /\ j \in 1..Len(geometries[c.obj])
          /\ geometries[c.obj][i] = geometries[c.obj][j] /\ c.obj \in Of("geometry")
      BY <1>10, <2>1, <2>3
    <3>2. QED
      BY <1>1, <3>1 DEF OneHolder, TreeInv
  <2>4. CASE Left(i) /\ Left(j)
    <3>0. \A n \in 2..Len(calls) : n \in 1..Len(calls)
      BY <1>2
    <3>1. PICK k \in 1..Len(calls) : k = i - Len(new) + 1 /\ calls'[i] = calls[k]
      <4>1. i - Len(new) + 1 \in 2..Len(calls) /\ calls'[i] = calls[i - Len(new) + 1]
        BY <2>4
      <4>2. QED
        BY <3>0, <4>1
    <3>2. PICK m \in 1..Len(calls) : m = j - Len(new) + 1 /\ calls'[j] = calls[m]
      <4>1. j - Len(new) + 1 \in 2..Len(calls) /\ calls'[j] = calls[j - Len(new) + 1]
        BY <2>4
      <4>2. QED
        BY <3>0, <4>1
    <3>3. k = m
      <4>1. /\ calls[k].obj = calls[m].obj /\ calls[k].obj \in Of("geometry")
            /\ calls[k].from # 0 /\ calls[m].from # 0
        BY <2>1, <3>1, <3>2
      <4>2. QED
        BY <1>4, <4>1 DEF CalledOnce
    <3>4. i \in Int /\ j \in Int
      OBVIOUS
    <3>5. QED
      BY <1>2, <3>1, <3>2, <3>3, <3>4
  <2>5. ASSUME NEW k \in 1..Len(calls'), NEW m \in 1..Len(calls'), Made(k), Left(m),
               calls'[k].obj = calls'[m].obj, calls'[k].obj \in Of("geometry"),
               calls'[k].from # 0
        PROVE  FALSE
    <3>1. /\ new[k].obj \in ToSet(geometries[c.obj]) /\ c.obj \in Of("geometry") \ finished
      BY <1>10, <2>5
    <3>2. m - Len(new) + 1 \in 1..Len(calls) /\ calls[m - Len(new) + 1].obj = new[k].obj
      BY <1>2, <2>5
    <3>3. QED
      BY <1>9, <3>1, <3>2
  <2> HIDE DEF Made, Left
  <2>6. QED
    BY <2>1, <2>2, <2>3, <2>4, <2>5
<1>14. ParentFinished'
  <2>1. ASSUME NEW g \in Of("geometry"), NEW o \in ToSet(geometries[g]), o \in finished'
        PROVE  g \in finished'
    <3>1. CASE o \in finished
      BY <1>4, <1>6, <2>1, <3>1 DEF ParentFinished
    <3>2. CASE o = c.obj
      BY <1>2, <1>6, <1>7, <2>1, <3>2
    <3>3. QED
      BY <2>1, <3>1, <3>2
  <2>2. QED
    BY <1>1, <2>1 DEF ParentFinished
<1>15. \A o \in Object, s \in Appearances!Slot : slots[o][s] # 0 => slots'[o][s] = slots[o][s]
  <2>1. slots = [o \in Object |-> slots[o]]
        /\ \A o \in Object : slots[o] = [s \in Appearances!Slot |-> slots[o][s]]
    BY DEF TypeInv, AppearancesTyped
  <2>2. SlotsAreMaps
    BY <2>1 DEF SlotsAreMaps
  <2>3. CASE UNCHANGED slots
    BY <2>3
  <2>4. CASE slots' = Inherited(c)
    BY <2>2, <2>4, InheritKeepsSlots DEF SlotsStay
  <2>5. QED
    BY <2>3, <2>4
(* A finished geometry gets no more definitions.                           *)
<1>16. ASSUME NEW g \in Of("geometry") \cap finished
       PROVE  slots'[g] = slots[g]
  <2>1. CASE UNCHANGED slots
    BY <2>1
  <2>2. CASE slots' = Inherited(c) /\ c.from = 0
    BY <2>2 DEF Inherited
  <2>3. CASE slots' = Inherited(c) /\ c.from # 0
    <3>1. c.obj # g
      BY <1>4, <2>3 DEF CallOK
    <3>2. QED
      BY <2>3, <3>1 DEF Inherited
  <2>4. QED
    BY <2>1, <2>2, <2>3
<1>17. HandedDown'
  <2>1. ASSUME NEW g \in Of("geometry"), g \in finished',
               NEW o \in ToSet(geometries[g]) \cup ToSet(polygons[g])
        PROVE  Called(o, g)' \/ (o \in finished' /\ Handed(g, o)')
    <3>1. o \in Of("geometry") \cup Of("polygon")
      <4>1. ASSUME NEW S, NEW s \in Seq(S)
            PROVE  ToSet(s) \subseteq S
        BY ElementOfSeq, LenProperties DEF ToSet
      <4>2. geometries[g] \in Seq(Of("geometry")) /\ polygons[g] \in Seq(Of("polygon"))
        BY <1>1 DEF PartsTyped
      <4>3. QED
        BY <4>1, <4>2
    <3>2. CASE g \notin finished
      <4>1. g = c.obj
        BY <1>5, <2>1, <3>2
      <4>2. PICK i \in 1..Len(new) : new[i].obj = o /\ new[i].from = g
        BY <2>1, <3>2, <4>1 DEF NewCalls
      <4>3. QED
        BY <1>2, <4>2 DEF Called
    <3>3. CASE g \in finished /\ o \in finished /\ Handed(g, o)
      <4>1. g \in Object /\ o \in Object
        BY <1>1, <3>1
      <4>2. Handed(g, o)'
        BY <1>15, <1>16, <3>3, <4>1 DEF Handed, Appearances!Slot
      <4>3. QED
        BY <1>6, <3>3, <4>2
    <3>4. ASSUME NEW i \in 1..Len(calls), g \in finished, calls[i].obj = o, calls[i].from = g
          PROVE  Called(o, g)' \/ (o \in finished' /\ Handed(g, o)')
      <4>1. CASE i # 1
        <5>1. Len(new) + i - 1 \in 1..Len(calls') /\ calls'[Len(new) + i - 1] = calls[i]
          BY <1>2, <4>1
        <5>2. Called(o, g)'
          BY <3>4, <5>1 DEF Called
        <5>3. QED
          BY <5>2
      <4>2. CASE i = 1
        <5>1. c.obj = o /\ c.from = g /\ g # 0 /\ o \in Object /\ g \in Object
          BY <1>1, <1>2, <3>1, <3>4, <4>2 DEF Object
        <5>2. o \in finished' /\ slots' = Inherited(c)
          BY <3>1, <5>1
        <5>3. slots'[o] = Appearances!WithTargetDefinitionsOf(o, g)
          <6>1. DOMAIN slots = Object
            BY DEF TypeInv, AppearancesTyped
          <6>2. QED
            BY <5>1, <5>2, <6>1 DEF Inherited
        <5>4. \A s \in Appearances!Slot : slots[g][s] # 0 => slots'[o][s] # 0
          BY <5>3 DEF Appearances!WithTargetDefinitionsOf
        <5>5. slots'[g] = slots[g]
          BY <1>16, <3>4
        <5>6. Handed(g, o)'
          BY <5>4, <5>5 DEF Handed, Appearances!Slot
        <5>7. QED
          BY <5>2, <5>6
      <4>3. QED
        BY <4>1, <4>2
    <3>5. QED
      BY <1>4, <3>2, <3>3, <3>4 DEF HandedDown, Called
  <2>2. QED
    BY <1>1, <2>1 DEF HandedDown
<1>18. Walked'
  <2>1. PICK V \in SUBSET (1..Len(objects)) : Visited(V)
    BY DEF WalkInv, Walked
  <2> DEFINE W == V \cup {c.obj}
  <2>2. W \cap Of("geometry") = finished' \cap Of("geometry")
    BY <1>5, <1>6, <2>1 DEF Visited
  <2>3. ASSUME NEW h \in W \cup {0}, NEW o \in 1..Len(objects), PartOf(o, h)
        PROVE  o \in W \/ \E i \in 1..Len(calls') : calls'[i].obj = o
    <3>1. CASE h \in V \cup {0}
      <4>1. CASE o \in V
        BY <4>1
      <4>2. ASSUME NEW i \in 1..Len(calls), calls[i].obj = o
            PROVE  o \in W \/ \E j \in 1..Len(calls') : calls'[j].obj = o
        <5>1. CASE i = 1
          BY <1>2, <4>2, <5>1
        <5>2. CASE i # 1
          BY <1>2, <4>2, <5>2
        <5>3. QED
          BY <5>1, <5>2
      <4>3. QED
        BY <2>1, <2>3, <3>1, <4>1, <4>2 DEF Visited
    <3>2. CASE h \notin V \cup {0}
      <4>1. h = c.obj /\ c.obj \notin Of("geometry") \cap finished
        BY <2>1, <3>2 DEF Visited
      <4>2. PICK i \in 1..Len(new) : new[i].obj = o
        BY <2>3, <4>1 DEF NewCalls
      <4>3. QED
        BY <1>2, <4>2
    <3>3. QED
      BY <3>1, <3>2
  <2>4. W \in SUBSET (1..Len(objects')) /\ objects' = objects
    OBVIOUS
  <2>5. \E U \in SUBSET (1..Len(objects')) : Visited(U)'
    <3>1. PICK U \in SUBSET (1..Len(objects)) : U = W
      BY <2>4
    <3> HIDE DEF W
    <3>2. Visited(U)'
      BY <1>1, <2>2, <2>3, <3>1 DEF Visited
    <3>3. QED
      BY <2>4, <3>2
  <2>6. QED
    BY <2>4, <2>5 DEF Walked
<1>19. QED
  BY <1>11, <1>12, <1>13, <1>14, <1>17, <1>18 DEF WalkInv

LEMMA CallsAre ==
  ASSUME NEW S, NEW objs \in Seq(S), NEW from
  PROVE  /\ Len(objs) \in Nat /\ Len(Calls(objs, from)) = Len(objs)
         /\ \A i \in 1..Len(objs) :
              /\ Calls(objs, from)[i].obj = objs[i] /\ Calls(objs, from)[i].from = from
              /\ objs[i] \in ToSet(objs) /\ objs[i] \in S
         /\ \A o \in ToSet(objs) : \E i \in 1..Len(objs) : objs[i] = o
<1>1. /\ Len(objs) \in Nat /\ DOMAIN objs = 1..Len(objs)
      /\ \A i \in 1..Len(objs) : objs[i] \in S
  BY LenProperties, ElementOfSeq
<1>2. Len(Calls(objs, from)) = Len(objs)
  BY <1>1 DEF Calls
<1>3. QED
  BY <1>1, <1>2 DEF Calls, ToSet

LEMMA ConcatSet ==
  ASSUME NEW S, NEW a \in Seq(S), NEW b \in Seq(S)
  PROVE  a \o b \in Seq(S) /\ ToSet(a \o b) = ToSet(a) \cup ToSet(b)
<1>1. /\ a \o b \in Seq(S) /\ Len(a) \in Nat /\ Len(b) \in Nat
      /\ DOMAIN (a \o b) = 1..(Len(a) + Len(b)) /\ DOMAIN a = 1..Len(a) /\ DOMAIN b = 1..Len(b)
      /\ \A i \in 1..(Len(a) + Len(b)) :
           (a \o b)[i] = IF i <= Len(a) THEN a[i] ELSE b[i - Len(a)]
  BY ConcatProperties, LenProperties
<1>2. ASSUME NEW i \in 1..(Len(a) + Len(b)) PROVE (a \o b)[i] \in ToSet(a) \cup ToSet(b)
  <2>1. CASE i <= Len(a)
    BY <1>1, <2>1 DEF ToSet
  <2>2. CASE ~(i <= Len(a))
    <3>1. i - Len(a) \in 1..Len(b)
      BY <1>1, <2>2
    <3>2. QED
      BY <1>1, <2>2, <3>1 DEF ToSet
  <2>3. QED
    BY <2>1, <2>2
<1>3. ASSUME NEW i \in 1..Len(a) PROVE a[i] \in ToSet(a \o b)
  <2>1. i \in 1..(Len(a) + Len(b)) /\ (a \o b)[i] = a[i]
    BY <1>1
  <2>2. QED
    BY <1>1, <2>1 DEF ToSet
<1>4. ASSUME NEW i \in 1..Len(b) PROVE b[i] \in ToSet(a \o b)
  <2>1. /\ i + Len(a) \in 1..(Len(a) + Len(b)) /\ ~(i + Len(a) <= Len(a))
        /\ (i + Len(a)) - Len(a) = i
    BY <1>1
  <2>2. (a \o b)[i + Len(a)] = b[i]
    BY <1>1, <2>1
  <2>3. QED
    BY <1>1, <2>1, <2>2 DEF ToSet
<1>5. ToSet(a \o b) \subseteq ToSet(a) \cup ToSet(b)
  BY <1>1, <1>2 DEF ToSet
<1>6. ToSet(a) \cup ToSet(b) \subseteq ToSet(a \o b)
  <2>1. ASSUME NEW e \in ToSet(a) PROVE e \in ToSet(a \o b)
    BY <1>1, <1>3, <2>1 DEF ToSet
  <2>2. ASSUME NEW e \in ToSet(b) PROVE e \in ToSet(a \o b)
    BY <1>1, <1>4, <2>2 DEF ToSet
  <2>3. QED
    BY <2>1, <2>2
<1>7. QED
  BY <1>1, <1>5, <1>6

LEMMA ConcatSet3 ==
  ASSUME NEW S, NEW a \in Seq(S), NEW b \in Seq(S), NEW x \in Seq(S)
  PROVE  a \o b \o x \in Seq(S) /\ ToSet(a \o b \o x) = ToSet(a) \cup ToSet(b) \cup ToSet(x)
<1>1. PICK ab \in Seq(S) : ab = a \o b /\ ToSet(ab) = ToSet(a) \cup ToSet(b)
  BY ConcatSet
<1>2. ab \o x \in Seq(S) /\ ToSet(ab \o x) = ToSet(ab) \cup ToSet(x)
  BY ConcatSet
<1>3. QED
  BY <1>1, <1>2

(* The walk goes from a city object or implicit geometry to its parts.     *)
LEMMA VisitStep ==
  ASSUME TypeInv, TreeInv, WalkInv, NEW kind \in {"cityobject", "implicit"}, NextCall(kind),
         NEW objs \in Seq(1..Len(objects)), calls' = Calls(objs, 0) \o Tail(calls),
         ToSet(objs) \cap Of("geometry") \subseteq ToSet(geometries[Head(calls).obj]),
         \A o \in 1..Len(objects) : PartOf(o, Head(calls).obj) => o \in ToSet(objs),
         UNCHANGED <<finished, slots>>
  PROVE  WalkInv'
<1>1. PICK c : c = Head(calls)
  OBVIOUS
<1>2. /\ FinishTyped /\ PartsTyped
      /\ Len(objects) \in Nat /\ Len(objects) <= MaxObjects /\ MaxObjects \in Nat
  BY TopAround, FactoryAssumption DEF TypeInv, BuildInv, PartsOK
<1>3. c.obj \in Of(kind)
  BY <1>1, <1>2, NextCallTyped
<1>4. /\ phase = "finish" /\ calls # <<>>
      /\ UNCHANGED <<objects, phase, children, implicits, geometries, polygons>>
  BY DEF NextCall, model
<1>5. /\ c.obj \in 1..Len(objects) /\ c.obj \in 0..MaxObjects
      /\ c.obj \notin Of("geometry") /\ c.obj \notin Of("polygon")
  BY <1>2, <1>3 DEF Of
<1>6. PICK new : new = Calls(objs, 0)
  OBVIOUS
<1>7. new \in Seq(CallType)
  <2>1. 0 \in 0..Len(objects)
    BY <1>2
  <2>2. QED
    BY <1>6, <2>1, CallsTyped DEF CallType
<1>8. /\ Len(new) = Len(objs)
      /\ \A i \in 1..Len(objs) : new[i].obj = objs[i] /\ new[i].from = 0 /\ objs[i] \in ToSet(objs)
      /\ \A o \in ToSet(objs) : \E i \in 1..Len(objs) : objs[i] = o
  BY <1>6, CallsAre
<1>9. \A o \in ToSet(geometries[c.obj]) : ~HasParent(o)
  BY <1>2, <1>5, OneHolderSet DEF HasParent, TreeInv
<1>10. calls' = new \o Tail(calls)
  BY <1>6
<1>11. NewCalls(c, new)
  <2>1. \A i \in 1..Len(new) : new[i].obj \in Of("geometry") => new[i].from = 0 /\ ~HasParent(new[i].obj)
    BY <1>1, <1>8, <1>9
  <2>2. \A o \in 1..Len(objects) : PartOf(o, c.obj) => \E i \in 1..Len(new) : new[i].obj = o
    BY <1>1, <1>8
  <2>3. QED
    BY <1>5, <2>1, <2>2 DEF NewCalls
<1>12. QED
  BY <1>1, <1>4, <1>5, <1>7, <1>10, <1>11, WalkStep

(* The calls that a geometry makes: for its n child geometries, then for   *)
(* its m polygons.                                                         *)
CallsMade(g, new, n, m) ==
  /\ new \in Seq(CallType) /\ Len(new) = n + m
  /\ \A i \in 1..n : i \in 1..Len(new) /\ new[i].obj = geometries[g][i] /\ new[i].from = g
  /\ \A i \in 1..m :
       /\ i + n \in 1..Len(new) /\ new[i + n].obj = polygons[g][i] /\ new[i + n].from = g
       /\ polygons[g][i] \in Of("polygon")
  /\ \A i \in 1..Len(new) :
       i \in 1..n \/ (i - n \in 1..m /\ new[i].obj = polygons[g][i - n] /\ new[i].from = g)
  /\ \A o \in ToSet(geometries[g]) : \E i \in 1..n : geometries[g][i] = o
  /\ \A o \in ToSet(polygons[g]) : \E i \in 1..m : polygons[g][i] = o

LEMMA GeometryCalls ==
  ASSUME PartsTyped, Len(objects) \in Nat, MaxObjects \in Nat, Len(objects) <= MaxObjects,
         NEW g \in Of("geometry"), NEW new,
         new = Calls(geometries[g], g) \o Calls(polygons[g], g)
  PROVE  \E n \in Nat : \E m \in Nat :
           CallsMade(g, new, n, m) /\ n = Len(geometries[g]) /\ m = Len(polygons[g])
<1>1. g \in 0..Len(objects) /\ g \in 0..MaxObjects
  BY DEF Of
<1>2. PICK gs : gs = geometries[g]
  OBVIOUS
<1>3. PICK ps : ps = polygons[g]
  OBVIOUS
<1>4. gs \in Seq(Of("geometry")) /\ ps \in Seq(Of("polygon"))
  BY <1>1, <1>2, <1>3 DEF PartsTyped
<1>5. PICK first : first = Calls(gs, g)
  OBVIOUS
<1>6. PICK rest : rest = Calls(ps, g)
  OBVIOUS
<1>7. first \in Seq(CallType) /\ rest \in Seq(CallType)
  BY <1>1, <1>4, <1>5, <1>6, HeldCallsTyped
<1>8. PICK n \in Nat : n = Len(gs) /\ n = Len(first)
  BY <1>4, <1>5, CallsAre
<1>9. PICK m \in Nat : m = Len(ps) /\ m = Len(rest)
  BY <1>4, <1>6, CallsAre
<1>10. /\ \A i \in 1..n : first[i].obj = gs[i] /\ first[i].from = g
       /\ \A o \in ToSet(gs) : \E i \in 1..n : gs[i] = o
  BY <1>4, <1>5, <1>8, CallsAre
<1>11. /\ \A i \in 1..m : rest[i].obj = ps[i] /\ rest[i].from = g /\ ps[i] \in Of("polygon")
       /\ \A o \in ToSet(ps) : \E i \in 1..m : ps[i] = o
  BY <1>4, <1>6, <1>9, CallsAre
<1>12. /\ new \in Seq(CallType) /\ Len(new) = n + m
       /\ \A i \in 1..(n + m) : new[i] = IF i <= n THEN first[i] ELSE rest[i - n]
  <2>1. new = first \o rest
    BY <1>2, <1>3, <1>5, <1>6
  <2>2. QED
    BY <1>7, <1>8, <1>9, <2>1, ConcatProperties
<1>13. \A i \in 1..n : i \in 1..(n + m) /\ new[i] = first[i]
  BY <1>12
<1>14. ASSUME NEW i \in 1..m
       PROVE  i + n \in 1..(n + m) /\ new[i + n] = rest[i]
  <2>1. i + n \in 1..(n + m) /\ ~(i + n <= n) /\ (i + n) - n = i
    OBVIOUS
  <2>2. QED
    BY <1>12, <2>1
<1>15. ASSUME NEW i \in 1..(n + m), i \notin 1..n
       PROVE  i - n \in 1..m /\ new[i] = rest[i - n]
  <2>1. i - n \in 1..m /\ ~(i <= n)
    BY <1>15
  <2>2. QED
    BY <1>12, <2>1
<1>16. \A i \in 1..n : i \in 1..Len(new) /\ new[i].obj = gs[i] /\ new[i].from = g
  BY <1>10, <1>12, <1>13
<1>17. \A i \in 1..m : /\ i + n \in 1..Len(new) /\ new[i + n].obj = ps[i] /\ new[i + n].from = g
                       /\ ps[i] \in Of("polygon")
  BY <1>11, <1>12, <1>14
<1>18. ASSUME NEW i \in 1..Len(new)
       PROVE  i \in 1..n \/ (i - n \in 1..m /\ new[i].obj = ps[i - n] /\ new[i].from = g)
  <2>1. SUFFICES ASSUME i \notin 1..n
                 PROVE  i - n \in 1..m /\ new[i].obj = ps[i - n] /\ new[i].from = g
    OBVIOUS
  <2>2. i \in 1..(n + m)
    BY <1>12
  <2>3. i - n \in 1..m /\ new[i] = rest[i - n]
    BY <1>15, <2>1, <2>2
  <2>4. rest[i - n].obj = ps[i - n] /\ rest[i - n].from = g
    BY <1>11, <2>3
  <2>5. QED
    BY <2>3, <2>4
<1>19. CallsMade(g, new, n, m)
  BY <1>2, <1>3, <1>10, <1>11, <1>12, <1>16, <1>17, <1>18 DEF CallsMade
<1>20. QED
  BY <1>2, <1>3, <1>8, <1>9, <1>19

LEMMA FinishStepWalk ==
  ASSUME TypeInv, TreeInv, WalkInv,
         FinishCityObject \/ FinishImplicitGeometry \/ FinishGeometry \/ FinishPolygon
  PROVE  WalkInv'
<1>1. PICK c : c = Head(calls)
  OBVIOUS
<1>2. /\ FinishTyped /\ PartsTyped
      /\ Len(objects) \in Nat /\ Len(objects) <= MaxObjects /\ MaxObjects \in Nat
  BY TopAround, FactoryAssumption DEF TypeInv, BuildInv, PartsOK
<1>3. \A k : Of(k) \subseteq 1..Len(objects) /\ Of(k) \subseteq 0..MaxObjects
  BY <1>2 DEF Of
<1>4. ASSUME NEW h \in 0..MaxObjects
      PROVE  /\ geometries[h] \in Seq(1..Len(objects)) /\ implicits[h] \in Seq(1..Len(objects))
             /\ children[h] \in Seq(1..Len(objects))
  <2>1. /\ geometries[h] \in Seq(Of("geometry")) /\ implicits[h] \in Seq(Of("implicit"))
        /\ children[h] \in Seq(Of("cityobject"))
    BY <1>2 DEF PartsTyped
  <2>2. QED
    BY <1>3, <2>1, SeqMonotone
<1>5. CASE FinishCityObject
  <2>1. /\ NextCall("cityobject")
        /\ calls' = Calls(geometries[c.obj] \o implicits[c.obj] \o children[c.obj], 0) \o Tail(calls)
        /\ UNCHANGED <<finished, slots>>
    BY <1>1, <1>5 DEF FinishCityObject
  <2>2. c.obj \in Of("cityobject") /\ c.obj \in 0..MaxObjects
    BY <1>1, <1>2, <1>3, <2>1, NextCallTyped
  <2> DEFINE S == 1..Len(objects)
  <2>3. PICK objs : objs = geometries[c.obj] \o implicits[c.obj] \o children[c.obj]
    OBVIOUS
  <2>4. /\ objs \in Seq(S)
        /\ ToSet(objs) = ToSet(geometries[c.obj]) \cup ToSet(implicits[c.obj]) \cup ToSet(children[c.obj])
    <3>1. /\ geometries[c.obj] \in Seq(S) /\ implicits[c.obj] \in Seq(S)
          /\ children[c.obj] \in Seq(S)
      BY <1>4, <2>2
    <3> HIDE DEF S
    <3>2. QED
      BY <2>3, <3>1, ConcatSet3
  <2>5. ToSet(objs) \cap Of("geometry") \subseteq ToSet(geometries[c.obj])
    <3>1. /\ ToSet(implicits[c.obj]) \subseteq Of("implicit")
          /\ ToSet(children[c.obj]) \subseteq Of("cityobject")
      BY <1>2, <2>2, ListsOfObjects
    <3>2. Of("geometry") \cap Of("implicit") = {} /\ Of("geometry") \cap Of("cityobject") = {}
      BY DEF Of
    <3>3. QED
      BY <2>4, <3>1, <3>2
  <2>6. \A o \in 1..Len(objects) : PartOf(o, c.obj) => o \in ToSet(objs)
    BY <2>4 DEF PartOf
  <2>7. QED
    BY <1>1, <2>1, <2>3, <2>4, <2>5, <2>6, VisitStep
<1>6. CASE FinishImplicitGeometry
  <2>1. /\ NextCall("implicit") /\ calls' = Calls(geometries[c.obj], 0) \o Tail(calls)
        /\ UNCHANGED <<finished, slots>>
    BY <1>1, <1>6 DEF FinishImplicitGeometry
  <2>2. c.obj \in Of("implicit") /\ c.obj \in 0..MaxObjects
    BY <1>1, <1>2, <1>3, <2>1, NextCallTyped
  <2>3. \A o \in 1..Len(objects) : PartOf(o, c.obj) => o \in ToSet(geometries[c.obj])
    BY <2>2 DEF PartOf, KindOf, Of
  <2>4. geometries[c.obj] \in Seq(1..Len(objects))
    BY <1>4, <2>2
  <2>5. QED
    BY <1>1, <2>1, <2>3, <2>4, VisitStep
<1>7. CASE FinishGeometry
  <2>1. /\ NextCall("geometry") /\ phase = "finish" /\ calls # <<>>
        /\ UNCHANGED <<objects, phase, children, implicits, geometries, polygons>>
        /\ slots' = Inherited(c) /\ finished' = finished \cup {c.obj}
    BY <1>1, <1>7 DEF FinishGeometry, NextCall, model
  <2>2. c.obj \in Of("geometry") /\ c.obj \in 0..MaxObjects /\ c.obj \in 1..Len(objects)
    BY <1>1, <1>2, <1>3, <2>1, NextCallTyped
  <2>7. CASE c.obj \in finished
    <3>1. calls' = <<>> \o Tail(calls)
      BY <1>1, <1>7, <2>7 DEF FinishGeometry
    <3>2. PICK new : new = <<>>
      OBVIOUS
    <3>3. new \in Seq(CallType) /\ Len(new) = 0 /\ calls' = new \o Tail(calls)
      BY <3>1, <3>2, EmptySeq
    <3>4. NewCalls(c, new)
      BY <2>2, <2>7, <3>3 DEF NewCalls
    <3>5. QED
      BY <1>1, <2>1, <2>2, <3>3, <3>4, WalkStep
  <2>8. CASE c.obj \notin finished
    <3>1. PICK new : new = Calls(geometries[c.obj], c.obj) \o Calls(polygons[c.obj], c.obj)
      OBVIOUS
    <3>2. calls' = new \o Tail(calls)
      BY <1>1, <1>7, <2>8, <3>1, Zenon DEF FinishGeometry
    <3>3. PICK n \in Nat : \E m \in Nat :
            CallsMade(c.obj, new, n, m) /\ n = Len(geometries[c.obj])
      BY <1>2, <2>2, <3>1, GeometryCalls
    <3>4. PICK m \in Nat : CallsMade(c.obj, new, n, m)
      BY <3>3
    <3>5. new \in Seq(CallType)
      BY <3>4 DEF CallsMade
    <3>6. ASSUME NEW i \in 1..Len(new), new[i].obj \in Of("geometry")
          PROVE  /\ new[i].from = c.obj /\ i \in 1..Len(geometries[c.obj])
                 /\ new[i].obj = geometries[c.obj][i]
      <4>1. new[i].obj \notin Of("polygon")
        BY <3>6 DEF Of
      <4>2. i \in 1..n
        BY <3>4, <4>1 DEF CallsMade
      <4>3. QED
        BY <3>3, <3>4, <4>2 DEF CallsMade
    <3>7. \A o \in ToSet(geometries[c.obj]) :
            \E i \in 1..Len(new) : new[i].obj = o /\ new[i].from = c.obj
      BY <3>4 DEF CallsMade
    <3>8. ASSUME NEW o \in ToSet(polygons[c.obj])
          PROVE  \E i \in 1..Len(new) : new[i].obj = o /\ new[i].from = c.obj
      <4>1. PICK i \in 1..m : polygons[c.obj][i] = o
        BY <3>4, <3>8 DEF CallsMade
      <4>2. /\ i + n \in 1..Len(new)
            /\ new[i + n].obj = polygons[c.obj][i] /\ new[i + n].from = c.obj
        BY <3>4, <4>1 DEF CallsMade
      <4>3. QED
        BY <4>1, <4>2
    <3>9. \A o \in 1..Len(objects) : PartOf(o, c.obj) => \E i \in 1..Len(new) : new[i].obj = o
      BY <2>2, <3>7 DEF PartOf, KindOf, Of
    <3>10. NewCalls(c, new)
      BY <2>2, <2>8, <3>6, <3>7, <3>8, <3>9 DEF NewCalls
    <3>11. QED
      BY <1>1, <2>1, <2>2, <3>2, <3>5, <3>10, WalkStep
  <2>9. QED
    BY <2>7, <2>8
<1>8. CASE FinishPolygon
  <2>1. /\ NextCall("polygon") /\ phase = "finish" /\ calls # <<>> /\ calls' = Tail(calls)
        /\ UNCHANGED <<objects, phase, children, implicits, geometries, polygons>>
        /\ slots' = Inherited(c) /\ finished' = finished \cup {c.obj}
    BY <1>1, <1>8 DEF FinishPolygon, NextCall, model
  <2>2. /\ c.obj \in Of("polygon") /\ c.obj \in 1..Len(objects) /\ c.obj \notin Of("geometry")
        /\ Tail(calls) \in Seq(CallType)
    BY <1>1, <1>2, <2>1, NextCallTyped DEF Of
  <2>3. PICK new : new = <<>>
    OBVIOUS
  <2>4. new \in Seq(CallType) /\ Len(new) = 0 /\ calls' = new \o Tail(calls)
    <3>1. <<>> \o Tail(calls) = Tail(calls)
      BY <2>2, ConcatEmptySeq
    <3>2. QED
      BY <2>1, <2>3, <3>1, EmptySeq
  <2>5. \A o \in 1..Len(objects) : ~PartOf(o, c.obj)
    BY <2>2 DEF PartOf, KindOf, Of
  <2>6. NewCalls(c, new)
    BY <2>2, <2>4, <2>5 DEF NewCalls
  <2>7. QED
    BY <1>1, <2>1, <2>2, <2>4, <2>6, WalkStep
<1>9. QED
  BY <1>5, <1>6, <1>7, <1>8

(* CityModel::finish begins with the roots of the model.                   *)
LEMMA StartFinishWalk ==
  ASSUME TypeInv, WalkInv, NEW tesselator \in BOOLEAN, StartFinish(tesselator)
  PROVE  WalkInv'
<1>1. /\ UNCHANGED <<objects, children, implicits, geometries, polygons, finished>>
      /\ phase = "closed" /\ calls = <<>> /\ finished = {}
      /\ \A k : Of(k)' = Of(k)
  BY DEF StartFinish, model, WalkInv, WalkBegins, Of
<1>2. CASE ~tesselator
  <2>1. phase' = "unprocessed" /\ calls' = <<>> /\ finished' = {}
    BY <1>1, <1>2 DEF StartFinish
  <2>2. Len(calls') = 0
    BY <2>1
  <2>3. QED
    BY <2>1, <2>2 DEF WalkInv, WalkBegins, CallsOK, CalledOnce, ParentFinished, HandedDown, Walked
<1>3. CASE tesselator
  <2>1. phase' = "finish" /\ calls' = Calls(children[0], 0)
    BY <1>3 DEF StartFinish
  <2>2. children[0] \in Seq(Of("cityobject")) /\ 0 \in 0..MaxObjects
    BY FactoryAssumption DEF TypeInv, PartsTyped
  <2>3. /\ Len(children[0]) \in Nat /\ Len(calls') = Len(children[0])
        /\ \A i \in 1..Len(children[0]) :
             calls'[i].obj = children[0][i] /\ children[0][i] \in Of("cityobject")
        /\ \A o \in ToSet(children[0]) : \E i \in 1..Len(children[0]) : children[0][i] = o
    BY <2>1, <2>2, CallsAre
  <2>4. \A i \in 1..Len(calls') : calls'[i].obj \notin Of("geometry")
    BY <2>3 DEF Of
  <2>5. CallsOK' /\ CalledOnce'
    BY <1>1, <2>4 DEF CallsOK, CallOK, CalledOnce
  <2>6. ParentFinished' /\ HandedDown' /\ WalkBegins'
    BY <1>1, <2>1 DEF ParentFinished, HandedDown, WalkBegins
  <2>7. Walked'
    <3>1. PICK V \in SUBSET (1..Len(objects)) : V = {}
      OBVIOUS
    <3>2. \A o : PartOf(o, 0)' => o \in ToSet(children[0])
      BY <1>1 DEF PartOf, KindOf
    <3>3. Visited(V)'
      BY <1>1, <2>3, <3>1, <3>2 DEF Visited
    <3>4. V \in SUBSET (1..Len(objects'))
      BY <1>1
    <3>5. QED
      BY <3>3, <3>4 DEF Walked
  <2>8. QED
    BY <2>5, <2>6, <2>7 DEF WalkInv
<1>4. QED
  BY <1>2, <1>3

(* Steps that leave the walk alone, while it goes on or when it is over.   *)
LEMMA WalkUnchanged ==
  ASSUME WalkInv, UNCHANGED <<objects, children, implicits, geometries, polygons, slots>>,
         UNCHANGED <<calls, finished>>,
         \/ UNCHANGED phase
         \/ phase = "finish" /\ phase' = "done" /\ calls = <<>>
  PROVE  WalkInv'
<1>1. /\ \A k : Of(k)' = Of(k)
      /\ \A o : HasParent(o)' = HasParent(o)
      /\ \A o, h : PartOf(o, h)' = PartOf(o, h)
  BY DEF Of, HasParent, PartOf, KindOf
<1>2. WalkBegins'
  BY DEF WalkInv, WalkBegins
<1>3. CallsOK' /\ CalledOnce' /\ ParentFinished'
  BY <1>1 DEF WalkInv, CallsOK, CallOK, CalledOnce, ParentFinished
<1>4. HandedDown'
  <2>1. \A g, o : Called(o, g)' = Called(o, g) /\ Handed(g, o)' = Handed(g, o)
    BY DEF Called, Handed, Appearances!Slot
  <2>2. QED
    BY <1>1, <2>1 DEF WalkInv, HandedDown
<1>5. Walked'
  <2>1. SUFFICES ASSUME phase \in {"finish", "done"}
                 PROVE  Walked'
    BY DEF Walked
  <2>2. PICK V \in SUBSET (1..Len(objects)) : Visited(V)
    BY <2>1 DEF WalkInv, Walked
  <2>3. Visited(V)'
    BY <1>1, <2>2 DEF Visited
  <2>4. QED
    BY <2>3 DEF Walked
<1>6. QED
  BY <1>2, <1>3, <1>4, <1>5 DEF WalkInv

LEMMA StepKeepsWalk ==
  ASSUME TypeInv, TreeInv, WalkInv, [FinishNext]_vars
  PROVE  WalkInv'
<1>1. CASE UNCHANGED vars
  BY <1>1, WalkUnchanged DEF vars, factoryVars, finishVars, model, appearanceManager
<1>2. CASE (Parse \/ EndDocument \/ closeFactory) /\ UNCHANGED finishVars
  <2>1. phase \notin {"finish", "done"} /\ phase' \notin {"finish", "done"}
    BY <1>2, ParseWhileParsing DEF EndDocument, closeFactory, FinishPolygons, FinishGeometries,
       AssignAppearances
  <2>2. UNCHANGED <<calls, finished>>
    BY <1>2 DEF finishVars
  <2>3. calls' = <<>> /\ finished' = {} /\ Len(calls') = 0
    BY <2>1, <2>2 DEF WalkInv, WalkBegins
  <2>4. QED
    BY <2>1, <2>3 DEF WalkInv, WalkBegins, CallsOK, CalledOnce, ParentFinished, HandedDown, Walked
<1>3. CASE \E tesselator \in BOOLEAN : StartFinish(tesselator)
  BY <1>3, StartFinishWalk
<1>4. CASE FinishCityObject \/ FinishImplicitGeometry \/ FinishGeometry \/ FinishPolygon
  BY <1>4, FinishStepWalk
<1>5. CASE EndFinish
  BY <1>5, WalkUnchanged DEF EndFinish, model, appearanceManager
<1>6. QED
  BY <1>1, <1>2, <1>3, <1>4, <1>5 DEF FinishNext

(* When no call is left, the walk has reached every geometry: the oldest   *)
(* object it has missed would be part of an older one.                     *)
LEMMA AllFinished ==
  ASSUME TypeInv, TreeInv, WalkInv, phase = "done"
  PROVE  \A g \in Of("geometry") : g \in finished
<1>1. PICK V \in SUBSET (1..Len(objects)) : Visited(V)
  BY DEF WalkInv, Walked
<1>2. calls = <<>> /\ Len(calls) = 0 /\ path = <<>> /\ ToSet(path) = {} /\ Len(objects) \in Nat
  BY TopAround DEF WalkInv, WalkBegins, TreeInv, PathOrdered, ToSet, TypeInv, BuildInv
<1> DEFINE Missed == {o \in 1..Len(objects) : objects[o].kind # "polygon" /\ o \notin V}
<1>3. Missed = {}
  <2>1. SUFFICES ASSUME Missed # {} PROVE FALSE
    OBVIOUS
  <2>2. PICK o \in Missed : \A p \in Missed : o <= p
    <3>1. Missed \in SUBSET Nat
      BY <1>2
    <3> HIDE DEF Missed
    <3>2. QED
      BY <2>1, <3>1, LeastNumber
  <2>3. PICK h \in 0..Len(objects) : h < o /\ PartOf(o, h)
    BY <1>2, <2>2 DEF TreeInv, InTree
  <2>4. h \in V \cup {0}
    <3>1. CASE h = 0
      BY <3>1
    <3>2. CASE h # 0
      <4>1. h \in 1..Len(objects) /\ objects[h].kind # "polygon"
        BY <1>2, <2>3, <3>2 DEF PartOf, KindOf
      <4>2. h \notin Missed
        BY <1>2, <2>2, <2>3
      <4>3. QED
        BY <4>1, <4>2
    <3>3. QED
      BY <3>1, <3>2
  <2>5. o \in V \/ \E i \in 1..Len(calls) : calls[i].obj = o
    BY <1>1, <2>2, <2>3, <2>4 DEF Visited
  <2>6. QED
    BY <1>2, <2>2, <2>5
<1>4. \A g \in Of("geometry") : g \in V
  BY <1>3 DEF Of
<1>5. QED
  BY <1>1, <1>4 DEF Visited

(* "broadcasting its appearances to all child polygons" (geometry.h): in a *)
(* finished model every geometry is finished, and its child geometries and *)
(* polygons have a definition in every slot in which it has one, also      *)
(* those that several geometries share by xlinks.                          *)
THEOREM EveryoneInherits == Spec => []AppearancesInherited
<1>1. FinishInit => WalkInv
  <2> SUFFICES ASSUME FinishInit PROVE WalkInv
    OBVIOUS
  <2>1. WalkBegins /\ phase \notin {"finish", "done"}
    BY DEF FinishInit, Init, WalkBegins
  <2>2. QED
    BY <2>1, NotYetWalking
<1>2. TypeInv /\ TreeInv /\ WalkInv => AppearancesInherited
  <2> SUFFICES ASSUME TypeInv, TreeInv, WalkInv, phase = "done",
                      NEW g \in Of("geometry")
               PROVE  /\ g \in finished
                      /\ \A part \in ToSet(geometries[g]) \cup ToSet(polygons[g]) :
                           /\ part \in finished
                           /\ \A s \in Appearances!Slot : slots[g][s] # 0 => slots[part][s] # 0
    BY DEF AppearancesInherited
  <2>1. g \in finished
    BY AllFinished
  <2>2. calls = <<>> /\ Len(calls) = 0
    BY DEF WalkInv, WalkBegins
  <2>3. \A part \in ToSet(geometries[g]) \cup ToSet(polygons[g]) :
          part \in finished /\ Handed(g, part)
    BY <2>1, <2>2 DEF WalkInv, HandedDown, Called
  <2>4. QED
    BY <2>1, <2>3 DEF Handed
<1>3. TypeInv /\ TreeInv /\ WalkInv /\ [FinishNext]_vars => TypeInv' /\ TreeInv' /\ WalkInv'
  BY StepKeepsTypes, StepKeepsTree, StepKeepsWalk
<1>4. QED
  BY <1>1, <1>2, <1>3, TypesBegin, TreeBegins, PTL DEF Spec

-----------------------------------------------------------------------------
(* Texture coordinates.                                                    *)

(* What holds of a polygon p that is part of g only: it is called once, by *)
(* g, before it is finished, so it is finished with all that g has, and    *)
(* nothing reaches it later.                                               *)
SoleCalls(p, g) ==
  /\ \A i \in 1..Len(calls) : calls[i].obj = p => p \notin finished /\ g \in finished
  /\ \A i, j \in 1..Len(calls) : calls[i].obj = p /\ calls[j].obj = p => i = j
SoleFinished(p, g) == p \in finished => g \in finished /\ HasTexCoords(p)
TexOK(p, g) == SoleCalls(p, g) /\ SoleFinished(p, g)
TexInv == \A p \in Of("polygon"), g \in Of("geometry") : Sole(p, g) => TexOK(p, g)

LEMMA SolesKept ==
  ASSUME UNCHANGED <<objects, polygons>>
  PROVE  /\ \A k : Of(k)' = Of(k)
         /\ \A p, g : Sole(p, g)' <=> Sole(p, g)
<1>1. \A k : Of(k)' = Of(k)
  BY DEF Of
<1>2. Of("geometry")' = Of("geometry") /\ polygons' = polygons
  BY <1>1
<1>3. ASSUME NEW p, NEW g
      PROVE  Sole(p, g)' <=> Sole(p, g)
  BY <1>2 DEF Sole
<1>4. QED
  BY <1>1, <1>3

LEMMA SlotsElsewhere ==
  ASSUME NEW c, slots' = Inherited(c)
  PROVE  \A o : o # c.obj => slots'[o] = slots[o]
  BY DEF Inherited

(* A step in which p is neither called nor finished.                       *)
LEMMA OthersKept ==
  ASSUME NEW p, NEW g, TexOK(p, g), NEW S, calls \in Seq(S), calls # <<>>,
         NEW new \in Seq(S), calls' = new \o Tail(calls),
         \A i \in 1..Len(new) : new[i].obj # p,
         slots'[p] = slots[p], texCoords'[p] = texCoords[p],
         p \in finished' => p \in finished, finished \subseteq finished'
  PROVE  TexOK(p, g)'
<1>1. /\ Len(new) \in Nat /\ Len(calls) \in Nat
      /\ \A j \in 1..Len(calls') :
           \/ j \in 1..Len(new) /\ calls'[j] = new[j]
           \/ j - Len(new) + 1 \in 2..Len(calls) /\ calls'[j] = calls[j - Len(new) + 1]
  BY CallsAfter
<1>2. ASSUME NEW j \in 1..Len(calls'), calls'[j].obj = p
      PROVE  \E k \in 1..Len(calls) : k = j - Len(new) + 1 /\ calls[k].obj = p
  <2>1. j - Len(new) + 1 \in 2..Len(calls) /\ calls'[j] = calls[j - Len(new) + 1]
    BY <1>1, <1>2
  <2>2. \A n \in 2..Len(calls) : n \in 1..Len(calls)
    BY <1>1
  <2>3. QED
    BY <1>2, <2>1, <2>2
<1>3. SoleCalls(p, g)'
  <2>1. ASSUME NEW i \in 1..Len(calls'), calls'[i].obj = p
        PROVE  p \notin finished' /\ g \in finished'
    BY <1>2, <2>1 DEF TexOK, SoleCalls
  <2>2. ASSUME NEW i \in 1..Len(calls'), NEW j \in 1..Len(calls'),
               calls'[i].obj = p, calls'[j].obj = p
        PROVE  i = j
    <3>1. PICK k \in 1..Len(calls) : k = i - Len(new) + 1 /\ calls[k].obj = p
      BY <1>2, <2>2
    <3>2. PICK m \in 1..Len(calls) : m = j - Len(new) + 1 /\ calls[m].obj = p
      BY <1>2, <2>2
    <3>3. k = m
      BY <3>1, <3>2 DEF TexOK, SoleCalls
    <3>4. i \in Int /\ j \in Int
      OBVIOUS
    <3>5. QED
      BY <1>1, <3>1, <3>2, <3>3, <3>4
  <2>3. QED
    BY <2>1, <2>2 DEF SoleCalls
<1>4. SoleFinished(p, g)'
  BY DEF TexOK, SoleFinished, HasTexCoords, TextureSlot, Appearances!Slot
<1>5. QED
  BY <1>3, <1>4 DEF TexOK

LEMMA NoPolygonsCalled ==
  ASSUME Len(objects) \in Nat, NEW objs \in Seq(1..Len(objects)),
         ToSet(objs) \cap Of("polygon") = {}, NEW new, new = Calls(objs, 0)
  PROVE  new \in Seq(CallType) /\ \A i \in 1..Len(new) : new[i].obj \notin Of("polygon")
<1>1. 0 \in 0..Len(objects)
  OBVIOUS
<1>2. new \in Seq(CallType)
  BY <1>1, CallsTyped DEF CallType
<1>3. /\ Len(new) = Len(objs)
      /\ \A i \in 1..Len(objs) : new[i].obj = objs[i] /\ objs[i] \in ToSet(objs)
  BY CallsAre
<1>4. QED
  BY <1>2, <1>3

(* An object without polygons is visited.                                  *)
LEMMA VisitTex ==
  ASSUME TypeInv, TexInv, NEW kind, NextCall(kind),
         NEW objs \in Seq(1..Len(objects)), calls' = Calls(objs, 0) \o Tail(calls),
         ToSet(objs) \cap Of("polygon") = {},
         UNCHANGED <<finished, slots, texCoords>>
  PROVE  TexInv'
<1>1. Len(objects) \in Nat /\ calls \in Seq(CallType) /\ calls # <<>>
  BY TopAround DEF TypeInv, BuildInv, FinishTyped, CallType, NextCall
<1>2. /\ UNCHANGED <<objects, polygons>>
      /\ \A k : Of(k)' = Of(k)
      /\ \A p, g : Sole(p, g)' <=> Sole(p, g)
  <2>1. UNCHANGED <<objects, polygons>>
    BY DEF NextCall, model
  <2>2. QED
    BY <2>1, SolesKept
<1>3. PICK new : new = Calls(objs, 0)
  OBVIOUS
<1>4. /\ new \in Seq(CallType) /\ calls' = new \o Tail(calls)
      /\ \A i \in 1..Len(new) : new[i].obj \notin Of("polygon")
  BY <1>1, <1>3, NoPolygonsCalled
<1>5. ASSUME NEW p \in Of("polygon"), NEW g \in Of("geometry"), Sole(p, g)
      PROVE  TexOK(p, g)'
  <2>1. TexOK(p, g)
    BY <1>5 DEF TexInv
  <2>2. \A i \in 1..Len(new) : new[i].obj # p
    BY <1>4
  <2>3. QED
    BY <1>1, <1>4, <2>1, <2>2, OthersKept
<1>6. QED
  BY <1>2, <1>5 DEF TexInv

LEMMA FinishCityObjectTex ==
  ASSUME TypeInv, TexInv, FinishCityObject \/ FinishImplicitGeometry
  PROVE  TexInv'
<1>1. PICK c : c = Head(calls)
  OBVIOUS
<1>2. FinishTyped /\ PartsTyped /\ Len(objects) \in Nat /\ Len(objects) <= MaxObjects
  BY TopAround DEF TypeInv, BuildInv, PartsOK
<1>3. \A k : Of(k) \subseteq 1..Len(objects) /\ Of(k) \subseteq 0..MaxObjects
  BY <1>2, FactoryAssumption DEF Of
<1>4. ASSUME NEW h \in 0..MaxObjects
      PROVE  /\ geometries[h] \in Seq(1..Len(objects)) /\ implicits[h] \in Seq(1..Len(objects))
             /\ children[h] \in Seq(1..Len(objects))
             /\ ToSet(geometries[h]) \cap Of("polygon") = {}
             /\ ToSet(implicits[h]) \cap Of("polygon") = {}
             /\ ToSet(children[h]) \cap Of("polygon") = {}
  <2>1. /\ geometries[h] \in Seq(Of("geometry")) /\ implicits[h] \in Seq(Of("implicit"))
        /\ children[h] \in Seq(Of("cityobject"))
    BY <1>2 DEF PartsTyped
  <2>2. /\ ToSet(geometries[h]) \subseteq Of("geometry")
        /\ ToSet(implicits[h]) \subseteq Of("implicit")
        /\ ToSet(children[h]) \subseteq Of("cityobject")
    BY <1>2, ListsOfObjects
  <2>3. /\ Of("geometry") \cap Of("polygon") = {} /\ Of("implicit") \cap Of("polygon") = {}
        /\ Of("cityobject") \cap Of("polygon") = {}
    BY DEF Of
  <2>4. QED
    BY <1>3, <2>1, <2>2, <2>3, SeqMonotone
<1>5. CASE FinishCityObject
  <2>1. PICK objs : objs = geometries[c.obj] \o implicits[c.obj] \o children[c.obj]
    OBVIOUS
  <2>2. /\ NextCall("cityobject") /\ calls' = Calls(objs, 0) \o Tail(calls)
        /\ UNCHANGED <<finished, slots, texCoords>>
    BY <1>1, <1>5, <2>1 DEF FinishCityObject
  <2>3. c.obj \in 0..MaxObjects
    BY <1>1, <1>2, <1>3, <2>2, NextCallTyped
  <2> DEFINE S == 1..Len(objects)
  <2>4. /\ objs \in Seq(S)
        /\ ToSet(objs) = ToSet(geometries[c.obj]) \cup ToSet(implicits[c.obj]) \cup ToSet(children[c.obj])
    <3>1. /\ geometries[c.obj] \in Seq(S) /\ implicits[c.obj] \in Seq(S)
          /\ children[c.obj] \in Seq(S)
      BY <1>4, <2>3
    <3> HIDE DEF S
    <3>2. QED
      BY <2>1, <3>1, ConcatSet3
  <2>5. ToSet(objs) \cap Of("polygon") = {}
    BY <1>4, <2>3, <2>4
  <2>6. QED
    BY <2>2, <2>4, <2>5, VisitTex
<1>6. CASE FinishImplicitGeometry
  <2>1. /\ NextCall("implicit") /\ calls' = Calls(geometries[c.obj], 0) \o Tail(calls)
        /\ UNCHANGED <<finished, slots, texCoords>>
    BY <1>1, <1>6 DEF FinishImplicitGeometry
  <2>2. c.obj \in 0..MaxObjects
    BY <1>1, <1>2, <1>3, <2>1, NextCallTyped
  <2>3. QED
    BY <1>4, <2>1, <2>2, VisitTex
<1>7. QED
  BY <1>5, <1>6

LEMMA ListDomains ==
  ASSUME PartsTyped, Len(objects) \in Nat, Len(objects) <= MaxObjects, MaxObjects \in Nat,
         NEW g \in Of("geometry")
  PROVE  Len(polygons[g]) \in Nat /\ DOMAIN polygons[g] = 1..Len(polygons[g])
<1>1. g \in 0..MaxObjects
  BY DEF Of
<1>2. QED
  BY <1>1, LenProperties DEF PartsTyped

(* A geometry is finished: it calls its polygons, each of its own once.    *)
LEMMA FinishGeometryTex ==
  ASSUME TypeInv, TexInv, FinishGeometry
  PROVE  TexInv'
<1>1. PICK c : c = Head(calls)
  OBVIOUS
<1>2. /\ FinishTyped /\ PartsTyped /\ calls \in Seq(CallType)
      /\ Len(objects) \in Nat /\ Len(objects) <= MaxObjects /\ MaxObjects \in Nat
  BY TopAround, FactoryAssumption DEF TypeInv, BuildInv, PartsOK, FinishTyped, CallType
<1>3. /\ NextCall("geometry") /\ calls # <<>>
      /\ UNCHANGED <<objects, polygons, texCoords>>
      /\ slots' = Inherited(c) /\ finished' = finished \cup {c.obj}
  BY <1>1 DEF FinishGeometry, NextCall, model
<1>4. /\ \A k : Of(k)' = Of(k)
      /\ \A p, g : Sole(p, g)' <=> Sole(p, g)
  BY <1>3, SolesKept
<1>5. c.obj \in Of("geometry") /\ c.obj \notin Of("polygon") /\ Tail(calls) \in Seq(CallType)
  BY <1>1, <1>2, <1>3, NextCallTyped DEF Of
<1>6. ASSUME NEW p \in Of("polygon")
      PROVE  /\ slots'[p] = slots[p] /\ texCoords'[p] = texCoords[p]
             /\ p \in finished' => p \in finished
  BY <1>3, <1>5, SlotsElsewhere
<1>7. finished \subseteq finished' /\ c.obj \in finished'
  BY <1>3
<1>8. ASSUME NEW p \in Of("polygon"), NEW g \in Of("geometry"), Sole(p, g),
             NEW new \in Seq(CallType), calls' = new \o Tail(calls),
             \A i \in 1..Len(new) : new[i].obj # p
      PROVE  TexOK(p, g)'
  <2>1. TexOK(p, g)
    BY <1>8 DEF TexInv
  <2>2. QED
    BY <1>2, <1>3, <1>6, <1>7, <1>8, <2>1, OthersKept
<1>9. CASE c.obj \in finished
  <2>1. calls' = <<>> \o Tail(calls)
    BY <1>1, <1>9 DEF FinishGeometry
  <2>2. PICK new : new = <<>>
    OBVIOUS
  <2>3. new \in Seq(CallType) /\ Len(new) = 0 /\ calls' = new \o Tail(calls)
    BY <2>1, <2>2, EmptySeq
  <2>4. ASSUME NEW p \in Of("polygon"), NEW g \in Of("geometry"), Sole(p, g)
        PROVE  TexOK(p, g)'
    <3>1. \A i \in 1..Len(new) : new[i].obj # p
      BY <2>3
    <3>2. QED
      BY <1>8, <2>3, <2>4, <3>1
  <2>5. QED
    BY <1>4, <2>4 DEF TexInv
<1>10. CASE c.obj \notin finished
  <2>1. PICK new : new = Calls(geometries[c.obj], c.obj) \o Calls(polygons[c.obj], c.obj)
    OBVIOUS
  <2>2. calls' = new \o Tail(calls)
    BY <1>1, <1>10, <2>1, Zenon DEF FinishGeometry
  <2>3. PICK n \in Nat : \E m \in Nat :
          CallsMade(c.obj, new, n, m) /\ n = Len(geometries[c.obj]) /\ m = Len(polygons[c.obj])
    BY <1>2, <1>5, <2>1, GeometryCalls
  <2>4. PICK m \in Nat :
          CallsMade(c.obj, new, n, m) /\ n = Len(geometries[c.obj]) /\ m = Len(polygons[c.obj])
    BY <2>3
  <2>5. new \in Seq(CallType) /\ DOMAIN polygons[c.obj] = 1..m
    BY <1>2, <1>5, <2>4, ListDomains DEF CallsMade
  <2>6. ASSUME NEW i \in 1..Len(new), new[i].obj \in Of("polygon")
        PROVE  i - n \in DOMAIN polygons[c.obj] /\ polygons[c.obj][i - n] = new[i].obj
    <3>1. ASSUME i \in 1..n PROVE FALSE
      <4>1. new[i].obj = geometries[c.obj][i] /\ i \in 1..Len(geometries[c.obj])
        BY <2>4, <3>1 DEF CallsMade
      <4>2. c.obj \in 0..MaxObjects
        BY <1>2, <1>5 DEF Of
      <4>3. geometries[c.obj][i] \in Of("geometry")
        BY <1>2, <4>1, <4>2, ElementOfSeq DEF PartsTyped
      <4>4. QED
        BY <2>6, <4>1, <4>3 DEF Of
    <3>2. QED
      BY <2>4, <2>5, <2>6, <3>1 DEF CallsMade
  <2>7. ASSUME NEW p \in Of("polygon"), NEW g \in Of("geometry"), Sole(p, g)
        PROVE  TexOK(p, g)'
    <3>1. CASE \A i \in 1..Len(new) : new[i].obj # p
      BY <1>8, <2>2, <2>5, <2>7, <3>1
    <3>2. ASSUME NEW i \in 1..Len(new), new[i].obj = p
          PROVE  TexOK(p, g)'
      <4>1. PICK only \in DOMAIN polygons[g] :
              \A h \in Of("geometry") : \A j \in DOMAIN polygons[h] :
                polygons[h][j] = p => h = g /\ j = only
        BY <2>7 DEF Sole
      <4>2. \A k \in 1..Len(new) : new[k].obj = p => c.obj = g /\ k - n = only
        BY <1>5, <2>6, <4>1
      <4>3. c.obj = g
        BY <3>2, <4>2
      <4>4. TexOK(p, g) /\ g \notin finished
        BY <1>10, <2>7, <4>3 DEF TexInv
      <4>5. p \notin finished /\ \A k \in 1..Len(calls) : calls[k].obj # p
        BY <4>4 DEF TexOK, SoleCalls, SoleFinished
      <4>6. p \notin finished' /\ g \in finished'
        BY <1>6, <1>7, <4>3, <4>5
      <4>7. /\ Len(new) \in Nat /\ Len(calls) \in Nat
            /\ \A j \in 1..Len(calls') :
                 \/ j \in 1..Len(new) /\ calls'[j] = new[j]
                 \/ j - Len(new) + 1 \in 2..Len(calls) /\ calls'[j] = calls[j - Len(new) + 1]
        BY <1>2, <1>3, <2>2, <2>5, CallsAfter
      <4>8. ASSUME NEW j \in 1..Len(calls'), calls'[j].obj = p
            PROVE  j - n = only
        <5>1. \A k \in 2..Len(calls) : k \in 1..Len(calls)
          BY <4>7
        <5>2. ~(j - Len(new) + 1 \in 2..Len(calls) /\ calls'[j] = calls[j - Len(new) + 1])
          BY <4>5, <4>8, <5>1
        <5>3. j \in 1..Len(new) /\ calls'[j] = new[j]
          BY <4>7, <5>2
        <5>4. QED
          BY <4>2, <4>8, <5>3
      <4>9. \A j, k \in 1..Len(calls') : calls'[j].obj = p /\ calls'[k].obj = p => j = k
        <5>1. SUFFICES ASSUME NEW j \in 1..Len(calls'), NEW k \in 1..Len(calls'),
                              calls'[j].obj = p, calls'[k].obj = p
                       PROVE  j = k
          OBVIOUS
        <5>2. j - n = only /\ k - n = only
          BY <4>8, <5>1
        <5>3. j \in Int /\ k \in Int
          OBVIOUS
        <5>4. QED
          BY <5>2, <5>3
      <4>10. SoleCalls(p, g)'
        BY <4>6, <4>9 DEF SoleCalls
      <4>11. SoleFinished(p, g)'
        BY <4>6 DEF SoleFinished
      <4>12. QED
        BY <4>10, <4>11 DEF TexOK
    <3>3. QED
      BY <3>1, <3>2
  <2>8. QED
    BY <1>4, <2>7 DEF TexInv
<1>11. QED
  BY <1>9, <1>10

(* A polygon is finished: with texture coordinates for what it has now,    *)
(* and no call of it is left.                                              *)
LEMMA FinishPolygonTex ==
  ASSUME TypeInv, TexInv, FinishPolygon
  PROVE  TexInv'
<1>1. PICK c : c = Head(calls)
  OBVIOUS
<1>2. FinishTyped /\ calls \in Seq(CallType) /\ Len(objects) \in Nat /\ Len(objects) <= MaxObjects
  BY TopAround, FactoryAssumption DEF TypeInv, BuildInv, PartsOK, FinishTyped, CallType
<1>3. /\ NextCall("polygon") /\ calls # <<>> /\ calls' = Tail(calls)
      /\ UNCHANGED <<objects, polygons>>
      /\ slots' = Inherited(c) /\ finished' = finished \cup {c.obj}
      /\ texCoords' = IF c.obj \in finished THEN texCoords
                      ELSE [texCoords EXCEPT ![c.obj] = {s \in TextureSlot : slots'[c.obj][s] # 0}]
  BY <1>1 DEF FinishPolygon, NextCall, model
<1>4. /\ \A k : Of(k)' = Of(k)
      /\ \A p, g : Sole(p, g)' <=> Sole(p, g)
  BY <1>3, SolesKept
<1>5. c.obj \in Of("polygon") /\ c.obj \in Object /\ Tail(calls) \in Seq(CallType)
  <2>1. c.obj \in Of("polygon") /\ Tail(calls) \in Seq(CallType)
    BY <1>1, <1>2, <1>3, NextCallTyped
  <2>2. QED
    BY <1>2, <2>1, FactoryAssumption DEF Of, Object
<1>6. PICK new : new = <<>>
  OBVIOUS
<1>7. new \in Seq(CallType) /\ Len(new) = 0 /\ calls' = new \o Tail(calls)
  <2>1. <<>> \o Tail(calls) = Tail(calls)
    BY <1>5, ConcatEmptySeq
  <2>2. QED
    BY <1>3, <1>6, <2>1, EmptySeq
<1>8. ASSUME NEW p \in Of("polygon"), NEW g \in Of("geometry"), Sole(p, g)
      PROVE  TexOK(p, g)'
  <2>1. TexOK(p, g)
    BY <1>8 DEF TexInv
  <2>2. CASE p # c.obj
    <3>1. slots'[p] = slots[p] /\ texCoords'[p] = texCoords[p]
      BY <1>2, <1>3, <2>2, SlotsElsewhere DEF FinishTyped
    <3>2. \A i \in 1..Len(new) : new[i].obj # p
      BY <1>7
    <3>3. (p \in finished' => p \in finished) /\ finished \subseteq finished'
      BY <1>3, <2>2
    <3>4. QED
      BY <1>2, <1>3, <1>7, <2>1, <3>1, <3>2, <3>3, OthersKept
  <2>3. CASE p = c.obj
    <3>1. /\ c = calls[1] /\ 1 \in 1..Len(calls)
          /\ Len(new) \in Nat /\ Len(calls) \in Nat
          /\ \A j \in 1..Len(calls') :
               \/ j \in 1..Len(new) /\ calls'[j] = new[j]
               \/ j - Len(new) + 1 \in 2..Len(calls) /\ calls'[j] = calls[j - Len(new) + 1]
      BY <1>1, <1>2, <1>3, <1>7, CallsAfter
    <3>2. p \notin finished /\ g \in finished'
      BY <1>3, <2>1, <2>3, <3>1 DEF TexOK, SoleCalls
    <3>3. ASSUME NEW j \in 1..Len(calls') PROVE calls'[j].obj # p
      <4>1. j + 1 \in 2..Len(calls) /\ calls'[j] = calls[j + 1]
        BY <1>7, <3>1
      <4>2. PICK k \in 1..Len(calls) : k = j + 1 /\ k # 1
        BY <3>1, <4>1
      <4>3. calls[k].obj # p
        BY <2>1, <2>3, <3>1, <4>2 DEF TexOK, SoleCalls
      <4>4. QED
        BY <4>1, <4>2, <4>3
    <3>4. texCoords'[p] = {s \in TextureSlot : slots'[p][s] # 0}
      BY <1>2, <1>3, <1>5, <2>3, <3>2 DEF FinishTyped
    <3>5. HasTexCoords(p)'
      <4>1. \A s \in TextureSlot : slots'[p][s] # 0 => s \in texCoords'[p]
        BY <3>4
      <4>2. QED
        BY <4>1 DEF HasTexCoords, TextureSlot, Appearances!Slot
    <3>6. SoleCalls(p, g)'
      BY <3>3 DEF SoleCalls
    <3>7. QED
      BY <3>2, <3>5, <3>6 DEF TexOK, SoleFinished
  <2>4. QED
    BY <2>2, <2>3
<1>9. QED
  BY <1>4, <1>8 DEF TexInv

(* Before the walk nothing is called or finished.                          *)
LEMMA NoTexYet ==
  ASSUME calls = <<>>, finished = {}
  PROVE  TexInv
<1>1. Len(calls) = 0
  OBVIOUS
<1>2. QED
  BY <1>1 DEF TexInv, TexOK, SoleCalls, SoleFinished

LEMMA StartFinishTex ==
  ASSUME TypeInv, WalkInv, NEW tesselator \in BOOLEAN, StartFinish(tesselator)
  PROVE  TexInv'
<1>1. UNCHANGED objects /\ calls = <<>> /\ finished' = {} /\ \A k : Of(k)' = Of(k)
  BY DEF StartFinish, WalkInv, WalkBegins, Of
<1>2. ASSUME NEW i \in 1..Len(calls') PROVE calls'[i].obj \notin Of("polygon")
  <2>1. CASE ~tesselator
    <3>1. Len(calls') = 0
      BY <1>1, <2>1 DEF StartFinish
    <3>2. QED
      BY <1>2, <3>1
  <2>2. CASE tesselator
    <3>1. calls' = Calls(children[0], 0)
      BY <2>2 DEF StartFinish
    <3>2. children[0] \in Seq(Of("cityobject"))
      BY FactoryAssumption DEF TypeInv, PartsTyped
    <3>3. calls'[i].obj \in Of("cityobject")
      BY <1>2, <3>1, <3>2, CallsAre
    <3>4. QED
      BY <3>3 DEF Of
  <2>3. QED
    BY <2>1, <2>2
<1>3. QED
  BY <1>1, <1>2 DEF TexInv, TexOK, SoleCalls, SoleFinished

LEMMA StepKeepsTex ==
  ASSUME TypeInv, WalkInv, TexInv, [FinishNext]_vars
  PROVE  TexInv'
<1>1. CASE UNCHANGED <<objects, polygons, calls, finished, slots, texCoords>>
  <2>1. \A k : Of(k)' = Of(k)
    BY <1>1, SolesKept
  <2>2. \A p, g : Sole(p, g)' <=> Sole(p, g)
    BY <1>1, SolesKept
  <2>3. \A p, g : TexOK(p, g)' = TexOK(p, g)
    BY <1>1 DEF TexOK, SoleCalls, SoleFinished, HasTexCoords, TextureSlot, Appearances!Slot
  <2>4. QED
    BY <2>1, <2>2, <2>3 DEF TexInv
<1>2. CASE (Parse \/ EndDocument \/ closeFactory) /\ UNCHANGED finishVars
  <2>1. calls = <<>> /\ finished = {}
    BY <1>2, ParseWhileParsing DEF EndDocument, closeFactory, FinishPolygons, FinishGeometries,
       AssignAppearances, WalkInv, WalkBegins
  <2>2. Len(calls') = 0 /\ finished' = {}
    BY <1>2, <2>1 DEF finishVars
  <2>3. QED
    BY <2>2 DEF TexInv, TexOK, SoleCalls, SoleFinished
<1>3. CASE \E tesselator \in BOOLEAN : StartFinish(tesselator)
  BY <1>3, StartFinishTex
<1>4. CASE FinishCityObject \/ FinishImplicitGeometry
  BY <1>4, FinishCityObjectTex
<1>5. CASE FinishGeometry
  BY <1>5, FinishGeometryTex
<1>6. CASE FinishPolygon
  BY <1>6, FinishPolygonTex
<1>7. CASE EndFinish
  BY <1>1, <1>7 DEF EndFinish, model, appearanceManager
<1>8. CASE UNCHANGED vars
  BY <1>1, <1>8 DEF vars, factoryVars, finishVars, model, appearanceManager
<1>9. QED
  BY <1>2, <1>3, <1>4, <1>5, <1>6, <1>7, <1>8 DEF FinishNext

(* In a finished model a polygon that is part of one geometry only has     *)
(* texture coordinates for every theme and side it has a texture for, its  *)
(* own and the inherited ones: Polygon::finish runs after everything has   *)
(* been handed down to it.                                                 *)
THEOREM TexCoordsForAll == Spec => []UnsharedHaveTexCoords
<1>1. FinishInit => TexInv /\ WalkInv
  <2> SUFFICES ASSUME FinishInit PROVE TexInv /\ WalkInv
    OBVIOUS
  <2>1. /\ WalkBegins /\ phase \notin {"finish", "done"}
        /\ calls = <<>> /\ finished = {}
    BY DEF FinishInit, Init, WalkBegins
  <2>2. QED
    BY <2>1, NoTexYet, NotYetWalking
<1>2. TypeInv /\ TreeInv /\ WalkInv /\ TexInv => UnsharedHaveTexCoords
  <2> SUFFICES ASSUME TypeInv, TreeInv, WalkInv, TexInv, phase = "done",
                      NEW p \in Of("polygon"), HeldOnce(p)
               PROVE  HasTexCoords(p)
    BY DEF UnsharedHaveTexCoords
  <2>1. PICK g \in Of("geometry") : Sole(p, g)
    BY DEF HeldOnce
  <2>2. g \in finished
    BY AllFinished
  <2>3. calls = <<>> /\ Len(calls) = 0
    BY DEF WalkInv, WalkBegins
  <2>4. p \in ToSet(polygons[g])
    BY <2>1 DEF Sole, ToSet
  <2>5. p \in finished
    BY <2>2, <2>3, <2>4 DEF WalkInv, HandedDown, Called
  <2>6. QED
    BY <2>1, <2>5 DEF TexInv, TexOK, SoleFinished
<1>3. TypeInv /\ TreeInv /\ WalkInv /\ TexInv /\ [FinishNext]_vars
      => TypeInv' /\ TreeInv' /\ WalkInv' /\ TexInv'
  BY StepKeepsTypes, StepKeepsTree, StepKeepsWalk, StepKeepsTex
<1>4. QED
  BY TypesBegin, TreeBegins, <1>1, <1>2, <1>3, PTL DEF Spec

-----------------------------------------------------------------------------
(* The polygons and geometries of an object: those defined in it and those *)
(* it refers to, in the order of the document.                             *)

(* The numbers up to n that are in a set, in order.                        *)
InOrder(S, n) == FlattenSeq([o \in 1..n |-> IF o \in S THEN <<o>> ELSE <<>>])

(* What a request gives to h, and what several of them do, when f has the  *)
(* object of every id.                                                     *)
Request == [target : Nat, id : Id]
GivesOne(r, h, f) == IF r.target = h /\ f[r.id] # 0 THEN <<f[r.id]>> ELSE <<>>
Gives(q, h, f)    ==
  FlattenSeq([i \in 1..Len(q) |->
                IF q[i].target = h /\ f[q[i].id] # 0 THEN <<f[q[i].id]>> ELSE <<>>])

LEMMA InOrderNext ==
  ASSUME NEW S, NEW n \in Nat
  PROVE  /\ InOrder(S, n) \in Seq(Nat)
         /\ InOrder(S, n + 1) = InOrder(S, n) \o (IF n + 1 \in S THEN <<n + 1>> ELSE <<>>)
<1> DEFINE f == [o \in 1..(n + 1) |-> IF o \in S THEN <<o>> ELSE <<>>]
           g == [o \in 1..n |-> IF o \in S THEN <<o>> ELSE <<>>]
           Q == Seq(Nat)
<1>1. f \in [1..(n + 1) -> Q]
  <2>1. \A o \in 1..(n + 1) : o \in Nat
    OBVIOUS
  <2>2. \A o \in Nat : <<o>> \in Q /\ <<>> \in Q
    OBVIOUS
  <2> HIDE DEF Q
  <2>3. QED
    BY <2>1, <2>2
<1>2. g = [o \in 1..n |-> f[o]] /\ f[n + 1] = IF n + 1 \in S THEN <<n + 1>> ELSE <<>>
  <2>1. \A o \in 1..n : o \in 1..(n + 1)
    OBVIOUS
  <2>2. n + 1 \in 1..(n + 1)
    OBVIOUS
  <2>3. QED
    BY <2>1, <2>2
<1>3. f[n + 1] \in Q
  BY <1>1
<1> HIDE DEF f, g, Q
<1>4. g \in Seq(Q) /\ f = Append(g, f[n + 1])
  BY <1>1, <1>2, FunctionAppend
<1>5. FlattenSeq(g) \in Q /\ FlattenSeq(Append(g, f[n + 1])) = FlattenSeq(g) \o f[n + 1]
  BY <1>3, <1>4, FlattenAppend DEF Q
<1>6. InOrder(S, n) = FlattenSeq(g) /\ InOrder(S, n + 1) = FlattenSeq(f)
  BY DEF InOrder, f, g
<1>7. QED
  BY <1>2, <1>4, <1>5, <1>6 DEF Q

(* An ordered sequence of numbers up to n + 1.                             *)
LEMMA OrderedEnds ==
  ASSUME NEW n \in Nat, NEW s \in Seq(1..(n + 1)), Ordered(s)
  PROVE  \/ n + 1 \notin ToSet(s) /\ s \in Seq(1..n)
         \/ \E t \in Seq(1..n) : /\ Ordered(t) /\ s = t \o <<n + 1>>
                                 /\ \A o \in 1..n : o \in ToSet(t) <=> o \in ToSet(s)
                                 /\ n + 1 \in ToSet(s)
<1>1. /\ Len(s) \in Nat /\ DOMAIN s = 1..Len(s) /\ s \in [1..Len(s) -> 1..(n + 1)]
      /\ \A j \in 1..Len(s) : s[j] \in 1..(n + 1)
  BY LenProperties, ElementOfSeq
<1>2. CASE n + 1 \notin ToSet(s)
  <2>1. \A j \in 1..Len(s) : s[j] \in 1..n
    <3>1. TAKE j \in 1..Len(s)
    <3>2. s[j] \in ToSet(s)
      BY <1>1 DEF ToSet
    <3>3. QED
      BY <1>1, <1>2, <3>2
  <2>2. s \in [1..Len(s) -> 1..n]
    BY <1>1, <2>1
  <2>3. s \in Seq(1..n)
    <3> DEFINE S == 1..n
    <3> HIDE DEF S
    <3>1. Len(s) \in Nat /\ s \in [1..Len(s) -> S]
      BY <1>1, <2>2 DEF S
    <3>2. s \in Seq(S)
      BY <3>1, SeqDef
    <3>3. QED
      BY <3>2 DEF S
  <2>4. QED
    BY <1>2, <2>3
<1>3. CASE n + 1 \in ToSet(s)
  <2> DEFINE t == Front(s)
             m == Len(s) - 1
  <2>1. PICK k \in 1..Len(s) : s[k] = n + 1
    BY <1>1, <1>3 DEF ToSet
  <2>2. k = Len(s)
    <3>0. \A i \in Nat : \A j \in 1..i : j < i \/ j = i
      OBVIOUS
    <3>1. SUFFICES ASSUME k < Len(s) PROVE FALSE
      BY <1>1, <2>1, <3>0, Zenon
    <3>2. Len(s) \in 1..Len(s)
      BY <1>1, <2>1
    <3>3. s[k] < s[Len(s)]
      BY <3>1, <3>2, <2>1 DEF Ordered
    <3>4. QED
      BY <1>1, <2>1, <3>2, <3>3
  <2>3. s # <<>> /\ s[Len(s)] = n + 1
    BY <1>1, <2>1, <2>2, EmptySeq
  <2>4. /\ t \in Seq(1..(n + 1)) /\ Len(t) = m /\ m \in Nat
        /\ \A i \in 1..m : t[i] = s[i]
        /\ s = Append(t, n + 1)
    <3>1. /\ t \in Seq(1..(n + 1)) /\ Len(t) = m
          /\ \A i \in 1..m : t[i] = s[i]
          /\ Last(s) = n + 1
      BY <2>3, FrontLast
    <3>2. Append(t, Last(s)) = s
      BY <2>3, AppendFrontLast
    <3>3. m \in Nat
      BY <1>1, <2>1
    <3>4. QED
      BY <3>1, <3>2, <3>3
  <2>5. \A i \in 1..m : i \in 1..Len(s) /\ s[i] \in 1..n
    <3>1. TAKE i \in 1..m
    <3>2. i \in 1..Len(s) /\ Len(s) \in 1..Len(s) /\ i < Len(s)
      BY <1>1, <2>1
    <3>3. s[i] < s[Len(s)]
      BY <3>2 DEF Ordered
    <3>4. s[i] \in 1..(n + 1) /\ s[i] < n + 1
      BY <1>1, <2>3, <3>2, <3>3
    <3>5. QED
      BY <3>2, <3>4
  <2> HIDE DEF t, m
  <2>6. DOMAIN t = 1..m /\ t \in [1..m -> 1..(n + 1)]
    BY <2>4, LenProperties
  <2>7. t \in Seq(1..n)
    <3> DEFINE S == 1..n
    <3>1. t \in [1..m -> S]
      BY <2>4, <2>5, <2>6
    <3> HIDE DEF S
    <3>2. t \in Seq(S)
      BY <2>4, <3>1, SeqDef
    <3>3. QED
      BY <3>2 DEF S
  <2>8. Ordered(t)
    BY <2>4, <2>5 DEF Ordered
  <2>9. s = t \o <<n + 1>>
    <3>1. n + 1 \in 1..(n + 1)
      OBVIOUS
    <3>2. QED
      BY <2>4, <3>1, AppendIsConcat
  <2>10. ASSUME NEW o \in 1..n PROVE o \in ToSet(t) <=> o \in ToSet(s)
    <3>1. ASSUME o \in ToSet(t) PROVE o \in ToSet(s)
      BY <1>1, <2>4, <2>5, <2>6, <3>1 DEF ToSet
    <3>2. ASSUME o \in ToSet(s) PROVE o \in ToSet(t)
      <4>1. PICK j \in 1..Len(s) : o = s[j]
        BY <1>1, <3>2 DEF ToSet
      <4>2. j # Len(s)
        BY <2>3, <4>1
      <4>0. \A i \in Nat : \A k0 \in 1..i : k0 # i => k0 \in 1..(i - 1)
        OBVIOUS
      <4>3. j \in 1..m
        BY <1>1, <4>0, <4>1, <4>2, Zenon DEF m
      <4>4. QED
        BY <2>4, <2>6, <4>1, <4>3 DEF ToSet
    <3>3. QED
      BY <3>1, <3>2
  <2>11. QED
    BY <1>3, <2>7, <2>8, <2>9, <2>10
<1>4. QED
  BY <1>2, <1>3

(* There is one such sequence for a set.                                   *)
LEMMA OrderedIs ==
  ASSUME NEW n \in Nat
  PROVE  \A s \in Seq(1..n) : Ordered(s) => \A S : (\A o \in 1..n : o \in S <=> o \in ToSet(s))
                                              => InOrder(S, n) = s
<1> DEFINE P(k) == \A s \in Seq(1..k) : Ordered(s) =>
                      \A S : (\A o \in 1..k : o \in S <=> o \in ToSet(s)) => InOrder(S, k) = s
           T == {k \in Nat : P(k)}
<1>1. 0 \in T
  <2>1. SUFFICES ASSUME NEW s \in Seq(1..0), NEW S PROVE InOrder(S, 0) = s
    OBVIOUS
  <2>2. s = <<>>
    <3>1. Len(s) \in Nat /\ \A j \in 1..Len(s) : s[j] \in 1..0
      BY LenProperties, ElementOfSeq
    <3>2. Len(s) = 0
      <4>1. SUFFICES ASSUME Len(s) # 0 PROVE FALSE
        OBVIOUS
      <4>2. 1 \in 1..Len(s)
        BY <3>1, <4>1
      <4>3. s[1] \in 1..0
        BY <3>1, <4>2
      <4>4. QED
        BY <4>3
    <3>3. QED
      BY <3>2, EmptySeq
  <2>3. [o \in 1..0 |-> IF o \in S THEN <<o>> ELSE <<>>] = <<>>
    OBVIOUS
  <2>4. QED
    BY <2>2, <2>3, FlattenEmpty DEF InOrder
<1>2. ASSUME NEW k \in Nat, k \in T PROVE k + 1 \in T
  <2>1. SUFFICES ASSUME NEW s \in Seq(1..(k + 1)), Ordered(s), NEW S,
                        \A o \in 1..(k + 1) : o \in S <=> o \in ToSet(s)
                 PROVE  InOrder(S, k + 1) = s
    OBVIOUS
  <2>2. /\ InOrder(S, k) \in Seq(Nat)
        /\ InOrder(S, k + 1) = InOrder(S, k) \o (IF k + 1 \in S THEN <<k + 1>> ELSE <<>>)
    BY InOrderNext
  <2>3. k + 1 \in 1..(k + 1) /\ \A o \in 1..k : o \in 1..(k + 1)
    OBVIOUS
  <2>4. P(k)
    BY <1>2
  <2> HIDE DEF P, T
  <2>5. CASE k + 1 \notin ToSet(s) /\ s \in Seq(1..k)
    <3>1. InOrder(S, k) = s
      BY <2>1, <2>3, <2>4, <2>5 DEF P
    <3>2. InOrder(S, k + 1) = InOrder(S, k) \o <<>>
      BY <2>1, <2>2, <2>3, <2>5
    <3>3. QED
      BY <2>2, <3>1, <3>2, ConcatEmptySeq
  <2>6. ASSUME NEW t \in Seq(1..k), Ordered(t), s = t \o <<k + 1>>, k + 1 \in ToSet(s),
               \A o \in 1..k : o \in ToSet(t) <=> o \in ToSet(s)
        PROVE  InOrder(S, k + 1) = s
    <3>1. InOrder(S, k) = t
      BY <2>1, <2>3, <2>4, <2>6 DEF P
    <3>2. QED
      BY <2>1, <2>2, <2>3, <2>6, <3>1
  <2>7. QED
    BY <2>1, <2>5, <2>6, OrderedEnds
<1> HIDE DEF T
<1>3. \A k \in Nat : k \in T
  BY <1>1, <1>2, NatInduct
<1>4. QED
  BY <1>3 DEF T

(* What one more request gives.                                            *)
LEMMA GivesAppend ==
  ASSUME NEW q \in Seq(Request), NEW r \in Request, NEW h, NEW f \in [Id -> Nat]
  PROVE  /\ Gives(q, h, f) \in Seq(Nat) /\ GivesOne(r, h, f) \in Seq(Nat)
         /\ Gives(Append(q, r), h, f) = Gives(q, h, f) \o GivesOne(r, h, f)
<1> DEFINE one == [x \in Request |-> GivesOne(x, h, f)]
           Q == Seq(Nat)
<1>1. \A x \in Request : GivesOne(x, h, f) \in Q
  <2>1. TAKE x \in Request
  <2>2. f[x.id] \in Nat
    BY DEF Request
  <2>3. \A o \in Nat : <<o>> \in Q /\ <<>> \in Q
    OBVIOUS
  <2> HIDE DEF Q
  <2>4. QED
    BY <2>2, <2>3 DEF GivesOne
<1> HIDE DEF Q
<1>2. one \in [Request -> Q]
  BY <1>1
<1>3. \A p \in Seq(Request) : Gives(p, h, f) = FlattenSeq(Mapped(one, p))
  <2>1. TAKE p \in Seq(Request)
  <2>2. DOMAIN p = 1..Len(p) /\ \A j \in 1..Len(p) : p[j] \in Request
    BY LenProperties, ElementOfSeq
  <2>3. [j \in DOMAIN p |-> one[p[j]]] =
          [j \in 1..Len(p) |-> IF p[j].target = h /\ f[p[j].id] # 0 THEN <<f[p[j].id]>> ELSE <<>>]
    BY <2>2 DEF GivesOne
  <2>4. QED
    BY <2>3 DEF Gives, Mapped
<1>4. one[r] = GivesOne(r, h, f)
  OBVIOUS
<1> HIDE DEF one
<1>5. Maps(one, Request, Q)
  BY <1>2 DEF Maps
<1>9. Mapped(one, q) \in Seq(Q) /\ Mapped(one, Append(q, r)) = Append(Mapped(one, q), one[r])
  BY <1>5, MappedAppend
<1>10. one[r] \in Seq(Nat) /\ Mapped(one, q) \in Seq(Seq(Nat))
  BY <1>1, <1>4, <1>9 DEF Q
<1>6. /\ FlattenSeq(Mapped(one, q)) \in Seq(Nat)
      /\ FlattenSeq(Append(Mapped(one, q), one[r])) = FlattenSeq(Mapped(one, q)) \o one[r]
  BY <1>10, FlattenAppend
<1>7. Append(q, r) \in Seq(Request)
  BY AppendProperties
<1>8. QED
  BY <1>1, <1>3, <1>4, <1>9, <1>6, <1>7 DEF Q

LEMMA GivesNothing == \A h, f : Gives(<<>>, h, f) = <<>>
<1> TAKE h, f
<1>1. [i \in 1..Len(<<>>) |->
         IF <<>>[i].target = h /\ f[<<>>[i].id] # 0 THEN <<f[<<>>[i].id]>> ELSE <<>>] = <<>>
  OBVIOUS
<1>2. QED
  BY <1>1, FlattenEmpty DEF Gives

LEMMA ConcatNumbers ==
  \A a, b, c \in Seq(Nat) : (a \o b) \o c = a \o (b \o c)
  BY ConcatAssociative

(* What the next request gives comes first.                                *)
LEMMA GivesHead ==
  ASSUME NEW h, NEW f \in [Id -> Nat]
  PROVE  \A q \in Seq(Request) :
           q # <<>> => Gives(q, h, f) = GivesOne(Head(q), h, f) \o Gives(Tail(q), h, f)
<1> DEFINE Splits(q) == q # <<>> => Gives(q, h, f) = GivesOne(Head(q), h, f) \o Gives(Tail(q), h, f)
           T == {q \in Seq(Request) : Splits(q)}
<1>1. <<>> \in T
  BY EmptySeq
<1>2. ASSUME NEW q \in Seq(Request), NEW r \in Request, q \in T
      PROVE  Append(q, r) \in T
  <2>1. /\ Append(q, r) \in Seq(Request)
        /\ Head(Append(q, r)) = IF q = <<>> THEN r ELSE Head(q)
        /\ Tail(Append(q, r)) = IF q = <<>> THEN <<>> ELSE Append(Tail(q), r)
    BY AppendProperties, HeadTailAppend
  <2>2. /\ Gives(q, h, f) \in Seq(Nat) /\ GivesOne(r, h, f) \in Seq(Nat)
        /\ Gives(Append(q, r), h, f) = Gives(q, h, f) \o GivesOne(r, h, f)
    BY GivesAppend
  <2>3. CASE q = <<>>
    <3>1. Gives(q, h, f) = <<>>
      BY <2>3, GivesNothing
    <3>2. Gives(Append(q, r), h, f) = GivesOne(r, h, f)
      BY <2>2, <3>1, ConcatEmptySeq
    <3>3. GivesOne(r, h, f) \o <<>> = GivesOne(r, h, f)
      BY <2>2, ConcatEmptySeq
    <3>4. Head(Append(q, r)) = r /\ Tail(Append(q, r)) = <<>>
      BY <2>1, <2>3
    <3>5. QED
      BY <2>1, <3>2, <3>3, <3>4, GivesNothing
  <2>4. CASE q # <<>>
    <3>1. Head(q) \in Request /\ Tail(q) \in Seq(Request)
      BY <2>4, HeadTailProperties
    <3>2. /\ Gives(Tail(q), h, f) \in Seq(Nat) /\ GivesOne(Head(q), h, f) \in Seq(Nat)
          /\ Gives(Append(Tail(q), r), h, f) = Gives(Tail(q), h, f) \o GivesOne(r, h, f)
      BY <3>1, GivesAppend
    <3>3. Gives(q, h, f) = GivesOne(Head(q), h, f) \o Gives(Tail(q), h, f)
      BY <1>2, <2>4
    <3>4. (GivesOne(Head(q), h, f) \o Gives(Tail(q), h, f)) \o GivesOne(r, h, f) =
            GivesOne(Head(q), h, f) \o (Gives(Tail(q), h, f) \o GivesOne(r, h, f))
      <4> DEFINE a == GivesOne(Head(q), h, f)
                 b == Gives(Tail(q), h, f)
                 c == GivesOne(r, h, f)
      <4>1. a \in Seq(Nat) /\ b \in Seq(Nat) /\ c \in Seq(Nat)
        BY <2>2, <3>2
      <4> HIDE DEF a, b, c
      <4>2. (a \o b) \o c = a \o (b \o c)
        BY <4>1, ConcatNumbers, Zenon
      <4>3. QED
        BY <4>2 DEF a, b, c
    <3>5. Head(Append(q, r)) = Head(q) /\ Tail(Append(q, r)) = Append(Tail(q), r)
      BY <2>1, <2>4
    <3> HIDE DEF Splits
    <3>6. Splits(Append(q, r))
      BY <2>2, <3>2, <3>3, <3>4, <3>5 DEF Splits
    <3>7. QED
      BY <2>1, <3>6
  <2>5. QED
    BY <2>3, <2>4
<1> HIDE DEF T
<1>3. \A q \in Seq(Request) : q \in T
  BY <1>1, <1>2, SeqInduct
<1>4. QED
  BY <1>3 DEF T

(* Sequences in order that list a set.                                     *)
Lists(s, S) == Ordered(s) /\ ToSet(s) = S

LEMMA ListsJoin ==
  ASSUME NEW s \in Seq(Nat), NEW S, Lists(s, S), NEW e \in Nat, \A x \in S : x < e
  PROVE  Lists(Append(s, e), S \cup {e})
<1> DEFINE r == Append(s, e)
<1>1. /\ Len(s) \in Nat /\ DOMAIN s = 1..Len(s)
      /\ \A j \in 1..Len(s) : s[j] \in Nat
  BY LenProperties, ElementOfSeq
<1>2. /\ r \in Seq(Nat) /\ Len(r) = Len(s) + 1
      /\ \A j \in 1..Len(s) : r[j] = s[j]
      /\ r[Len(s) + 1] = e
  BY AppendLast
<1>3. DOMAIN r = 1..(Len(s) + 1)
  BY <1>2, LenProperties
<1> HIDE DEF r
<1>4. \A j \in 1..Len(s) : s[j] \in S
  BY <1>1 DEF Lists, ToSet
<1>5. Ordered(r)
  <2>1. SUFFICES ASSUME NEW j \in 1..Len(r), NEW k \in 1..Len(r), j < k
                 PROVE  r[j] < r[k]
    BY DEF Ordered
  <2>2. j \in 1..Len(s) /\ r[j] = s[j] /\ s[j] < e
    BY <1>1, <1>2, <1>4, <2>1
  <2>3. CASE k = Len(s) + 1
    BY <1>2, <2>2, <2>3
  <2>4. CASE k # Len(s) + 1
    <3>1. k \in 1..Len(s) /\ r[k] = s[k]
      BY <1>1, <1>2, <2>4
    <3>2. s[j] < s[k]
      BY <2>1, <2>2, <3>1 DEF Lists, Ordered
    <3>3. QED
      BY <2>2, <3>1, <3>2
  <2>5. QED
    BY <2>3, <2>4
<1>6. ToSet(r) = S \cup {e}
  <2>1. ToSet(r) = {r[j] : j \in 1..(Len(s) + 1)} /\ S = {s[j] : j \in 1..Len(s)}
    BY <1>1, <1>3 DEF ToSet, Lists
  <2>2. \A j : j \in 1..(Len(s) + 1) <=> j \in 1..Len(s) \/ j = Len(s) + 1
    BY <1>1
  <2>3. \A x : x \in ToSet(r) <=> x \in S \/ x = e
    BY <1>2, <2>1, <2>2, Zenon
  <2>4. QED
    BY <2>3
<1>7. QED
  BY <1>5, <1>6 DEF Lists, r

(* An open object is inside the one below it on the path; what is created  *)
(* after it is inside it, and no city object or implicit geometry if it is *)
(* none that may hold these.                                               *)
Nested ==
  /\ \A i \in 1..Len(path) : objects[path[i]].within = IF i = 1 THEN 0 ELSE path[i - 1]
  /\ \A o \in 1..Len(objects) : objects[o].within \in 0..Len(objects)
  /\ \A o \in ToSet(path), x \in 1..Len(objects) : x > o => objects[x].within >= o
  /\ \A o \in ToSet(path), x \in 1..Len(objects) :
       x > o /\ objects[o].kind # "cityobject" => objects[x].kind \in {"geometry", "polygon"}

(* While a document is parsed: what is closed is listed where it is        *)
(* defined, and the managers have the last object of every id.             *)
Closed(h, kind) == {o \in Of(kind) : objects[o].within = h /\ o \notin ToSet(path)}
ClosedListed ==
  \A h \in 0..MaxObjects :
    Lists(polygons[h], Closed(h, "polygon")) /\ Lists(geometries[h], Closed(h, "geometry"))

ClosedShared(d) == {o \in Shared("geometry", d) : o \notin ToSet(path)}
LastShared ==
  \A d \in Id : /\ IsLast(sharedPolygons[d], Shared("polygon", d))
                /\ IsLast(sharedGeometries[d], ClosedShared(d))

(* Whatever the ids stand for, the requests of a manager give an object    *)
(* what its links do.                                                      *)
RequestsLinked ==
  /\ links \in Seq(Request)
  /\ \A f \in [Id -> Nat], h \in Nat :
       /\ h \notin Of("implicit") => Gives(polygonRequests, h, f) = Gives(links, h, f)
       /\ h \notin Of("geometry") => Gives(geometryRequests, h, f) = Gives(links, h, f)

(* When it has been parsed: what objects have and are still given is all   *)
(* they should have, f the last object of every id.                        *)
Lasts(f, kind) == \A d \in Id : IsLast(f[d], Shared(kind, d))
PolygonsDue ==
  \E f \in [Id -> Nat] :
    /\ Lasts(f, "polygon")
    /\ \A g \in Of("geometry") :
         polygons[g] \o Gives(polygonRequests, g, sharedPolygons) =
           OwnParts(g, "polygon") \o Gives(links, g, f)
GeometriesDue ==
  \E f \in [Id -> Nat] :
    /\ Lasts(f, "geometry")
    /\ \A i \in Of("implicit") :
         geometries[i] \o Gives(geometryRequests, i, sharedGeometries) =
           OwnParts(i, "geometry") \o Gives(links, i, f)

NoneRequested ==
  /\ phase \notin {"parsing", "polygons"} => polygonRequests = <<>>
  /\ phase \notin {"parsing", "polygons", "geometries"} => geometryRequests = <<>>

Parsed == ClosedListed /\ LastShared /\ RequestsLinked

ReferenceInv ==
  /\ TypeInv /\ TreeInv /\ Nested /\ NoneRequested
  /\ phase = "parsing" => Parsed
  /\ phase # "parsing" => PolygonsDue /\ GeometriesDue

-----------------------------------------------------------------------------
(* How a document grows.                                                   *)
Opened(kind, d) ==
  /\ Len(objects') = Len(objects) + 1
  /\ \A o \in 1..Len(objects) : objects'[o] = objects[o]
  /\ objects'[Fresh].kind = kind /\ objects'[Fresh].id = d /\ objects'[Fresh].within = Top
  /\ path' = Append(path, Fresh)
  /\ kind \in {"geometry", "polygon"} \/ KindOf(Top) \in {"model", "cityobject"}

Ended == Top # 0 /\ objects' = objects /\ path' = Front(path)

(* A geometry made in h; around a polygon p, which ends, or around none.   *)
Made(d, h, p) ==
  /\ h \in 0..Len(objects)
  /\ Len(objects') = Len(objects) + 1
  /\ \A o \in 1..Len(objects) :
       /\ objects'[o].kind = objects[o].kind /\ objects'[o].id = objects[o].id
       /\ objects'[o].within = IF o = p THEN Fresh ELSE objects[o].within
  /\ objects'[Fresh].kind = "geometry" /\ objects'[Fresh].id = d /\ objects'[Fresh].within = h
  /\ \/ p = 0 /\ h = Top /\ path' = path
     \/ p # 0 /\ p = Top /\ objects[p].kind = "polygon" /\ h = Around /\ path' = Front(path)

(* The path, its elements, and the one on top.                             *)
LEMMA PathFacts ==
  ASSUME PartsOK, PathOrdered
  PROVE  /\ Len(path) \in Nat /\ Len(objects) \in Nat /\ DOMAIN path = 1..Len(path)
         /\ \A i \in 1..Len(path) : path[i] \in 1..Len(objects) /\ path[i] \in ToSet(path)
         /\ \A o \in ToSet(path) : \E i \in 1..Len(path) : o = path[i]
         /\ \A o \in ToSet(path) : o \in 1..Len(objects) /\ o <= Top
         /\ Top \in 0..Len(objects) /\ Around \in 0..Len(objects)
         /\ Top # 0 => /\ Top \in ToSet(path) /\ Len(path) # 0 /\ Top = path[Len(path)]
                       /\ Around = IF Len(path) = 1 THEN 0 ELSE path[Len(path) - 1]
         /\ Top = 0 => path = <<>>
<1>1. /\ Len(path) \in Nat /\ Len(objects) \in Nat
      /\ path = <<>> <=> Len(path) = 0
      /\ Top = IF Len(path) = 0 THEN 0 ELSE path[Len(path)]
      /\ Around = IF Len(path) < 2 THEN 0 ELSE path[Len(path) - 1]
      /\ Top \in 0..Len(objects) /\ Around \in 0..Len(objects)
  BY TopAround
<1>2. DOMAIN path = 1..Len(path) /\ \A i \in 1..Len(path) : path[i] \in 1..Len(objects)
  BY LenProperties, ElementOfSeq DEF PartsOK
<1> HIDE DEF Top, Around
<1>3. \A i \in 1..Len(path) : path[i] \in ToSet(path)
  BY <1>2 DEF ToSet
<1>4. \A o \in ToSet(path) : \E i \in 1..Len(path) : o = path[i]
  BY <1>2 DEF ToSet
<1>5. ASSUME NEW o \in ToSet(path) PROVE o \in 1..Len(objects) /\ o <= Top
  <2>1. PICK i \in 1..Len(path) : o = path[i]
    BY <1>4
  <2>2. Len(path) # 0 /\ Len(path) \in 1..Len(path)
    BY <1>1
  <2>3. Top = path[Len(path)]
    BY <1>1, <2>2
  <2>4. i = Len(path) \/ path[i] < path[Len(path)]
    <3>1. i = Len(path) \/ i < Len(path)
      BY <1>1
    <3>2. QED
      BY <2>2, <3>1 DEF PathOrdered
  <2>5. path[i] \in 1..Len(objects) /\ path[Len(path)] \in 1..Len(objects)
    BY <1>2, <2>2
  <2>6. \A x, y \in 1..Len(objects) : x = y \/ x < y => x <= y
    BY <1>1
  <2>7. path[i] <= path[Len(path)]
    BY <2>4, <2>5, <2>6, Zenon
  <2>8. QED
    BY <2>1, <2>3, <2>5, <2>7
<1>6. ASSUME Top # 0
      PROVE  /\ Top \in ToSet(path) /\ Len(path) # 0 /\ Top = path[Len(path)]
             /\ Around = IF Len(path) = 1 THEN 0 ELSE path[Len(path) - 1]
  <2>1. Len(path) # 0 /\ Len(path) \in 1..Len(path) /\ Top = path[Len(path)]
    BY <1>1, <1>6
  <2>0. \A n \in Nat : n # 0 => (n < 2 <=> n = 1)
    OBVIOUS
  <2>2. Len(path) < 2 <=> Len(path) = 1
    BY <1>1, <2>0, <2>1
  <2>3. QED
    BY <1>1, <1>3, <2>1, <2>2
<1>7. Top = 0 => path = <<>>
  <2>1. SUFFICES ASSUME Len(path) # 0 PROVE Top # 0
    BY <1>1
  <2>2. Len(path) \in 1..Len(path)
    BY <1>1, <2>1
  <2>3. QED
    BY <1>1, <1>2, <2>1, <2>2
<1>8. QED
  BY <1>1, <1>2, <1>3, <1>4, <1>5, <1>6, <1>7

LEMMA PushedPath ==
  ASSUME PartsOK, PathOrdered, path' = Append(path, Fresh)
  PROVE  /\ Len(path') = Len(path) + 1
         /\ \A i \in 1..Len(path) : path'[i] = path[i]
         /\ path'[Len(path) + 1] = Fresh
         /\ \A o : o \in ToSet(path') <=> o \in ToSet(path) \/ o = Fresh
<1>1. Len(path) \in Nat /\ Len(objects) \in Nat /\ DOMAIN path = 1..Len(path)
  BY PathFacts
<1>2. path \in Seq(Nat) /\ Fresh \in Nat
  <2>1. \A i \in 1..Len(path) : path[i] \in 1..Len(objects)
    BY PathFacts
  <2>2. path \in Seq(1..Len(objects)) /\ 1..Len(objects) \subseteq Nat
    BY <1>1 DEF PartsOK
  <2>3. QED
    BY <1>1, <2>2, SeqMonotone DEF Fresh
<1>3. /\ Len(path') = Len(path) + 1 /\ path' \in Seq(Nat)
      /\ \A i \in 1..Len(path) : path'[i] = path[i]
      /\ path'[Len(path) + 1] = Fresh
  BY <1>2, AppendLast
<1>4. DOMAIN path' = 1..(Len(path) + 1)
  BY <1>3, LenProperties
<1>5. \A j : j \in 1..(Len(path) + 1) <=> j \in 1..Len(path) \/ j = Len(path) + 1
  BY <1>1
<1>6. ToSet(path') = {path'[j] : j \in 1..(Len(path) + 1)} /\ ToSet(path) = {path[j] : j \in 1..Len(path)}
  BY <1>1, <1>4 DEF ToSet
<1>7. \A o : o \in ToSet(path') <=> o \in ToSet(path) \/ o = Fresh
  BY <1>3, <1>5, <1>6, Zenon
<1>8. QED
  BY <1>3, <1>7

LEMMA PoppedPath ==
  ASSUME PartsOK, PathOrdered, Top # 0, path' = Front(path)
  PROVE  /\ Len(path') = Len(path) - 1
         /\ \A i \in 1..(Len(path) - 1) : path'[i] = path[i]
         /\ \A o : o \in ToSet(path') <=> o \in ToSet(path) /\ o # Top
         /\ Around < Top
<1>1. /\ Len(path) \in Nat /\ Len(objects) \in Nat /\ DOMAIN path = 1..Len(path) /\ Len(path) # 0
      /\ Top = path[Len(path)]
      /\ Around = IF Len(path) = 1 THEN 0 ELSE path[Len(path) - 1]
      /\ \A i \in 1..Len(path) : path[i] \in 1..Len(objects)
      /\ path \in Seq(1..Len(objects))
  BY PathFacts, Zenon DEF PartsOK
<1> HIDE DEF Top, Around
<1>2. /\ Len(path') = Len(path) - 1 /\ path' \in Seq(1..Len(objects))
      /\ \A i \in 1..(Len(path) - 1) : path'[i] = path[i]
  BY <1>1, FrontSet, Zenon
<1>3. DOMAIN path' = 1..(Len(path) - 1)
  BY <1>2, LenProperties
<1>4. \A i \in 1..(Len(path) - 1) : path[i] < Top
  <2>1. TAKE i \in 1..(Len(path) - 1)
  <2>2. i \in 1..Len(path) /\ Len(path) \in 1..Len(path) /\ i < Len(path)
    BY <1>1
  <2>3. QED
    BY <1>1, <2>2 DEF PathOrdered
<1>5. \A j : j \in 1..Len(path) <=> j \in 1..(Len(path) - 1) \/ j = Len(path)
  BY <1>1
<1>6. \A i \in 1..(Len(path) - 1) : path[i] # Top
  <2>1. TAKE i \in 1..(Len(path) - 1)
  <2>2. path[i] < Top /\ path[i] \in 1..Len(objects) /\ Top \in 1..Len(objects)
    BY <1>1, <1>4, <1>5
  <2>3. QED
    BY <1>1, <2>2
<1>7. ToSet(path') = {path'[j] : j \in 1..(Len(path) - 1)} /\ ToSet(path) = {path[j] : j \in 1..Len(path)}
  BY <1>1, <1>3 DEF ToSet
<1>8. \A o : o \in ToSet(path') <=> o \in ToSet(path) /\ o # Top
  BY <1>1, <1>2, <1>5, <1>6, <1>7, Zenon
<1>9. Around < Top
  <2>1. CASE Len(path) = 1
    BY <1>1, <1>5, <2>1
  <2>2. CASE Len(path) # 1
    <3>0. \A n \in Nat : n # 0 /\ n # 1 => n - 1 \in 1..(n - 1)
      OBVIOUS
    <3>1. Len(path) - 1 \in 1..(Len(path) - 1)
      BY <1>1, <2>2, <3>0
    <3>2. QED
      BY <1>1, <1>4, <2>2, <3>1
  <2>3. QED
    BY <2>1, <2>2
<1>10. QED
  BY <1>2, <1>8, <1>9

(* An object is opened in the one on top.                                  *)
LEMMA OpenedNests ==
  ASSUME PartsOK, PathOrdered, Nested, NEW kind, NEW d, Opened(kind, d)
  PROVE  Nested'
<1>1. /\ Len(path) \in Nat /\ Len(objects) \in Nat
      /\ \A i \in 1..Len(path) : path[i] \in 1..Len(objects) /\ path[i] \in ToSet(path)
      /\ \A o \in ToSet(path) : o \in 1..Len(objects) /\ o <= Top
      /\ Top \in 0..Len(objects)
      /\ Top # 0 => Top \in ToSet(path) /\ Len(path) # 0 /\ Top = path[Len(path)]
      /\ Top = 0 => Len(path) = 0
  BY PathFacts
<1>2. /\ Len(path') = Len(path) + 1
      /\ \A i \in 1..Len(path) : path'[i] = path[i]
      /\ path'[Len(path) + 1] = Fresh
      /\ \A o : o \in ToSet(path') <=> o \in ToSet(path) \/ o = Fresh
  BY PushedPath DEF Opened
<1>3. /\ Len(objects') = Len(objects) + 1 /\ Fresh = Len(objects) + 1
      /\ \A o \in 1..Len(objects) : objects'[o] = objects[o]
      /\ objects'[Fresh].within = Top /\ objects'[Fresh].kind = kind
  BY DEF Opened, Fresh
<1>4. \A o : o \in 1..Len(objects') <=> o \in 1..Len(objects) \/ o = Fresh
  BY <1>1, <1>3
<1> HIDE DEF Top, Fresh
<1>10. kind \in {"geometry", "polygon"} \/ Top = 0 \/ objects[Top].kind = "cityobject"
  <2>1. Top # 0 => Top \in 1..Len(objects)
    BY <1>1
  <2>2. Top # 0 => objects[Top] \in ObjectType
    BY <2>1, ElementOfSeq DEF PartsOK
  <2>3. Top # 0 => objects[Top].kind # "model"
    BY <2>2 DEF ObjectType, Kind
  <2>4. QED
    BY <2>3 DEF Opened, KindOf
<1>5. ASSUME NEW i \in 1..Len(path')
      PROVE  objects'[path'[i]].within = IF i = 1 THEN 0 ELSE path'[i - 1]
  <2>1. CASE i = Len(path) + 1
    <3>1. objects'[path'[i]].within = Top
      BY <1>2, <1>3, <2>1
    <3>2. CASE Len(path) = 0
      BY <1>1, <2>1, <3>1, <3>2
    <3>3. CASE Len(path) # 0
      <4>1. Len(path) \in 1..Len(path) /\ i # 1 /\ i - 1 = Len(path)
        BY <1>1, <2>1, <3>3
      <4>2. Top = path[Len(path)]
        BY <1>1, <3>3, <4>1
      <4>3. QED
        BY <1>2, <3>1, <4>1, <4>2
    <3>4. QED
      BY <3>2, <3>3
  <2>2. CASE i # Len(path) + 1
    <3>1. i \in 1..Len(path) /\ (i # 1 => i - 1 \in 1..Len(path))
      BY <1>1, <1>2, <2>2
    <3>2. objects[path[i]].within = IF i = 1 THEN 0 ELSE path[i - 1]
      BY <3>1 DEF Nested
    <3>3. path'[i] = path[i] /\ path[i] \in 1..Len(objects)
      BY <1>1, <1>2, <3>1
    <3>4. QED
      BY <1>2, <1>3, <3>1, <3>2, <3>3
  <2>3. QED
    BY <2>1, <2>2
<1>6. \A o \in 1..Len(objects') : objects'[o].within \in 0..Len(objects')
  <2>1. \A o \in 1..Len(objects) : objects[o].within \in 0..Len(objects')
    BY <1>1, <1>3 DEF Nested
  <2>2. Top \in 0..Len(objects')
    BY <1>1, <1>3
  <2>3. QED
    BY <1>3, <1>4, <2>1, <2>2
<1>7. ASSUME NEW o \in ToSet(path'), NEW x \in 1..Len(objects'), x > o
      PROVE  o \in ToSet(path) /\ o \in 1..Len(objects) /\ o <= Top /\ objects'[o] = objects[o]
  <2>1. o # Fresh
    BY <1>1, <1>3, <1>4, <1>7
  <2>2. o \in ToSet(path)
    BY <1>2, <2>1
  <2>3. QED
    BY <1>1, <1>3, <2>2
<1>8. ASSUME NEW o \in ToSet(path'), NEW x \in 1..Len(objects'), x > o
      PROVE  objects'[x].within >= o
  <2>1. o \in ToSet(path) /\ o \in 1..Len(objects) /\ o <= Top
    BY <1>7, <1>8
  <2>2. CASE x = Fresh
    BY <1>1, <1>3, <2>1, <2>2
  <2>3. CASE x # Fresh
    BY <1>3, <1>4, <1>8, <2>1, <2>3 DEF Nested
  <2>4. QED
    BY <2>2, <2>3
<1>9. ASSUME NEW o \in ToSet(path'), NEW x \in 1..Len(objects'), x > o,
             objects'[o].kind # "cityobject"
      PROVE  objects'[x].kind \in {"geometry", "polygon"}
  <2>1. o \in ToSet(path) /\ o \in 1..Len(objects) /\ o <= Top /\ objects[o].kind # "cityobject"
    BY <1>7, <1>9
  <2>2. CASE x = Fresh
    <3>1. Top # 0 /\ Top \in 1..Len(objects)
      BY <1>1, <2>1
    <3>2. o # Top => objects[Top].kind \in {"geometry", "polygon"}
      BY <1>1, <2>1, <3>1 DEF Nested
    <3>3. objects[Top].kind # "cityobject"
      BY <2>1, <3>2
    <3>4. QED
      BY <1>3, <1>10, <2>2, <3>1, <3>3
  <2>3. CASE x # Fresh
    BY <1>3, <1>4, <1>9, <2>1, <2>3 DEF Nested
  <2>4. QED
    BY <2>2, <2>3
<1>11. QED
  BY <1>5, <1>6, <1>8, <1>9 DEF Nested

(* The object on top ends.                                                 *)
LEMMA EndedNests ==
  ASSUME PartsOK, PathOrdered, Nested, Ended
  PROVE  Nested'
<1>1. /\ Len(path) \in Nat
      /\ \A i \in 1..Len(path) : path[i] \in 1..Len(objects) /\ path[i] \in ToSet(path)
  BY PathFacts
<1>2. /\ Len(path') = Len(path) - 1
      /\ \A i \in 1..(Len(path) - 1) : path'[i] = path[i]
      /\ \A o : o \in ToSet(path') <=> o \in ToSet(path) /\ o # Top
  BY PoppedPath DEF Ended
<1>3. objects' = objects
  BY DEF Ended
<1>4. ASSUME NEW i \in 1..Len(path')
      PROVE  objects'[path'[i]].within = IF i = 1 THEN 0 ELSE path'[i - 1]
  <2>1. i \in 1..Len(path) /\ i \in 1..(Len(path) - 1) /\ (i # 1 => i - 1 \in 1..(Len(path) - 1))
    BY <1>1, <1>2
  <2>2. objects[path[i]].within = IF i = 1 THEN 0 ELSE path[i - 1]
    BY <2>1 DEF Nested
  <2>3. QED
    BY <1>2, <1>3, <2>1, <2>2
<1>5. QED
  BY <1>2, <1>3, <1>4 DEF Nested

(* A geometry is made, around a polygon that ends or without one.          *)
LEMMA MadeNests ==
  ASSUME PartsOK, PathOrdered, Nested, NEW d, NEW h, NEW p, Made(d, h, p)
  PROVE  Nested'
<1>1. /\ Len(path) \in Nat /\ Len(objects) \in Nat
      /\ \A i \in 1..Len(path) : path[i] \in 1..Len(objects) /\ path[i] \in ToSet(path)
      /\ \A o \in ToSet(path) : o \in 1..Len(objects) /\ o <= Top
      /\ Top # 0 => /\ Top = path[Len(path)] /\ Len(path) # 0 /\ Top \in ToSet(path)
                    /\ Around = IF Len(path) = 1 THEN 0 ELSE path[Len(path) - 1]
  BY PathFacts
<1>2. /\ h \in 0..Len(objects)
      /\ Len(objects') = Len(objects) + 1 /\ Fresh = Len(objects) + 1
      /\ \A o \in 1..Len(objects) :
           /\ objects'[o].kind = objects[o].kind
           /\ objects'[o].within = IF o = p THEN Fresh ELSE objects[o].within
      /\ objects'[Fresh].within = h /\ objects'[Fresh].kind = "geometry"
  BY DEF Made, Fresh
<1>3. \A o : o \in 1..Len(objects') <=> o \in 1..Len(objects) \/ o = Fresh
  BY <1>1, <1>2
<1>4. /\ Len(path') \in Nat
      /\ \A i \in 1..Len(path') : /\ i \in 1..Len(path) /\ path'[i] = path[i] /\ path[i] # p
                                  /\ i # 1 => i - 1 \in 1..Len(path') /\ path'[i - 1] = path[i - 1]
      /\ \A o \in ToSet(path') : o \in ToSet(path) /\ o # p /\ o <= h
  <2>1. CASE p = 0 /\ h = Top /\ path' = path
    <3>1. \A i \in 1..Len(path) : i # 1 => i - 1 \in 1..Len(path)
      BY <1>1
    <3>2. 0 \notin ToSet(path)
      BY <1>1
    <3>3. QED
      BY <1>1, <2>1, <3>1, <3>2
  <2>2. CASE p # 0 /\ p = Top /\ h = Around /\ path' = Front(path)
    <3>1. /\ Len(path') = Len(path) - 1
          /\ \A i \in 1..(Len(path) - 1) : path'[i] = path[i]
          /\ \A o : o \in ToSet(path') <=> o \in ToSet(path) /\ o # Top
      BY <2>2, PoppedPath
    <3>2. /\ Len(path) # 0 /\ Top = path[Len(path)]
          /\ Around = IF Len(path) = 1 THEN 0 ELSE path[Len(path) - 1]
      BY <1>1, <2>2
    <3> HIDE DEF Top, Around
    <3>3. Len(path') \in Nat
      BY <1>1, <3>1, <3>2
    <3>4. ASSUME NEW i \in 1..Len(path')
          PROVE  /\ i \in 1..Len(path) /\ path'[i] = path[i] /\ path[i] < path[Len(path)]
                 /\ i # 1 => i - 1 \in 1..Len(path') /\ path'[i - 1] = path[i - 1]
      <4>1. /\ i \in 1..Len(path) /\ i \in 1..(Len(path) - 1) /\ i < Len(path) /\ Len(path) \in 1..Len(path)
            /\ i # 1 => i - 1 \in 1..(Len(path) - 1)
        BY <1>1, <3>1
      <4>2. path[i] < path[Len(path)]
        BY <4>1 DEF PathOrdered
      <4>3. QED
        BY <3>1, <4>1, <4>2
    <3>5. \A i \in 1..Len(path') : path[i] # p
      <4>1. TAKE i \in 1..Len(path')
      <4>2. path[i] < path[Len(path)] /\ path[i] \in 1..Len(objects) /\ Len(path) \in 1..Len(path)
        BY <1>1, <3>2, <3>4
      <4>3. path[Len(path)] \in 1..Len(objects)
        BY <1>1, <4>2
      <4>4. QED
        BY <1>1, <2>2, <3>2, <4>2, <4>3
    <3>6. ASSUME NEW o \in ToSet(path') PROVE o \in ToSet(path) /\ o # p /\ o <= h
      <4>1. o \in ToSet(path) /\ o # Top
        BY <3>1
      <4>2. PICK i \in 1..Len(path) : o = path[i]
        BY <4>1, PathFacts
      <4>3. i # Len(path)
        BY <3>2, <4>1, <4>2
      <4>4. /\ i < Len(path) /\ Len(path) # 1 /\ Len(path) - 1 \in 1..Len(path)
            /\ (i = Len(path) - 1 \/ i < Len(path) - 1)
        BY <1>1, <4>2, <4>3
      <4>5. h = path[Len(path) - 1]
        BY <2>2, <3>2, <4>4
      <4>6. path[i] = path[Len(path) - 1] \/ path[i] < path[Len(path) - 1]
        BY <4>2, <4>4 DEF PathOrdered
      <4>7. path[i] \in 1..Len(objects) /\ path[Len(path) - 1] \in 1..Len(objects)
        BY <1>1, <4>2, <4>4
      <4>8. \A x, y \in 1..Len(objects) : x = y \/ x < y => x <= y
        BY <1>1
      <4>9. path[i] <= path[Len(path) - 1]
        BY <4>6, <4>7, <4>8, Zenon
      <4>10. QED
        BY <2>2, <4>1, <4>2, <4>5, <4>9
    <3>7. QED
      BY <3>3, <3>4, <3>5, <3>6
  <2>3. QED
    BY <2>1, <2>2 DEF Made
<1> HIDE DEF Top, Around, Fresh
<1>5. ASSUME NEW i \in 1..Len(path')
      PROVE  objects'[path'[i]].within = IF i = 1 THEN 0 ELSE path'[i - 1]
  <2>1. objects[path[i]].within = IF i = 1 THEN 0 ELSE path[i - 1]
    BY <1>4 DEF Nested
  <2>2. path[i] \in 1..Len(objects) /\ path[i] # p /\ path'[i] = path[i]
    BY <1>1, <1>4
  <2>3. objects'[path[i]].within = objects[path[i]].within
    BY <1>2, <2>2
  <2>4. i # 1 => path'[i - 1] = path[i - 1]
    BY <1>4
  <2>5. QED
    BY <2>1, <2>2, <2>3, <2>4
<1>6. \A o \in 1..Len(objects') : objects'[o].within \in 0..Len(objects')
  <2>1. \A o \in 1..Len(objects) : objects[o].within \in 0..Len(objects')
    BY <1>1, <1>2 DEF Nested
  <2>2. h \in 0..Len(objects') /\ Fresh \in 0..Len(objects')
    BY <1>1, <1>2
  <2>3. QED
    BY <1>2, <1>3, <2>1, <2>2
<1>7. ASSUME NEW o \in ToSet(path'), NEW x \in 1..Len(objects'), x > o
      PROVE  objects'[x].within >= o
  <2>1. o \in ToSet(path) /\ o \in 1..Len(objects) /\ o <= h
    BY <1>1, <1>4
  <2>2. CASE x = Fresh
    BY <1>1, <1>2, <2>1, <2>2
  <2>3. CASE x # Fresh
    <3>1. x \in 1..Len(objects)
      BY <1>3, <2>3
    <3>2. objects[x].within >= o
      BY <1>7, <2>1, <3>1 DEF Nested
    <3>3. Fresh >= o
      BY <1>1, <1>2, <2>1
    <3>4. QED
      BY <1>2, <3>1, <3>2, <3>3
  <2>4. QED
    BY <2>2, <2>3
<1>8. ASSUME NEW o \in ToSet(path'), NEW x \in 1..Len(objects'), x > o,
             objects'[o].kind # "cityobject"
      PROVE  objects'[x].kind \in {"geometry", "polygon"}
  <2>1. o \in ToSet(path) /\ o \in 1..Len(objects) /\ objects[o].kind # "cityobject"
    BY <1>1, <1>2, <1>4, <1>8
  <2>2. CASE x = Fresh
    BY <1>2, <2>2
  <2>3. CASE x # Fresh
    BY <1>2, <1>3, <1>8, <2>1, <2>3 DEF Nested
  <2>4. QED
    BY <2>2, <2>3
<1>9. QED
  BY <1>5, <1>6, <1>7, <1>8 DEF Nested

-----------------------------------------------------------------------------
(* What is closed, and what is shared, as a document grows.                *)
LEMMA SetsAre ==
  /\ \A h, k, o : o \in Closed(h, k) <=> /\ o \in 1..Len(objects) /\ objects[o].kind = k
                                         /\ objects[o].within = h /\ o \notin ToSet(path)
  /\ \A d, o : o \in Shared("polygon", d) <=>
                 o \in 1..Len(objects) /\ objects[o].kind = "polygon" /\ objects[o].id = d
  /\ \A d, o : o \in ClosedShared(d) <=>
                 /\ o \in 1..Len(objects) /\ objects[o].kind = "geometry" /\ objects[o].id = d
                 /\ objects[o].within # 0 /\ objects[objects[o].within].kind = "implicit"
                 /\ o \notin ToSet(path)
  BY DEF Closed, ClosedShared, Shared, Of, KindOf

LEMMA SetsAreNext ==
  /\ \A h, k, o : o \in Closed(h, k)' <=> /\ o \in 1..Len(objects') /\ objects'[o].kind = k
                                          /\ objects'[o].within = h /\ o \notin ToSet(path')
  /\ \A d, o : o \in Shared("polygon", d)' <=>
                 o \in 1..Len(objects') /\ objects'[o].kind = "polygon" /\ objects'[o].id = d
  /\ \A d, o : o \in ClosedShared(d)' <=>
                 /\ o \in 1..Len(objects') /\ objects'[o].kind = "geometry" /\ objects'[o].id = d
                 /\ objects'[o].within # 0 /\ objects'[objects'[o].within].kind = "implicit"
                 /\ o \notin ToSet(path')
  BY DEF Closed, ClosedShared, Shared, Of, KindOf

LEMMA OpenedSets ==
  ASSUME PartsOK, PathOrdered, Nested, NEW kind, NEW d, Opened(kind, d)
  PROVE  /\ \A h, k : Closed(h, k)' = Closed(h, k)
         /\ \A e : Shared("polygon", e)' = IF kind = "polygon" /\ e = d
                                           THEN Shared("polygon", e) \cup {Fresh}
                                           ELSE Shared("polygon", e)
         /\ \A e : ClosedShared(e)' = ClosedShared(e)
<1>1. /\ Len(objects) \in Nat /\ Len(objects') = Len(objects) + 1 /\ Fresh = Len(objects) + 1
      /\ \A o \in 1..Len(objects) : objects'[o] = objects[o] /\ objects[o].within \in 0..Len(objects)
      /\ objects'[Fresh].kind = kind /\ objects'[Fresh].id = d
  BY PathFacts DEF Opened, Fresh, Nested
<1>2. \A o : o \in ToSet(path') <=> o \in ToSet(path) \/ o = Fresh
  BY PushedPath DEF Opened
<1>3. /\ \A o : o \in 1..Len(objects') <=> o \in 1..Len(objects) \/ o = Fresh
      /\ Fresh \notin 1..Len(objects)
  BY <1>1
<1> HIDE DEF Fresh
<1>5. ASSUME NEW h, NEW k PROVE Closed(h, k)' = Closed(h, k)
  <2>1. \A o : o \in Closed(h, k)' <=> o \in Closed(h, k)
    BY <1>1, <1>2, <1>3 DEF Closed, Of
  <2>2. QED
    BY <2>1 DEF Closed, Of
<1>6. ASSUME NEW e
      PROVE  Shared("polygon", e)' = IF kind = "polygon" /\ e = d
                                     THEN Shared("polygon", e) \cup {Fresh}
                                     ELSE Shared("polygon", e)
  <2>1. \A o : o \in Shared("polygon", e)' <=>
                 o \in Shared("polygon", e) \/ (o = Fresh /\ kind = "polygon" /\ e = d)
    BY <1>1, <1>3 DEF Shared, Of
  <2>2. QED
    BY <2>1
<1>7. ASSUME NEW e PROVE ClosedShared(e)' = ClosedShared(e)
  <2>1. \A o \in 1..Len(objects) :
          /\ objects'[o].within = objects[o].within
          /\ objects[o].within # 0 => objects'[objects[o].within].kind = objects[objects[o].within].kind
    BY <1>1
  <2>2. \A o : o \in ClosedShared(e)' <=> o \in ClosedShared(e)
    BY <1>1, <1>2, <1>3, <2>1, SetsAre, SetsAreNext
  <2>3. QED
    BY <2>2
<1>8. QED
  BY <1>5, <1>6, <1>7

LEMMA EndedSets ==
  ASSUME PartsOK, PathOrdered, Nested, Ended
  PROVE  /\ \A h, k : Closed(h, k)' = IF h = Around /\ k = KindOf(Top) THEN Closed(h, k) \cup {Top}
                                      ELSE Closed(h, k)
         /\ \A k : \A x \in Closed(Around, k) : x < Top
         /\ \A e : Shared("polygon", e)' = Shared("polygon", e)
         /\ \A e : ClosedShared(e)' = IF /\ KindOf(Top) = "geometry" /\ KindOf(Around) = "implicit"
                                         /\ e = objects[Top].id
                                      THEN ClosedShared(e) \cup {Top} ELSE ClosedShared(e)
         /\ KindOf(Top) = "geometry" => \A e : \A x \in ClosedShared(e) : x < Top
<1>1. /\ Len(objects) \in Nat /\ Top \in 1..Len(objects) /\ Top \in ToSet(path)
      /\ Top = path[Len(path)] /\ Len(path) \in 1..Len(path)
      /\ Around = IF Len(path) = 1 THEN 0 ELSE path[Len(path) - 1]
      /\ objects' = objects /\ KindOf(Top) = objects[Top].kind
  BY PathFacts DEF Ended, KindOf
<1>2. \A o : o \in ToSet(path') <=> o \in ToSet(path) /\ o # Top
  BY PoppedPath DEF Ended
<1>3. Around < Top /\ Around \in 0..Len(objects)
  BY PoppedPath, PathFacts DEF Ended
<1> HIDE DEF Top, Around
<1>4. objects[Top].within = Around
  BY <1>1 DEF Nested
<1>5. ASSUME NEW h, NEW k
      PROVE  Closed(h, k)' = IF h = Around /\ k = KindOf(Top) THEN Closed(h, k) \cup {Top}
                             ELSE Closed(h, k)
  <2>1. \A o : o \in Closed(h, k)' <=> o \in Closed(h, k) \/ (o = Top /\ h = Around /\ k = KindOf(Top))
    BY <1>1, <1>2, <1>4 DEF Closed, Of
  <2>2. QED
    BY <2>1
<1>6. ASSUME NEW k, NEW x \in Closed(Around, k) PROVE x < Top
  <2>1. x \in 1..Len(objects) /\ objects[x].within = Around /\ x \notin ToSet(path)
    BY SetsAre
  <2>2. x # Top
    BY <1>1, <2>1
  <2>3. ~(x > Top)
    <3>1. SUFFICES ASSUME x > Top PROVE FALSE
      OBVIOUS
    <3>2. objects[x].within >= Top
      BY <1>1, <2>1, <3>1 DEF Nested
    <3>3. QED
      BY <1>1, <1>3, <2>1, <3>2
  <2>4. QED
    BY <1>1, <2>1, <2>2, <2>3
<1>7. \A e : Shared("polygon", e)' = Shared("polygon", e)
  <2>1. TAKE e
  <2>2. \A o : o \in Shared("polygon", e)' <=> o \in Shared("polygon", e)
    BY <1>1, SetsAre, SetsAreNext
  <2>3. QED
    BY <2>2
<1>8. ASSUME NEW e
      PROVE  ClosedShared(e)' = IF /\ KindOf(Top) = "geometry" /\ KindOf(Around) = "implicit"
                                   /\ e = objects[Top].id
                                THEN ClosedShared(e) \cup {Top} ELSE ClosedShared(e)
  <2>1. KindOf(Around) = "implicit" <=> Around # 0 /\ objects[Around].kind = "implicit"
    BY DEF KindOf
  <2>2. \A o : o \in ClosedShared(e)' <=>
                 \/ o \in ClosedShared(e)
                 \/ o = Top /\ KindOf(Top) = "geometry" /\ KindOf(Around) = "implicit" /\ e = objects[Top].id
    BY <1>1, <1>2, <1>4, <2>1, SetsAre, SetsAreNext
  <2>3. QED
    BY <2>2
<1>9. ASSUME KindOf(Top) = "geometry", NEW e, NEW x \in ClosedShared(e) PROVE x < Top
  <2>1. /\ x \in 1..Len(objects) /\ x \notin ToSet(path)
        /\ objects[x].within \in 0..Len(objects) /\ objects[objects[x].within].kind = "implicit"
    BY SetsAre DEF Nested
  <2>2. x # Top
    BY <1>1, <2>1
  <2>3. ~(x > Top)
    <3>1. SUFFICES ASSUME x > Top PROVE FALSE
      OBVIOUS
    <3>2. objects[x].within >= Top
      BY <1>1, <2>1, <3>1 DEF Nested
    <3>3. objects[x].within # Top
      BY <1>1, <1>9, <2>1
    <3>4. objects[x].within \in 1..Len(objects) /\ objects[x].within > Top
      BY <1>1, <2>1, <3>2, <3>3
    <3>5. objects[objects[x].within].kind \in {"geometry", "polygon"}
      BY <1>1, <1>9, <3>4 DEF Nested
    <3>6. QED
      BY <2>1, <3>5
  <2>4. QED
    BY <1>1, <2>1, <2>2, <2>3
<1>10. QED
  BY <1>5, <1>6, <1>7, <1>8, <1>9

LEMMA MadeSets ==
  ASSUME PartsOK, PathOrdered, Nested, NEW d, NEW h, NEW p, Made(d, h, p)
  PROVE  /\ \A w : Closed(w, "polygon")' = IF p # 0 /\ w = Fresh THEN {p} ELSE Closed(w, "polygon")
         /\ Closed(Fresh, "polygon") = {} /\ Closed(Fresh, "geometry") = {}
         /\ \A w : Closed(w, "geometry")' = IF w = h THEN Closed(w, "geometry") \cup {Fresh}
                                            ELSE Closed(w, "geometry")
         /\ \A x \in Closed(h, "geometry") : x < Fresh
         /\ \A e : Shared("polygon", e)' = Shared("polygon", e)
         /\ \A e : ClosedShared(e)' = IF KindOf(h) = "implicit" /\ e = d
                                      THEN ClosedShared(e) \cup {Fresh} ELSE ClosedShared(e)
         /\ \A e : \A x \in ClosedShared(e) : x < Fresh
<1>1. /\ Len(objects) \in Nat /\ Len(objects') = Len(objects) + 1 /\ Fresh = Len(objects) + 1
      /\ h \in 0..Len(objects)
      /\ \A o \in 1..Len(objects) :
           /\ objects'[o].kind = objects[o].kind /\ objects'[o].id = objects[o].id
           /\ objects'[o].within = IF o = p THEN Fresh ELSE objects[o].within
           /\ objects[o].within \in 0..Len(objects)
      /\ objects'[Fresh].kind = "geometry" /\ objects'[Fresh].id = d /\ objects'[Fresh].within = h
  BY PathFacts DEF Made, Fresh, Nested
<1>2. /\ \A o : o \in ToSet(path') <=> o \in ToSet(path) /\ o # p
      /\ p # 0 => p \in ToSet(path) /\ p \in 1..Len(objects) /\ objects[p].kind = "polygon"
      /\ \A o \in ToSet(path) : o \in 1..Len(objects)
  <2>1. \A o \in ToSet(path) : o \in 1..Len(objects)
    BY PathFacts
  <2>2. CASE p = 0 /\ path' = path
    BY <2>1, <2>2
  <2>3. CASE p # 0 /\ p = Top /\ objects[p].kind = "polygon" /\ path' = Front(path)
    BY <2>1, <2>3, PoppedPath, PathFacts
  <2>4. QED
    BY <2>2, <2>3 DEF Made
<1>3. /\ \A o : o \in 1..Len(objects') <=> o \in 1..Len(objects) \/ o = Fresh
      /\ Fresh \notin 0..Len(objects) /\ Fresh \notin 1..Len(objects)
      /\ Fresh \notin ToSet(path) /\ Fresh \notin ToSet(path')
      /\ \A o \in 1..Len(objects) : o < Fresh
      /\ 0 \notin 1..Len(objects)
  BY <1>1, <1>2
<1>4. KindOf(h) = "implicit" <=> h # 0 /\ objects[h].kind = "implicit"
  BY DEF KindOf
<1> HIDE DEF Fresh
<1>5. /\ \A w, k, o : o \in Closed(w, k) <=>
           o \in 1..Len(objects) /\ objects[o].kind = k /\ objects[o].within = w /\ o \notin ToSet(path)
      /\ \A w, k, o : o \in Closed(w, k)' <=>
           o \in 1..Len(objects') /\ objects'[o].kind = k /\ objects'[o].within = w /\ o \notin ToSet(path')
  BY DEF Closed, Of
<1>6. Closed(Fresh, "polygon") = {} /\ Closed(Fresh, "geometry") = {}
  <2>1. \A o, k : o \notin Closed(Fresh, k)
    BY <1>1, <1>3, <1>5
  <2>2. QED
    BY <2>1
<1>7. ASSUME NEW w
      PROVE  Closed(w, "polygon")' = IF p # 0 /\ w = Fresh THEN {p} ELSE Closed(w, "polygon")
  <2>1. \A o : o \in Closed(w, "polygon")' =>
                 IF p # 0 /\ w = Fresh THEN o = p ELSE o \in Closed(w, "polygon")
    <3>1. TAKE o
    <3>2. HAVE o \in Closed(w, "polygon")'
    <3>3. o \in 1..Len(objects) /\ objects[o].kind = "polygon" /\ objects'[o].within = w /\ o \notin ToSet(path')
      BY <1>1, <1>3, <1>5, <3>2
    <3>4. CASE o = p
      BY <1>1, <1>3, <3>3, <3>4
    <3>5. CASE o # p
      <4>1. objects[o].within = w /\ w # Fresh /\ o \notin ToSet(path)
        BY <1>1, <1>2, <1>3, <3>3, <3>5
      <4>2. QED
        BY <1>5, <3>3, <4>1
    <3>6. QED
      BY <3>4, <3>5
  <2>2. \A o : o \in Closed(w, "polygon") => o \in Closed(w, "polygon")'
    <3>1. TAKE o
    <3>2. HAVE o \in Closed(w, "polygon")
    <3>3. o # p /\ o \in 1..Len(objects) /\ o \notin ToSet(path')
      BY <1>2, <1>3, <1>5, <3>2
    <3>4. QED
      BY <1>1, <1>3, <1>5, <3>2, <3>3
  <2>3. p # 0 /\ w = Fresh => p \in Closed(w, "polygon")'
    BY <1>1, <1>2, <1>3, <1>5
  <2>4. QED
    BY <2>1, <2>2, <2>3
<1>8. ASSUME NEW w
      PROVE  Closed(w, "geometry")' = IF w = h THEN Closed(w, "geometry") \cup {Fresh}
                                      ELSE Closed(w, "geometry")
  <2>1. \A o \in 1..Len(objects) : objects[o].kind = "geometry" =>
          objects'[o].within = objects[o].within /\ (o \in ToSet(path') <=> o \in ToSet(path))
    BY <1>1, <1>2
  <2>2. \A o : o \in Closed(w, "geometry")' <=> o \in Closed(w, "geometry") \/ (o = Fresh /\ w = h)
    BY <1>1, <1>3, <1>5, <2>1
  <2>3. QED
    BY <2>2
<1>9. \A e : Shared("polygon", e)' = Shared("polygon", e)
  <2>1. TAKE e
  <2>2. \A o : o \in Shared("polygon", e)' <=> o \in Shared("polygon", e)
    BY <1>1, <1>3 DEF Shared, Of
  <2>3. QED
    BY <2>2
<1>10. ASSUME NEW e
       PROVE  ClosedShared(e)' = IF KindOf(h) = "implicit" /\ e = d
                                 THEN ClosedShared(e) \cup {Fresh} ELSE ClosedShared(e)
  <2>1. \A o \in 1..Len(objects) : objects[o].kind = "geometry" =>
          /\ objects'[o].within = objects[o].within
          /\ objects[o].within # 0 => objects'[objects[o].within].kind = objects[objects[o].within].kind
          /\ (o \in ToSet(path') <=> o \in ToSet(path))
    BY <1>1, <1>2
  <2>2. h # 0 => objects'[h].kind = objects[h].kind
    BY <1>1
  <2>4. \A o : o \in ClosedShared(e)' <=>
                 o \in ClosedShared(e) \/ (o = Fresh /\ KindOf(h) = "implicit" /\ e = d)
    <3>1. TAKE o
    <3>2. o \in ClosedShared(e) <=>
            /\ o \in 1..Len(objects) /\ objects[o].kind = "geometry" /\ objects[o].id = e
            /\ objects[o].within # 0 /\ objects[objects[o].within].kind = "implicit"
            /\ o \notin ToSet(path)
      BY SetsAre, Zenon
    <3>3. o \in ClosedShared(e)' <=>
            /\ o \in 1..Len(objects') /\ objects'[o].kind = "geometry" /\ objects'[o].id = e
            /\ objects'[o].within # 0 /\ objects'[objects'[o].within].kind = "implicit"
            /\ o \notin ToSet(path')
      BY SetsAreNext, Zenon
    <3>4. CASE o = Fresh
      <4>1. o \in 1..Len(objects') /\ o \notin 1..Len(objects) /\ o \notin ToSet(path')
        BY <1>3, <3>4
      <4>2. objects'[o].kind = "geometry" /\ objects'[o].id = d /\ objects'[o].within = h
        BY <1>1, <3>4
      <4>3. QED
        BY <1>4, <2>2, <3>2, <3>3, <3>4, <4>1, <4>2, Zenon
    <3>5. CASE o # Fresh
      <4>1. o \in 1..Len(objects') <=> o \in 1..Len(objects)
        BY <1>3, <3>5
      <4>2. CASE o \notin 1..Len(objects)
        BY <3>2, <3>3, <3>5, <4>1, <4>2, Zenon
      <4>3. CASE o \in 1..Len(objects)
        <5>1. objects'[o].kind = objects[o].kind /\ objects'[o].id = objects[o].id
          BY <1>1, <4>3, Zenon
        <5>2. objects[o].kind = "geometry" =>
                /\ objects'[o].within = objects[o].within
                /\ objects[o].within # 0 =>
                     objects'[objects[o].within].kind = objects[objects[o].within].kind
                /\ (o \in ToSet(path') <=> o \in ToSet(path))
          BY <2>1, <4>3, Zenon
        <5>3. QED
          BY <3>2, <3>3, <3>5, <4>1, <5>1, <5>2, Zenon
      <4>4. QED
        BY <4>2, <4>3
    <3>6. QED
      BY <3>4, <3>5
  <2>5. QED
    BY <2>4
<1>11. /\ \A x \in Closed(h, "geometry") : x < Fresh
       /\ \A e : \A x \in ClosedShared(e) : x < Fresh
  BY <1>3, SetsAre
<1>12. QED
  BY <1>6, <1>7, <1>8, <1>9, <1>10, <1>11

-----------------------------------------------------------------------------
(* The steps of the parser.                                                *)
LEMMA OpenOpens ==
  ASSUME PartsOK, NEW kind \in Kind, NEW d \in Id \cup {NoId}, NEW orientation \in {"+", "-"},
         Open(kind, d, orientation),
         kind \in {"geometry", "polygon"} \/ KindOf(Top) \in {"model", "cityobject"}
  PROVE  Opened(kind, d)
<1> DEFINE new == New(kind, d, Top, orientation)
<1>1. Len(objects) \in Nat /\ Top \in Nat
  BY TopAround
<1>2. new \in ObjectType /\ new.kind = kind /\ new.id = d /\ new.within = Top
  BY <1>1 DEF New, ObjectType
<1>3. objects' = Append(objects, new) /\ objects \in Seq(ObjectType) /\ path' = Append(path, Fresh)
  BY DEF Open, PartsOK
<1> HIDE DEF new
<1>4. /\ Len(objects') = Len(objects) + 1
      /\ \A o \in 1..Len(objects) : objects'[o] = objects[o]
      /\ objects'[Len(objects) + 1] = new
  BY <1>2, <1>3, AppendLast
<1>5. QED
  BY <1>2, <1>3, <1>4 DEF Opened, Fresh

LEMMA CloseEnds ==
  ASSUME NEW kind \in Kind, Close(kind), UNCHANGED objects
  PROVE  Ended /\ KindOf(Top) = kind
  BY DEF Close, Ended, Kind, KindOf

LEMMA LineStringMakes ==
  ASSUME PartsOK, NEW d \in Id \cup {NoId}, EndLineString(d)
  PROVE  Made(d, Top, 0)
<1> DEFINE new == New("geometry", d, Top, "+")
<1>1. Len(objects) \in Nat /\ Top \in 0..Len(objects)
  BY TopAround
<1>2. new \in ObjectType /\ new.kind = "geometry" /\ new.id = d /\ new.within = Top
  BY <1>1 DEF New, ObjectType, Kind
<1>3. objects' = Append(objects, new) /\ objects \in Seq(ObjectType) /\ path' = path
  BY DEF EndLineString, PartsOK
<1> HIDE DEF new
<1>4. /\ Len(objects') = Len(objects) + 1
      /\ \A o \in 1..Len(objects) : objects'[o] = objects[o]
      /\ objects'[Len(objects) + 1] = new
  BY <1>2, <1>3, AppendLast
<1>5. \A o \in 1..Len(objects) : o # 0
  BY <1>1
<1>6. QED
  BY <1>1, <1>2, <1>3, <1>4, <1>5 DEF Made, Fresh

LEMMA LonePolygonMakes ==
  ASSUME PartsOK, NEW d \in Id \cup {NoId}, EndLonePolygon(d)
  PROVE  Made(d, Around, Top)
<1> DEFINE inside == [objects EXCEPT ![Top].within = Fresh]
           new    == New("geometry", d, Around, "+")
<1>1. /\ Len(objects) \in Nat /\ Top \in 0..Len(objects) /\ Around \in 0..Len(objects)
      /\ objects \in Seq(ObjectType) /\ Fresh \in Nat
  BY TopAround DEF PartsOK, Fresh
<1>2. Top # 0 /\ objects[Top].kind = "polygon" /\ path' = Front(path)
  BY DEF EndLonePolygon, Close, KindOf
<1>3. Top \in 1..Len(objects) /\ objects[Top] \in ObjectType
  BY <1>1, <1>2, ElementOfSeq
<1>4. objects' = Append(inside, new)
  BY DEF EndLonePolygon
<1> HIDE DEF Top, Around, Fresh
<1>5. /\ inside \in Seq(ObjectType) /\ Len(inside) = Len(objects)
      /\ \A o \in 1..Len(objects) :
           /\ inside[o].kind = objects[o].kind /\ inside[o].id = objects[o].id
           /\ inside[o].within = IF o = Top THEN Fresh ELSE objects[o].within
  <2> DEFINE moved == [objects[Top] EXCEPT !.within = Fresh]
  <2>1. /\ moved \in ObjectType /\ moved.kind = objects[Top].kind /\ moved.id = objects[Top].id
        /\ moved.within = Fresh
    BY <1>1, <1>3 DEF ObjectType
  <2>2. inside = [objects EXCEPT ![Top] = moved]
    OBVIOUS
  <2> HIDE DEF moved, inside
  <2>3. /\ inside \in Seq(ObjectType) /\ Len(inside) = Len(objects)
        /\ \A o \in 1..Len(objects) : inside[o] = IF o = Top THEN moved ELSE objects[o]
    BY <1>1, <1>3, <2>1, <2>2, ExceptSeq
  <2>4. QED
    BY <2>1, <2>3
<1>6. new \in ObjectType /\ new.kind = "geometry" /\ new.id = d /\ new.within = Around
  BY <1>1 DEF New, ObjectType, Kind
<1> HIDE DEF inside, new
<1>7. /\ Len(objects') = Len(objects) + 1
      /\ \A o \in 1..Len(objects) : objects'[o] = inside[o]
      /\ objects'[Len(objects) + 1] = new
  BY <1>4, <1>5, <1>6, AppendLast
<1>8. QED
  BY <1>1, <1>2, <1>5, <1>6, <1>7 DEF Made, Fresh

(* What joins a list joins the set.                                        *)
LEMMA AddPartLists ==
  ASSUME NEW f \in [0..MaxObjects -> Seq(Nat)], NEW w \in 0..MaxObjects, NEW e \in Nat,
         NEW S, Lists(f[w], S), \A x \in S : x < e
  PROVE  /\ Lists(AddPart(f, w, e)[w], S \cup {e})
         /\ \A h \in 0..MaxObjects : h # w => AddPart(f, w, e)[h] = f[h]
<1>1. AddPart(f, w, e)[w] = Append(f[w], e)
  BY DEF AddPart
<1>2. f[w] \in Seq(Nat)
  OBVIOUS
<1>3. Lists(Append(f[w], e), S \cup {e})
  BY <1>2, ListsJoin
<1>4. QED
  BY <1>1, <1>3 DEF AddPart

LEMMA LastJoins ==
  ASSUME NEW t, NEW S, IsLast(t, S), NEW e \in Nat, \A x \in S : x < e /\ x \in Nat
  PROVE  IsLast(e, S \cup {e})
  BY DEF IsLast

LEMMA ListsTyped ==
  ASSUME TypeInv
  PROVE  /\ polygons \in [0..MaxObjects -> Seq(Nat)] /\ geometries \in [0..MaxObjects -> Seq(Nat)]
         /\ PartsOK /\ MaxObjects \in Nat /\ Len(objects) <= MaxObjects /\ Len(objects) \in Nat
         /\ sharedPolygons \in [Id -> Nat] /\ sharedGeometries \in [Id -> Nat]
         /\ polygonRequests \in Seq(Request) /\ geometryRequests \in Seq(Request)
<1>1. PartsOK /\ PartsTyped /\ ManagersTyped /\ MaxObjects \in Nat /\ Len(objects) <= MaxObjects
  BY FactoryAssumption DEF TypeInv, BuildInv, PartsOK
<1>2. \A k : Of(k) \subseteq Nat
  BY <1>1, TopAround DEF Of
<1>3. Of("geometry") \subseteq Nat /\ Of("polygon") \subseteq Nat
  BY <1>2
<1>4. polygons \in [0..MaxObjects -> Seq(Nat)] /\ geometries \in [0..MaxObjects -> Seq(Nat)]
  BY <1>1, <1>3, HoldersMonotone DEF PartsTyped
<1>5. sharedPolygons \in [Id -> Nat] /\ sharedGeometries \in [Id -> Nat]
  BY <1>1, <1>3 DEF ManagersTyped
<1>6. /\ [target : Of("geometry"), id : Id] \subseteq Request
      /\ [target : Of("implicit"), id : Id] \subseteq Request
  BY <1>2 DEF Request
<1>7. polygonRequests \in Seq(Request) /\ geometryRequests \in Seq(Request)
  BY <1>1, <1>6, SeqMonotone DEF ManagersTyped
<1>8. QED
  BY <1>1, <1>4, <1>5, <1>7, TopAround

(* The parts of the invariant that do not concern links.                   *)
Growing == Nested /\ ClosedListed /\ LastShared

LEMMA OpenKeeps ==
  ASSUME TypeInv, TreeInv, Growing, NEW kind, NEW d \in Id \cup {NoId}, Opened(kind, d),
         UNCHANGED <<polygons, geometries, sharedGeometries>>,
         sharedPolygons' = IF kind # "polygon" \/ d = NoId THEN sharedPolygons
                           ELSE [sharedPolygons EXCEPT ![d] = Fresh]
  PROVE  Growing'
<1>1. PartsOK /\ PathOrdered /\ Nested /\ sharedPolygons \in [Id -> Nat] /\ Len(objects) \in Nat
  BY ListsTyped DEF TreeInv, Growing
<1>2. /\ \A h, k : Closed(h, k)' = Closed(h, k)
      /\ \A e : Shared("polygon", e)' = IF kind = "polygon" /\ e = d
                                        THEN Shared("polygon", e) \cup {Fresh}
                                        ELSE Shared("polygon", e)
      /\ \A e : ClosedShared(e)' = ClosedShared(e)
  BY <1>1, OpenedSets
<1>3. Nested'
  BY <1>1, OpenedNests
<1>4. ClosedListed'
  BY <1>2 DEF ClosedListed, Growing
<1>5. ASSUME NEW e \in Id
      PROVE  IsLast(sharedPolygons'[e], Shared("polygon", e)') /\ IsLast(sharedGeometries'[e], ClosedShared(e)')
  <2>1. IsLast(sharedPolygons[e], Shared("polygon", e)) /\ IsLast(sharedGeometries[e], ClosedShared(e))
    BY DEF Growing, LastShared
  <2>2. CASE kind = "polygon" /\ e = d
    <3>1. sharedPolygons'[e] = Fresh
      BY <1>1, <2>2, FactoryAssumption
    <3>2. \A x \in Shared("polygon", e) : x < Fresh /\ x \in Nat
      BY <1>1, SetsAre DEF Fresh
    <3>3. IsLast(Fresh, Shared("polygon", e) \cup {Fresh})
      BY <1>1, <2>1, <3>2, LastJoins DEF Fresh
    <3>4. QED
      BY <1>2, <2>1, <2>2, <3>1, <3>3
  <2>3. CASE ~(kind = "polygon" /\ e = d)
    <3>1. sharedPolygons'[e] = sharedPolygons[e]
      BY <1>1, <2>3
    <3>2. QED
      BY <1>2, <2>1, <2>3, <3>1
  <2>4. QED
    BY <2>2, <2>3
<1>6. LastShared'
  BY <1>5 DEF LastShared
<1>7. QED
  BY <1>3, <1>4, <1>6 DEF Growing

LEMMA EndKeeps ==
  ASSUME TypeInv, TreeInv, Growing, Ended, UNCHANGED sharedPolygons,
         polygons' = IF KindOf(Top) = "polygon" THEN AddPart(polygons, Around, Top) ELSE polygons,
         geometries' = IF KindOf(Top) = "geometry" THEN AddPart(geometries, Around, Top) ELSE geometries,
         sharedGeometries' =
           IF KindOf(Top) = "geometry" /\ KindOf(Around) = "implicit" /\ objects[Top].id # NoId
           THEN [sharedGeometries EXCEPT ![objects[Top].id] = Top] ELSE sharedGeometries
  PROVE  Growing'
<1>1. /\ PartsOK /\ PathOrdered /\ Nested /\ Len(objects) \in Nat
      /\ polygons \in [0..MaxObjects -> Seq(Nat)] /\ geometries \in [0..MaxObjects -> Seq(Nat)]
      /\ sharedGeometries \in [Id -> Nat] /\ MaxObjects \in Nat /\ Len(objects) <= MaxObjects
  BY ListsTyped DEF TreeInv, Growing
<1>2. /\ \A h, k : Closed(h, k)' = IF h = Around /\ k = KindOf(Top) THEN Closed(h, k) \cup {Top}
                                   ELSE Closed(h, k)
      /\ \A k : \A x \in Closed(Around, k) : x < Top
      /\ \A e : Shared("polygon", e)' = Shared("polygon", e)
      /\ \A e : ClosedShared(e)' = IF /\ KindOf(Top) = "geometry" /\ KindOf(Around) = "implicit"
                                      /\ e = objects[Top].id
                                   THEN ClosedShared(e) \cup {Top} ELSE ClosedShared(e)
      /\ KindOf(Top) = "geometry" => \A e : \A x \in ClosedShared(e) : x < Top
  BY <1>1, EndedSets
<1>3. Nested'
  BY <1>1, EndedNests
<1>4. Around \in 0..MaxObjects /\ Top \in Nat /\ Top \in 0..Len(objects)
  BY <1>1, PathFacts
<1> HIDE DEF Top, Around
<1>5. ASSUME NEW h \in 0..MaxObjects
      PROVE  /\ Lists(polygons'[h], Closed(h, "polygon")')
             /\ Lists(geometries'[h], Closed(h, "geometry")')
  <2>1. Lists(polygons[h], Closed(h, "polygon")) /\ Lists(geometries[h], Closed(h, "geometry"))
    BY DEF Growing, ClosedListed
  <2>2. Lists(polygons'[h], Closed(h, "polygon")')
    <3>1. CASE KindOf(Top) = "polygon"
      <4>1. /\ Lists(AddPart(polygons, Around, Top)[Around], Closed(Around, "polygon") \cup {Top})
            /\ h # Around => AddPart(polygons, Around, Top)[h] = polygons[h]
        <5>1. Lists(polygons[Around], Closed(Around, "polygon"))
          BY <1>4 DEF Growing, ClosedListed
        <5>2. \A x \in Closed(Around, "polygon") : x < Top
          BY <1>2
        <5>3. QED
          BY <1>1, <1>4, <5>1, <5>2, AddPartLists
      <4>2. QED
        BY <1>2, <2>1, <3>1, <4>1
    <3>2. CASE KindOf(Top) # "polygon"
      BY <1>2, <2>1, <3>2
    <3>3. QED
      BY <3>1, <3>2
  <2>3. Lists(geometries'[h], Closed(h, "geometry")')
    <3>1. CASE KindOf(Top) = "geometry"
      <4>1. /\ Lists(AddPart(geometries, Around, Top)[Around], Closed(Around, "geometry") \cup {Top})
            /\ h # Around => AddPart(geometries, Around, Top)[h] = geometries[h]
        <5>1. Lists(geometries[Around], Closed(Around, "geometry"))
          BY <1>4 DEF Growing, ClosedListed
        <5>2. \A x \in Closed(Around, "geometry") : x < Top
          BY <1>2
        <5>3. QED
          BY <1>1, <1>4, <5>1, <5>2, AddPartLists
      <4>2. QED
        BY <1>2, <2>1, <3>1, <4>1
    <3>2. CASE KindOf(Top) # "geometry"
      BY <1>2, <2>1, <3>2
    <3>3. QED
      BY <3>1, <3>2
  <2>4. QED
    BY <2>2, <2>3
<1>6. ClosedListed'
  BY <1>5 DEF ClosedListed
<1>7. ASSUME NEW e \in Id
      PROVE  IsLast(sharedPolygons'[e], Shared("polygon", e)') /\ IsLast(sharedGeometries'[e], ClosedShared(e)')
  <2>1. IsLast(sharedPolygons[e], Shared("polygon", e)) /\ IsLast(sharedGeometries[e], ClosedShared(e))
    BY DEF Growing, LastShared
  <2>2. CASE KindOf(Top) = "geometry" /\ KindOf(Around) = "implicit" /\ e = objects[Top].id
    <3>1. sharedGeometries'[e] = Top
      BY <1>1, <2>2, FactoryAssumption
    <3>2. \A x \in ClosedShared(e) : x < Top /\ x \in Nat
      BY <1>1, <1>2, <2>2, SetsAre
    <3>3. IsLast(Top, ClosedShared(e) \cup {Top})
      BY <1>4, <2>1, <3>2, LastJoins
    <3>4. QED
      BY <1>2, <2>1, <2>2, <3>1, <3>3
  <2>3. CASE ~(KindOf(Top) = "geometry" /\ KindOf(Around) = "implicit" /\ e = objects[Top].id)
    <3>1. sharedGeometries'[e] = sharedGeometries[e]
      BY <1>1, <2>3
    <3>2. QED
      BY <1>2, <2>1, <2>3, <3>1
  <2>4. QED
    BY <2>2, <2>3
<1>8. LastShared'
  BY <1>7 DEF LastShared
<1>9. QED
  BY <1>3, <1>6, <1>8 DEF Growing

LEMMA MadeKeeps ==
  ASSUME TypeInv, TreeInv, Growing, NEW d \in Id \cup {NoId}, NEW h, NEW p, Made(d, h, p),
         Fresh \in 0..MaxObjects, UNCHANGED sharedPolygons,
         polygons' = IF p # 0 THEN AddPart(polygons, Fresh, p) ELSE polygons,
         geometries' = AddPart(geometries, h, Fresh),
         sharedGeometries' = IF KindOf(h) = "implicit" /\ d # NoId
                             THEN [sharedGeometries EXCEPT ![d] = Fresh] ELSE sharedGeometries
  PROVE  Growing'
<1>1. /\ PartsOK /\ PathOrdered /\ Nested /\ Len(objects) \in Nat
      /\ polygons \in [0..MaxObjects -> Seq(Nat)] /\ geometries \in [0..MaxObjects -> Seq(Nat)]
      /\ sharedGeometries \in [Id -> Nat] /\ MaxObjects \in Nat /\ Len(objects) <= MaxObjects
  BY ListsTyped DEF TreeInv, Growing
<1>2. /\ \A w : Closed(w, "polygon")' = IF p # 0 /\ w = Fresh THEN {p} ELSE Closed(w, "polygon")
      /\ Closed(Fresh, "polygon") = {} /\ Closed(Fresh, "geometry") = {}
      /\ \A w : Closed(w, "geometry")' = IF w = h THEN Closed(w, "geometry") \cup {Fresh}
                                         ELSE Closed(w, "geometry")
      /\ \A x \in Closed(h, "geometry") : x < Fresh
      /\ \A e : Shared("polygon", e)' = Shared("polygon", e)
      /\ \A e : ClosedShared(e)' = IF KindOf(h) = "implicit" /\ e = d
                                   THEN ClosedShared(e) \cup {Fresh} ELSE ClosedShared(e)
      /\ \A e : \A x \in ClosedShared(e) : x < Fresh
  BY <1>1, MadeSets
<1>3. Nested'
  BY <1>1, MadeNests
<1>4. h \in 0..MaxObjects /\ p \in Nat /\ Fresh \in Nat /\ Fresh \in 0..MaxObjects
  <2>1. Top \in Nat
    BY <1>1, TopAround
  <2>2. h \in 0..Len(objects) /\ (p = 0 \/ p = Top)
    BY DEF Made
  <2> HIDE DEF Top
  <2>3. QED
    BY <1>1, <2>1, <2>2 DEF Fresh
<1> HIDE DEF Fresh
<1>5. ASSUME NEW w \in 0..MaxObjects
      PROVE  /\ Lists(polygons'[w], Closed(w, "polygon")')
             /\ Lists(geometries'[w], Closed(w, "geometry")')
  <2>1. Lists(polygons[w], Closed(w, "polygon")) /\ Lists(geometries[w], Closed(w, "geometry"))
    BY DEF Growing, ClosedListed
  <2>2. Lists(polygons'[w], Closed(w, "polygon")')
    <3>1. CASE p # 0
      <4>1. /\ Lists(AddPart(polygons, Fresh, p)[Fresh], {} \cup {p})
            /\ w # Fresh => AddPart(polygons, Fresh, p)[w] = polygons[w]
        <5>1. Lists(polygons[Fresh], {})
          BY <1>2 DEF Growing, ClosedListed
        <5> DEFINE S == {}
        <5>2. Lists(polygons[Fresh], S) /\ \A x \in S : x < p
          BY <5>1
        <5> HIDE DEF S
        <5>3. /\ Lists(AddPart(polygons, Fresh, p)[Fresh], S \cup {p})
              /\ \A i \in 0..MaxObjects : i # Fresh => AddPart(polygons, Fresh, p)[i] = polygons[i]
          BY <1>1, <1>4, <5>2, AddPartLists
        <5>4. QED
          BY <1>5, <5>3 DEF S
      <4>2. {} \cup {p} = {p}
        OBVIOUS
      <4>3. QED
        BY <1>2, <2>1, <3>1, <4>1, <4>2
    <3>2. CASE p = 0
      BY <1>2, <2>1, <3>2
    <3>3. QED
      BY <3>1, <3>2
  <2>3. Lists(geometries'[w], Closed(w, "geometry")')
    <3>1. /\ Lists(AddPart(geometries, h, Fresh)[h], Closed(h, "geometry") \cup {Fresh})
          /\ w # h => AddPart(geometries, h, Fresh)[w] = geometries[w]
      <4>1. Lists(geometries[h], Closed(h, "geometry"))
        BY <1>4 DEF Growing, ClosedListed
      <4> DEFINE S == Closed(h, "geometry")
      <4>2. Lists(geometries[h], S) /\ \A x \in S : x < Fresh
        BY <1>2, <4>1
      <4> HIDE DEF S
      <4>3. /\ Lists(AddPart(geometries, h, Fresh)[h], S \cup {Fresh})
            /\ \A i \in 0..MaxObjects : i # h => AddPart(geometries, h, Fresh)[i] = geometries[i]
        BY <1>1, <1>4, <4>2, AddPartLists
      <4>4. QED
        BY <1>5, <4>3 DEF S
    <3>2. QED
      BY <1>2, <2>1, <3>1
  <2>4. QED
    BY <2>2, <2>3
<1>6. ClosedListed'
  BY <1>5 DEF ClosedListed
<1>7. ASSUME NEW e \in Id
      PROVE  IsLast(sharedPolygons'[e], Shared("polygon", e)') /\ IsLast(sharedGeometries'[e], ClosedShared(e)')
  <2>1. IsLast(sharedPolygons[e], Shared("polygon", e)) /\ IsLast(sharedGeometries[e], ClosedShared(e))
    BY DEF Growing, LastShared
  <2>2. CASE KindOf(h) = "implicit" /\ e = d
    <3>1. sharedGeometries'[e] = Fresh
      BY <1>1, <2>2, FactoryAssumption
    <3>2. \A x \in ClosedShared(e) : x < Fresh /\ x \in Nat
      BY <1>1, <1>2, SetsAre
    <3>3. IsLast(Fresh, ClosedShared(e) \cup {Fresh})
      BY <1>4, <2>1, <3>2, LastJoins
    <3>4. QED
      BY <1>2, <2>1, <2>2, <3>1, <3>3
  <2>3. CASE ~(KindOf(h) = "implicit" /\ e = d)
    <3>1. sharedGeometries'[e] = sharedGeometries[e]
      BY <1>1, <2>3
    <3>2. QED
      BY <1>2, <2>1, <2>3, <3>1
  <2>4. QED
    BY <2>2, <2>3
<1>8. LastShared'
  BY <1>7 DEF LastShared
<1>9. QED
  BY <1>3, <1>6, <1>8 DEF Growing

LEMMA StartGrows ==
  ASSUME TypeInv, TreeInv, Growing,
         \/ StartCityObject
         \/ StartImplicitGeometry
         \/ \E d \in Id \cup {NoId}, s \in Orientation : StartGeometry(d, s)
         \/ \E d \in Id \cup {NoId} : StartPolygon(d)
  PROVE  Growing'
<1>1. PartsOK
  BY ListsTyped
<1>2. ASSUME NEW kind \in {"cityobject", "implicit"}, Open(kind, NoId, "+"),
             KindOf(Top) \in {"model", "cityobject"}, UNCHANGED polygonManager
      PROVE  Growing'
  <2>1. Opened(kind, NoId)
    BY <1>1, <1>2, OpenOpens DEF Kind
  <2>2. UNCHANGED <<polygons, geometries, sharedGeometries, sharedPolygons>>
    BY <1>2 DEF Open, model, geometryManager, polygonManager
  <2>3. QED
    BY <1>2, <2>1, <2>2, OpenKeeps
<1>3. CASE StartCityObject \/ StartImplicitGeometry
  <2>1. UNCHANGED polygonManager /\ KindOf(Top) \in {"model", "cityobject"}
    BY <1>3 DEF StartCityObject, StartImplicitGeometry
  <2>2. Open("cityobject", NoId, "+") \/ Open("implicit", NoId, "+")
    BY <1>3 DEF StartCityObject, StartImplicitGeometry
  <2>3. QED
    BY <1>2, <2>1, <2>2
<1>4. ASSUME NEW d \in Id \cup {NoId}, NEW s \in Orientation, StartGeometry(d, s)
      PROVE  Growing'
  <2>1. Open("geometry", d, s) /\ s \in {"+", "-"} /\ UNCHANGED polygonManager
    BY <1>4, FactoryAssumption DEF StartGeometry
  <2>2. Opened("geometry", d)
    BY <1>1, <2>1, OpenOpens DEF Kind
  <2>3. UNCHANGED <<polygons, geometries, sharedGeometries, sharedPolygons>>
    BY <2>1 DEF Open, model, geometryManager, polygonManager
  <2>4. QED
    BY <2>2, <2>3, OpenKeeps
<1>5. ASSUME NEW d \in Id \cup {NoId}, StartPolygon(d)
      PROVE  Growing'
  <2>1. Open("polygon", d, "+") /\ Polygons!Add(d, Fresh)
    BY <1>5 DEF StartPolygon
  <2>2. Opened("polygon", d)
    BY <1>1, <2>1, OpenOpens DEF Kind
  <2>3. UNCHANGED <<polygons, geometries, sharedGeometries>>
    BY <2>1 DEF Open, model, geometryManager
  <2>4. sharedPolygons' = IF d = NoId THEN sharedPolygons ELSE [sharedPolygons EXCEPT ![d] = Fresh]
    BY <2>1 DEF Polygons!Add
  <2>5. QED
    BY <2>2, <2>3, <2>4, OpenKeeps
<1>6. QED
  BY <1>3, <1>4, <1>5

LEMMA AddGeometryDoes ==
  ASSUME NEW g, NEW d, NEW h, AddGeometry(g, d, h)
  PROVE  /\ geometries' = AddPart(geometries, h, g)
         /\ sharedGeometries' = IF KindOf(h) = "implicit" /\ d # NoId
                                THEN [sharedGeometries EXCEPT ![d] = g] ELSE sharedGeometries
         /\ UNCHANGED geometryRequests
  BY DEF AddGeometry, Geometries!Add, geometryManager

LEMMA EndGrows ==
  ASSUME TypeInv, TreeInv, Growing, EndCityObject \/ EndImplicitGeometry \/ EndGeometry \/ EndPolygon
  PROVE  Growing'
<1>1. CASE EndCityObject \/ EndImplicitGeometry
  <2>1. PICK kind \in {"cityobject", "implicit"} : Close(kind)
    BY <1>1 DEF EndCityObject, EndImplicitGeometry
  <2>2. UNCHANGED <<objects, polygons, geometries, sharedGeometries, sharedPolygons>>
    BY <1>1 DEF EndCityObject, EndImplicitGeometry, Close, geometryManager, polygonManager
  <2>3. Ended /\ KindOf(Top) = kind
    BY <2>1, <2>2, CloseEnds DEF Kind
  <2>4. KindOf(Top) # "polygon" /\ KindOf(Top) # "geometry"
    BY <2>3
  <2>5. QED
    BY <2>2, <2>3, <2>4, EndKeeps
<1>2. CASE EndGeometry
  <2>1. Close("geometry") /\ UNCHANGED <<objects, polygons, sharedPolygons>>
    BY <1>2 DEF EndGeometry, Close, polygonManager
  <2>2. Ended /\ KindOf(Top) = "geometry"
    BY <2>1, CloseEnds DEF Kind
  <2>3. AddGeometry(Top, objects[Top].id, Around)
    BY <1>2 DEF EndGeometry
  <2> HIDE DEF Top, Around
  <2>4. /\ geometries' = AddPart(geometries, Around, Top)
        /\ sharedGeometries' = IF KindOf(Around) = "implicit" /\ objects[Top].id # NoId
                               THEN [sharedGeometries EXCEPT ![objects[Top].id] = Top]
                               ELSE sharedGeometries
    BY <2>3, AddGeometryDoes
  <2>5. QED
    BY <2>1, <2>2, <2>4, EndKeeps
<1>3. CASE EndPolygon
  <2>1. /\ Close("polygon") /\ UNCHANGED <<objects, geometries, sharedGeometries, sharedPolygons>>
        /\ polygons' = AddPart(polygons, Around, Top)
    BY <1>3 DEF EndPolygon, Close, polygonManager, geometryManager
  <2>2. Ended /\ KindOf(Top) = "polygon"
    BY <2>1, CloseEnds DEF Kind
  <2> HIDE DEF Top, Around
  <2>3. QED
    BY <2>1, <2>2, EndKeeps
<1>4. QED
  BY <1>1, <1>2, <1>3

LEMMA MadeGrows ==
  ASSUME TypeInv, TreeInv, Growing, NEW d \in Id \cup {NoId}, EndLonePolygon(d) \/ EndLineString(d)
  PROVE  Growing'
<1>1. PartsOK /\ BuildInv /\ PartsTyped
  BY ListsTyped DEF TypeInv
<1>2. CASE EndLonePolygon(d)
  <2>1. Made(d, Around, Top) /\ Fresh \in 0..MaxObjects
    BY <1>1, <1>2, LonePolygonMakes, EndLonePolygonCreates
  <2>2. AddGeometry(Fresh, d, Around) /\ polygons' = AddPart(polygons, Fresh, Top)
        /\ UNCHANGED sharedPolygons /\ Top # 0
    BY <1>2 DEF EndLonePolygon, Close, polygonManager, KindOf
  <2> HIDE DEF Top, Around, Fresh
  <2>3. /\ geometries' = AddPart(geometries, Around, Fresh)
        /\ sharedGeometries' = IF KindOf(Around) = "implicit" /\ d # NoId
                               THEN [sharedGeometries EXCEPT ![d] = Fresh] ELSE sharedGeometries
    BY <2>2, AddGeometryDoes
  <2>4. QED
    BY <2>1, <2>2, <2>3, MadeKeeps
<1>3. CASE EndLineString(d)
  <2>1. Made(d, Top, 0) /\ Fresh \in 0..MaxObjects
    <3>1. Made(d, Top, 0)
      BY <1>1, <1>3, LineStringMakes
    <3>2. Len(objects) < MaxObjects /\ Len(objects) \in Nat /\ MaxObjects \in Nat
      BY <1>3, ListsTyped DEF EndLineString
    <3>3. QED
      BY <3>1, <3>2 DEF Fresh
  <2>2. AddGeometry(Fresh, d, Top) /\ UNCHANGED <<polygons, sharedPolygons>>
    BY <1>3 DEF EndLineString, polygonManager
  <2> HIDE DEF Top, Fresh
  <2>3. /\ geometries' = AddPart(geometries, Top, Fresh)
        /\ sharedGeometries' = IF KindOf(Top) = "implicit" /\ d # NoId
                               THEN [sharedGeometries EXCEPT ![d] = Fresh] ELSE sharedGeometries
    BY <2>2, AddGeometryDoes
  <2>4. QED
    BY <2>1, <2>2, <2>3, MadeKeeps
<1>4. QED
  BY <1>2, <1>3

LEMMA GrowingStays ==
  ASSUME Growing, UNCHANGED <<objects, path, polygons, geometries, sharedPolygons, sharedGeometries>>
  PROVE  Growing'
  BY DEF Growing, Nested, ClosedListed, Closed, LastShared, ClosedShared, Shared, Of, KindOf

LEMMA ParseGrows ==
  ASSUME TypeInv, TreeInv, Growing, Parse
  PROVE  Growing'
<1>1. CASE \E d \in Id : LinkPolygon(d) \/ LinkGeometry(d)
  <2>1. UNCHANGED <<objects, path, polygons, geometries, sharedPolygons, sharedGeometries>>
    BY <1>1 DEF LinkPolygon, LinkGeometry, Link, Polygons!Request, Geometries!Request,
       polygonManager, geometryManager
  <2>2. QED
    BY <2>1, GrowingStays
<1>2. CASE ParseAppearances
  <2>1. InAppearance
    BY <1>2 DEF ParseAppearances, StartAppearance, LinkSurfaceData, StartSurfaceData, Target,
       EndSurfaceData, EndAppearance
  <2>2. UNCHANGED <<objects, path, polygons, geometries, sharedPolygons, sharedGeometries>>
    BY <2>1 DEF InAppearance, model, polygonManager, geometryManager
  <2>3. QED
    BY <2>2, GrowingStays
<1>3. CASE \/ StartCityObject
           \/ StartImplicitGeometry
           \/ \E d \in Id \cup {NoId}, s \in Orientation : StartGeometry(d, s)
           \/ \E d \in Id \cup {NoId} : StartPolygon(d)
  BY <1>3, StartGrows
<1>4. CASE EndCityObject \/ EndImplicitGeometry \/ EndGeometry \/ EndPolygon
  BY <1>4, EndGrows
<1>5. CASE \E d \in Id \cup {NoId} : EndLonePolygon(d) \/ EndLineString(d)
  BY <1>5, MadeGrows
<1>6. QED
  BY <1>1, <1>2, <1>3, <1>4, <1>5 DEF Parse, ParseAppearances

(* Links and requests.                                                     *)
LEMMA SameGiven ==
  ASSUME NEW q \in Seq(Request), NEW l \in Seq(Request), NEW r \in Request, NEW h,
         NEW f \in [Id -> Nat], Gives(q, h, f) = Gives(l, h, f)
  PROVE  /\ Gives(Append(q, r), h, f) = Gives(Append(l, r), h, f)
         /\ h # r.target => Gives(q, h, f) = Gives(Append(l, r), h, f)
<1>1. /\ Gives(Append(q, r), h, f) = Gives(q, h, f) \o GivesOne(r, h, f)
      /\ Gives(Append(l, r), h, f) = Gives(l, h, f) \o GivesOne(r, h, f)
      /\ Gives(l, h, f) \in Seq(Nat)
  BY GivesAppend
<1>2. h # r.target => GivesOne(r, h, f) = <<>>
  BY DEF GivesOne
<1>3. Gives(l, h, f) \o <<>> = Gives(l, h, f)
  BY <1>1, ConcatEmptySeq
<1>4. QED
  BY <1>1, <1>2, <1>3

LEMMA LinkLinks ==
  ASSUME TypeInv, RequestsLinked, NEW d \in Id, LinkPolygon(d) \/ LinkGeometry(d)
  PROVE  RequestsLinked'
<1> DEFINE r == [target |-> Top, id |-> d]
<1>1. /\ polygonRequests \in Seq(Request) /\ geometryRequests \in Seq(Request)
      /\ links \in Seq(Request) /\ PartsOK
  BY ListsTyped DEF RequestsLinked
<1>2. Top \in 0..Len(objects) /\ Len(objects) \in Nat
  BY <1>1, TopAround
<1>3. r \in Request /\ r.target = Top
  BY <1>2 DEF Request
<1>4. links' = Append(links, r) /\ UNCHANGED objects
  BY DEF LinkPolygon, LinkGeometry, Link
<1>5. \A k : Of(k)' = Of(k)
  BY <1>4 DEF Of
<1>6. /\ LinkPolygon(d) => polygonRequests' = Append(polygonRequests, r) /\ UNCHANGED geometryRequests
      /\ LinkGeometry(d) => geometryRequests' = Append(geometryRequests, r) /\ UNCHANGED polygonRequests
  BY DEF LinkPolygon, LinkGeometry, Polygons!Request, Geometries!Request, polygonManager, geometryManager
<1>7. /\ LinkPolygon(d) => Top \in Of("geometry") /\ Top \notin Of("implicit")
      /\ LinkGeometry(d) => Top \in Of("implicit") /\ Top \notin Of("geometry")
  BY <1>2 DEF LinkPolygon, LinkGeometry, KindOf, Of
<1> HIDE DEF r, Top
<1>8. Append(links, r) \in Seq(Request)
  BY <1>1, <1>3, AppendProperties
<1>9. ASSUME NEW f \in [Id -> Nat], NEW h \in Nat
      PROVE  /\ h \notin Of("implicit") => Gives(polygonRequests', h, f) = Gives(links', h, f)
             /\ h \notin Of("geometry") => Gives(geometryRequests', h, f) = Gives(links', h, f)
  <2>1. /\ h \notin Of("implicit") => Gives(polygonRequests, h, f) = Gives(links, h, f)
        /\ h \notin Of("geometry") => Gives(geometryRequests, h, f) = Gives(links, h, f)
    BY DEF RequestsLinked
  <2>2. h \notin Of("implicit") =>
          /\ Gives(Append(polygonRequests, r), h, f) = Gives(Append(links, r), h, f)
          /\ h # Top => Gives(polygonRequests, h, f) = Gives(Append(links, r), h, f)
    BY <1>1, <1>3, <2>1, SameGiven
  <2>3. h \notin Of("geometry") =>
          /\ Gives(Append(geometryRequests, r), h, f) = Gives(Append(links, r), h, f)
          /\ h # Top => Gives(geometryRequests, h, f) = Gives(Append(links, r), h, f)
    BY <1>1, <1>3, <2>1, SameGiven
  <2>4. QED
    BY <1>4, <1>6, <1>7, <2>2, <2>3, Zenon
<1>10. \A f \in [Id -> Nat], h \in Nat :
         /\ h \notin Of("implicit")' => Gives(polygonRequests', h, f) = Gives(links', h, f)
         /\ h \notin Of("geometry")' => Gives(geometryRequests', h, f) = Gives(links', h, f)
  BY <1>5, <1>9
<1>11. links' \in Seq(Request)
  BY <1>4, <1>8
<1>12. QED
  BY <1>10, <1>11 DEF RequestsLinked

LEMMA LinksStay ==
  ASSUME RequestsLinked, UNCHANGED <<links, polygonRequests, geometryRequests>>,
         \A k : Of(k) \subseteq Of(k)'
  PROVE  RequestsLinked'
<1>1. /\ links \in Seq(Request)
      /\ \A f \in [Id -> Nat], h \in Nat :
           /\ h \notin Of("implicit") => Gives(polygonRequests, h, f) = Gives(links, h, f)
           /\ h \notin Of("geometry") => Gives(geometryRequests, h, f) = Gives(links, h, f)
  BY DEF RequestsLinked
<1>2. Of("implicit") \subseteq Of("implicit")' /\ Of("geometry") \subseteq Of("geometry")'
  OBVIOUS
<1>3. /\ links' \in Seq(Request)
      /\ \A f \in [Id -> Nat], h \in Nat :
           /\ h \notin Of("implicit")' => Gives(polygonRequests', h, f) = Gives(links', h, f)
           /\ h \notin Of("geometry")' => Gives(geometryRequests', h, f) = Gives(links', h, f)
  <2>1. links' = links /\ polygonRequests' = polygonRequests /\ geometryRequests' = geometryRequests
    OBVIOUS
  <2>2. QED
    BY <1>1, <1>2, <2>1
<1>4. QED
  BY <1>3 DEF RequestsLinked

LEMMA ParseLinks ==
  ASSUME TypeInv, RequestsLinked, Parse
  PROVE  RequestsLinked'
<1>1. CASE \E d \in Id : LinkPolygon(d) \/ LinkGeometry(d)
  BY <1>1, LinkLinks
<1>2. CASE ~\E d \in Id : LinkPolygon(d) \/ LinkGeometry(d)
  <2>1. UNCHANGED <<links, polygonRequests, geometryRequests>>
    BY <1>2 DEF Parse, StartCityObject, StartImplicitGeometry, StartGeometry, StartPolygon, Open,
       EndCityObject, EndImplicitGeometry, EndGeometry, EndPolygon, EndLonePolygon, EndLineString,
       Close, AddGeometry, Polygons!Add, Geometries!Add, StartAppearance, LinkSurfaceData,
       StartSurfaceData, Target, EndSurfaceData, EndAppearance, InAppearance, polygonManager,
       geometryManager
  <2>2. BuildInv /\ PartsTyped
    BY DEF TypeInv
  <2>3. \A k : Of(k) \subseteq Of(k)'
    <3>1. UNCHANGED objects \/ \E kind, e : Creates(kind, e)
      BY <2>2, ParseKeepsKinds
    <3>2. CASE UNCHANGED objects
      BY <3>2 DEF Of
    <3>3. QED
      BY <2>2, <3>1, <3>2, CreatesOf
  <2>4. QED
    BY <2>1, <2>3, LinksStay
<1>3. QED
  BY <1>1, <1>2

-----------------------------------------------------------------------------
(* When a document ends, everything is closed.                             *)
LEMMA OwnIs ==
  ASSUME Len(objects) \in Nat, path = <<>>, NEW h, NEW kind,
         NEW s \in Seq(1..Len(objects)), Lists(s, Closed(h, kind))
  PROVE  OwnParts(h, kind) = s
<1> DEFINE S == Closed(h, kind)
           n == Len(objects)
<1>1. ToSet(path) = {}
  BY DEF ToSet
<1>2. \A o \in 1..n : o \in S <=> o \in Of(kind) /\ objects[o].within = h
  BY <1>1 DEF Closed
<1>3. OwnParts(h, kind) = InOrder(S, n)
  <2>1. [o \in 1..n |-> IF o \in Of(kind) /\ objects[o].within = h THEN <<o>> ELSE <<>>] =
          [o \in 1..n |-> IF o \in S THEN <<o>> ELSE <<>>]
    BY <1>2
  <2>2. QED
    BY <2>1 DEF OwnParts, InOrder
<1> HIDE DEF S, n
<1>4. n \in Nat /\ s \in Seq(1..n) /\ Ordered(s) /\ \A o \in 1..n : o \in S <=> o \in ToSet(s)
  BY DEF n, S, Lists
<1>5. InOrder(S, n) = s
  BY <1>4, OrderedIs
<1>6. QED
  BY <1>3, <1>5

LEMMA LinkedIs ==
  ASSUME NEW h, NEW kind, NEW f \in [Id -> Nat], Lasts(f, kind)
  PROVE  LinkedBy(h, kind) = Gives(links, h, f)
<1> DEFINE last == [d \in Id |-> LastOf(Shared(kind, d))]
<1>1. ASSUME NEW d \in Id PROVE LastOf(Shared(kind, d)) = f[d]
  <2>1. Shared(kind, d) \in SUBSET Nat
    BY DEF Shared, Of
  <2>2. QED
    BY <2>1, LastIs DEF Lasts
<1>2. last = f
  BY <1>1
<1>3. LinkedBy(h, kind) = Gives(links, h, last)
  BY DEF LinkedBy, Gives
<1> HIDE DEF last
<1>4. QED
  BY <1>2, <1>3

LEMMA ParsedIsDue ==
  ASSUME TypeInv, Parsed, path = <<>>
  PROVE  PolygonsDue /\ GeometriesDue
<1>1. /\ Len(objects) \in Nat /\ Len(objects) <= MaxObjects /\ MaxObjects \in Nat
      /\ \A k : Of(k) \subseteq 1..Len(objects) /\ Of(k) \subseteq 0..MaxObjects /\ Of(k) \subseteq Nat
      /\ ToSet(path) = {}
  BY TopAround, FactoryAssumption DEF TypeInv, BuildInv, PartsOK, Of, ToSet
<1>2. /\ polygons \in [0..MaxObjects -> Seq(Of("polygon"))]
      /\ geometries \in [0..MaxObjects -> Seq(Of("geometry"))]
      /\ sharedPolygons \in [Id -> Nat] /\ sharedGeometries \in [Id -> Nat]
      /\ links \in Seq(Request)
  <2>1. /\ sharedPolygons \in [Id -> Of("polygon") \cup {0}]
        /\ sharedGeometries \in [Id -> Of("geometry") \cup {0}]
    BY DEF TypeInv, ManagersTyped
  <2>2. Of("polygon") \cup {0} \subseteq Nat /\ Of("geometry") \cup {0} \subseteq Nat
    BY <1>1
  <2>3. sharedPolygons \in [Id -> Nat] /\ sharedGeometries \in [Id -> Nat]
    BY <2>1, <2>2
  <2>4. QED
    BY <2>3 DEF TypeInv, PartsTyped, Parsed, RequestsLinked
<1>3. \A h \in 0..MaxObjects : polygons[h] \in Seq(1..Len(objects)) /\ geometries[h] \in Seq(1..Len(objects))
  <2>1. TAKE h \in 0..MaxObjects
  <2>2. polygons[h] \in Seq(Of("polygon")) /\ geometries[h] \in Seq(Of("geometry"))
    BY <1>2
  <2>3. QED
    BY <1>1, <2>2, SeqMonotone
<1>4. \A h \in 0..MaxObjects :
        OwnParts(h, "polygon") = polygons[h] /\ OwnParts(h, "geometry") = geometries[h]
  <2>1. TAKE h \in 0..MaxObjects
  <2>2. Lists(polygons[h], Closed(h, "polygon")) /\ Lists(geometries[h], Closed(h, "geometry"))
    BY DEF Parsed, ClosedListed
  <2>3. QED
    BY <1>1, <1>3, <2>2, OwnIs
<1>5. \A d \in Id : /\ IsLast(sharedPolygons[d], Shared("polygon", d))
                    /\ IsLast(sharedGeometries[d], Shared("geometry", d))
  <2>1. TAKE d \in Id
  <2>2. ClosedShared(d) = Shared("geometry", d)
    BY <1>1 DEF ClosedShared
  <2>3. QED
    BY <2>2 DEF Parsed, LastShared
<1>6. Lasts(sharedPolygons, "polygon") /\ Lasts(sharedGeometries, "geometry")
  BY <1>5 DEF Lasts
<1>7. \A h \in Nat :
        /\ h \notin Of("implicit") => Gives(polygonRequests, h, sharedPolygons) = Gives(links, h, sharedPolygons)
        /\ h \notin Of("geometry") => Gives(geometryRequests, h, sharedGeometries) = Gives(links, h, sharedGeometries)
  BY <1>2 DEF Parsed, RequestsLinked
<1>8. \A h : h \in Of("geometry") => h \notin Of("implicit")
  BY DEF Of
<1>9. \A g \in Of("geometry") :
        polygons[g] \o Gives(polygonRequests, g, sharedPolygons) =
          OwnParts(g, "polygon") \o Gives(links, g, sharedPolygons)
  BY <1>1, <1>4, <1>7, <1>8
<1>10. \A i \in Of("implicit") :
         geometries[i] \o Gives(geometryRequests, i, sharedGeometries) =
           OwnParts(i, "geometry") \o Gives(links, i, sharedGeometries)
  BY <1>1, <1>4, <1>7, <1>8
<1>11. QED
  BY <1>2, <1>6, <1>9, <1>10 DEF PolygonsDue, GeometriesDue

(* The references are resolved one after the other.                        *)
LEMMA DueStays ==
  ASSUME UNCHANGED <<objects, links>>
  PROVE  /\ PolygonsDue /\ UNCHANGED <<polygons, polygonRequests, sharedPolygons>> => PolygonsDue'
         /\ GeometriesDue /\ UNCHANGED <<geometries, geometryRequests, sharedGeometries>> => GeometriesDue'
<1>1. \A k, d : Of(k)' = Of(k) /\ Shared(k, d)' = Shared(k, d)
  BY DEF Of, Shared, KindOf
<1>2. \A f, k : Lasts(f, k)' = Lasts(f, k)
  BY <1>1 DEF Lasts, IsLast
<1>3. \A h, k : OwnParts(h, k)' = OwnParts(h, k)
  <2>1. TAKE h, k
  <2>2. objects' = objects /\ Of(k)' = Of(k)
    BY <1>1, Zenon
  <2>3. QED
    BY <2>2 DEF OwnParts
<1>4. QED
  BY <1>1, <1>2, <1>3 DEF PolygonsDue, GeometriesDue

(* What the next request gives is added to the parts of its object.        *)
LEMMA ResolvesOne ==
  ASSUME NEW q \in Seq(Request), q # <<>>, NEW f \in [Id -> Nat],
         NEW parts \in [0..MaxObjects -> Seq(Nat)], Head(q).target \in 0..MaxObjects,
         NEW h \in 0..MaxObjects
  PROVE  LET r   == Head(q)
             new == IF f[r.id] = 0 THEN parts ELSE [parts EXCEPT ![r.target] = Append(@, f[r.id])]
         IN  new[h] \o Gives(Tail(q), h, f) = parts[h] \o Gives(q, h, f)
<1> DEFINE r   == Head(q)
           new == IF f[r.id] = 0 THEN parts ELSE [parts EXCEPT ![r.target] = Append(@, f[r.id])]
           a   == parts[h]
           b   == GivesOne(r, h, f)
           c   == Gives(Tail(q), h, f)
<1>1. r \in Request /\ Tail(q) \in Seq(Request)
  BY HeadTailProperties
<1>2. a \in Seq(Nat) /\ b \in Seq(Nat) /\ c \in Seq(Nat)
  BY <1>1, GivesAppend
<1>3. Gives(q, h, f) = b \o c
  BY GivesHead
<1>4. new[h] = a \o b
  <2>1. r.id \in Id /\ f[r.id] \in Nat
    BY <1>1 DEF Request
  <2>2. CASE r.target = h /\ f[r.id] # 0
    <3>1. new[h] = Append(a, f[r.id]) /\ b = <<f[r.id]>>
      BY <2>2 DEF GivesOne
    <3>2. Append(a, f[r.id]) = a \o <<f[r.id]>>
      BY <1>2, <2>1, AppendIsConcat
    <3>3. QED
      BY <3>1, <3>2
  <2>3. CASE ~(r.target = h /\ f[r.id] # 0)
    <3>1. new[h] = a /\ b = <<>>
      BY <2>3 DEF GivesOne
    <3>2. QED
      BY <1>2, <3>1, ConcatEmptySeq
  <2>4. QED
    BY <2>2, <2>3
<1> HIDE DEF a, b, c, new, r
<1>5. (a \o b) \o c = a \o (b \o c)
  BY <1>2, ConcatNumbers, Zenon
<1>6. new[h] \o c = a \o Gives(q, h, f)
  BY <1>3, <1>4, <1>5
<1>7. QED
  BY <1>6, Zenon DEF a, c, new, r
(* One step of finish() of either manager: a request is resolved, or none  *)
(* is left and the objects are forgotten.                                  *)
LEMMA PolygonsResolve ==
  ASSUME TypeInv, PolygonsDue, FinishPolygons
  PROVE  PolygonsDue'
<1>1. UNCHANGED <<objects, links>>
  BY DEF FinishPolygons
<1>2. /\ \A k, d : Of(k)' = Of(k) /\ Shared(k, d)' = Shared(k, d)
      /\ Of("geometry") \subseteq 0..MaxObjects
  BY <1>1, TopAround, FactoryAssumption DEF Of, Shared, KindOf, TypeInv, BuildInv, PartsOK
<1>3. \A f, h : Lasts(f, "polygon")' = Lasts(f, "polygon") /\ OwnParts(h, "polygon")' = OwnParts(h, "polygon")
  <2>1. \A f, k : Lasts(f, k)' = Lasts(f, k)
    BY <1>2 DEF Lasts, IsLast
  <2>2. \A h, k : OwnParts(h, k)' = OwnParts(h, k)
    BY <1>1, <1>2 DEF OwnParts
  <2>3. QED
    BY <2>1, <2>2
<1>4. /\ polygonRequests \in Seq(Request) /\ polygons \in [0..MaxObjects -> Seq(Nat)]
      /\ polygonRequests \in Seq([target : Of("geometry"), id : Id])
      /\ sharedPolygons \in [Id -> Nat]
  BY ListsTyped DEF TypeInv, BuildInv, PartsOK, ManagersOK, ManagersTyped
<1>5. \A g \in Of("geometry") :
        polygons'[g] \o Gives(polygonRequests', g, sharedPolygons') =
          polygons[g] \o Gives(polygonRequests, g, sharedPolygons)
  <2>1. CASE Polygons!Clear
    BY <2>1, GivesNothing DEF Polygons!Clear
  <2>2. CASE Polygons!ResolveNext
    <3>1. polygonRequests # <<>> /\ Head(polygonRequests).target \in 0..MaxObjects
      <4> DEFINE R == [target : Of("geometry"), id : Id]
      <4>1. polygonRequests # <<>> /\ polygonRequests \in Seq(R)
        BY <1>4, <2>2 DEF Polygons!ResolveNext
      <4>2. Head(polygonRequests) \in R
        BY <4>1, HeadTailProperties
      <4>3. QED
        BY <1>2, <4>1, <4>2
    <3>2. TAKE g \in Of("geometry")
    <3>3. g \in 0..MaxObjects
      BY <1>2
    <3>4. LET r   == Head(polygonRequests)
              new == IF sharedPolygons[r.id] = 0 THEN polygons
                     ELSE [polygons EXCEPT ![r.target] = Append(@, sharedPolygons[r.id])]
          IN  new[g] \o Gives(Tail(polygonRequests), g, sharedPolygons) =
                polygons[g] \o Gives(polygonRequests, g, sharedPolygons)
      BY <1>4, <3>1, <3>3, ResolvesOne
    <3>5. QED
      BY <2>2, <3>4, Zenon DEF Polygons!ResolveNext
  <2>3. QED
    BY <2>1, <2>2 DEF FinishPolygons
<1>6. links' = links /\ Of("geometry")' = Of("geometry")
  BY <1>1, <1>2
<1>7. PICK f \in [Id -> Nat] :
        /\ Lasts(f, "polygon")
        /\ \A g \in Of("geometry") :
             polygons[g] \o Gives(polygonRequests, g, sharedPolygons) =
               OwnParts(g, "polygon") \o Gives(links, g, f)
  BY DEF PolygonsDue
<1>8. /\ Lasts(f, "polygon")'
      /\ \A g \in Of("geometry")' :
           polygons'[g] \o Gives(polygonRequests', g, sharedPolygons') =
             OwnParts(g, "polygon")' \o Gives(links', g, f)
  BY <1>3, <1>5, <1>6, <1>7
<1>9. QED
  BY <1>8 DEF PolygonsDue

LEMMA GeometriesResolve ==
  ASSUME TypeInv, GeometriesDue, FinishGeometries
  PROVE  GeometriesDue'
<1>1. UNCHANGED <<objects, links>>
  BY DEF FinishGeometries
<1>2. /\ \A k, d : Of(k)' = Of(k) /\ Shared(k, d)' = Shared(k, d)
      /\ Of("implicit") \subseteq 0..MaxObjects
      /\ Of("geometry") \cup {0} \subseteq Nat
  BY <1>1, TopAround, FactoryAssumption DEF Of, Shared, KindOf, TypeInv, BuildInv, PartsOK
<1>3. \A f, h : Lasts(f, "geometry")' = Lasts(f, "geometry") /\ OwnParts(h, "geometry")' = OwnParts(h, "geometry")
  <2>1. \A f, k : Lasts(f, k)' = Lasts(f, k)
    BY <1>2 DEF Lasts, IsLast
  <2>2. \A h, k : OwnParts(h, k)' = OwnParts(h, k)
    BY <1>1, <1>2 DEF OwnParts
  <2>3. QED
    BY <2>1, <2>2
<1>4. /\ geometryRequests \in Seq(Request) /\ geometries \in [0..MaxObjects -> Seq(Nat)]
      /\ geometryRequests \in Seq([target : Of("implicit"), id : Id])
      /\ sharedGeometries \in [Id -> Nat]
  <2>1. /\ geometries \in [0..MaxObjects -> Seq(Of("geometry"))]
        /\ sharedGeometries \in [Id -> Of("geometry") \cup {0}]
        /\ geometryRequests \in Seq([target : Of("implicit"), id : Id])
    BY DEF TypeInv, PartsTyped, ManagersTyped
  <2>2. sharedGeometries \in [Id -> Nat]
    BY <1>2, <2>1
  <2>3. \A h \in 0..MaxObjects : geometries[h] \in Seq(Nat)
    <3>1. TAKE h \in 0..MaxObjects
    <3>2. geometries[h] \in Seq(Of("geometry")) /\ Of("geometry") \subseteq Nat
      BY <1>2, <2>1
    <3>3. QED
      BY <3>2, SeqMonotone
  <2>4. geometries \in [0..MaxObjects -> Seq(Nat)]
    BY <2>1, <2>3
  <2>5. QED
    BY <2>1, <2>2, <2>4, ListsTyped
<1>5. \A i \in Of("implicit") :
        geometries'[i] \o Gives(geometryRequests', i, sharedGeometries') =
          geometries[i] \o Gives(geometryRequests, i, sharedGeometries)
  <2>1. CASE Geometries!Clear
    BY <2>1, GivesNothing DEF Geometries!Clear
  <2>2. CASE Geometries!ResolveNext
    <3>1. geometryRequests # <<>> /\ Head(geometryRequests).target \in 0..MaxObjects
      <4> DEFINE R == [target : Of("implicit"), id : Id]
      <4>1. geometryRequests # <<>> /\ geometryRequests \in Seq(R)
        BY <1>4, <2>2 DEF Geometries!ResolveNext
      <4>2. Head(geometryRequests) \in R
        BY <4>1, HeadTailProperties
      <4>3. QED
        BY <1>2, <4>1, <4>2
    <3>2. TAKE i \in Of("implicit")
    <3>3. i \in 0..MaxObjects
      BY <1>2
    <3>4. LET r   == Head(geometryRequests)
              new == IF sharedGeometries[r.id] = 0 THEN geometries
                     ELSE [geometries EXCEPT ![r.target] = Append(@, sharedGeometries[r.id])]
          IN  new[i] \o Gives(Tail(geometryRequests), i, sharedGeometries) =
                geometries[i] \o Gives(geometryRequests, i, sharedGeometries)
      BY <1>4, <3>1, <3>3, ResolvesOne
    <3>5. QED
      BY <2>2, <3>4, Zenon DEF Geometries!ResolveNext
  <2>3. QED
    BY <2>1, <2>2, Zenon DEF FinishGeometries
<1>6. links' = links /\ Of("implicit")' = Of("implicit")
  BY <1>1, <1>2
<1>7. PICK f \in [Id -> Nat] :
        /\ Lasts(f, "geometry")
        /\ \A i \in Of("implicit") :
             geometries[i] \o Gives(geometryRequests, i, sharedGeometries) =
               OwnParts(i, "geometry") \o Gives(links, i, f)
  BY DEF GeometriesDue
<1>8. /\ Lasts(f, "geometry")'
      /\ \A i \in Of("implicit")' :
           geometries'[i] \o Gives(geometryRequests', i, sharedGeometries') =
             OwnParts(i, "geometry")' \o Gives(links', i, f)
  BY <1>3, <1>5, <1>6, <1>7
<1>9. QED
  BY <1>8 DEF GeometriesDue

LEMMA StepKeepsReferences ==
  ASSUME ReferenceInv, [FinishNext]_vars
  PROVE  ReferenceInv'
<1>1. TypeInv' /\ TreeInv'
  BY StepKeepsTypes, StepKeepsTree DEF ReferenceInv
<1>2. TypeInv /\ TreeInv /\ Nested /\ NoneRequested
  BY DEF ReferenceInv
<1>3. CASE Parse
  <2>1. phase = "parsing" /\ phase' = "parsing"
    BY <1>3, ParseWhileParsing
  <2>2. Parsed /\ Growing
    BY <1>2, <2>1 DEF ReferenceInv, Parsed, Growing
  <2>3. Growing' /\ RequestsLinked'
    BY <1>2, <1>3, <2>2, ParseGrows, ParseLinks DEF Parsed
  <2>4. NoneRequested'
    BY <2>1 DEF NoneRequested
  <2>5. QED
    BY <1>1, <2>1, <2>3, <2>4 DEF ReferenceInv, Parsed, Growing
<1>4. ASSUME UNCHANGED <<objects, path>> PROVE Nested'
  BY <1>2, <1>4 DEF Nested
<1>5. CASE EndDocument
  <2>1. /\ phase = "parsing" /\ phase' = "polygons" /\ path = <<>>
        /\ UNCHANGED <<objects, path, links, polygons, geometries, polygonRequests, sharedPolygons,
                       geometryRequests, sharedGeometries>>
    BY <1>5 DEF EndDocument, model, polygonManager, geometryManager
  <2>2. PolygonsDue /\ GeometriesDue
    BY <1>2, <2>1, ParsedIsDue DEF ReferenceInv
  <2>3. PolygonsDue' /\ GeometriesDue'
    BY <2>1, <2>2, DueStays
  <2>4. NoneRequested'
    BY <2>1 DEF NoneRequested
  <2>5. QED
    BY <1>1, <1>4, <2>1, <2>3, <2>4 DEF ReferenceInv
<1>6. CASE FinishPolygons
  <2>1. /\ phase = "polygons" /\ phase' \in {"polygons", "geometries"}
        /\ UNCHANGED <<objects, path, links, geometries, geometryRequests, sharedGeometries>>
    BY <1>6 DEF FinishPolygons, geometryManager
  <2>2. PolygonsDue /\ GeometriesDue
    BY <2>1 DEF ReferenceInv
  <2>3. PolygonsDue' /\ GeometriesDue'
    BY <1>2, <1>6, <2>1, <2>2, DueStays, PolygonsResolve
  <2>4. phase' = "geometries" => polygonRequests' = <<>>
    BY <1>6 DEF FinishPolygons, Polygons!Clear
  <2>5. NoneRequested'
    BY <2>1, <2>4 DEF NoneRequested
  <2>6. QED
    BY <1>1, <1>4, <2>1, <2>3, <2>5 DEF ReferenceInv
<1>7. CASE FinishGeometries
  <2>1. /\ phase = "geometries" /\ phase' \in {"geometries", "appearances"}
        /\ UNCHANGED <<objects, path, links, polygons, polygonRequests, sharedPolygons>>
    BY <1>7 DEF FinishGeometries, polygonManager
  <2>2. PolygonsDue /\ GeometriesDue
    BY <2>1 DEF ReferenceInv
  <2>3. PolygonsDue' /\ GeometriesDue'
    BY <1>2, <1>7, <2>1, <2>2, DueStays, GeometriesResolve
  <2>4. phase' = "appearances" => geometryRequests' = <<>>
    BY <1>7 DEF FinishGeometries, Geometries!Clear
  <2>5. NoneRequested'
    BY <1>2, <2>1, <2>4 DEF NoneRequested
  <2>6. QED
    BY <1>1, <1>4, <2>1, <2>3, <2>5 DEF ReferenceInv
<1>8. CASE \/ AssignAppearances
           \/ \E tesselator \in BOOLEAN : StartFinish(tesselator)
           \/ FinishCityObject \/ FinishImplicitGeometry \/ FinishGeometry \/ FinishPolygon
           \/ EndFinish
  <2>1. /\ phase \notin {"parsing", "polygons", "geometries"}
        /\ phase' \notin {"parsing", "polygons", "geometries"}
        /\ UNCHANGED <<objects, path, links, polygons, geometries, polygonRequests, sharedPolygons,
                       geometryRequests, sharedGeometries>>
    BY <1>8, Zenon DEF AssignAppearances, StartFinish, FinishCityObject, FinishImplicitGeometry,
       FinishGeometry, FinishPolygon, EndFinish, NextCall, model, polygonManager, geometryManager
  <2>2. PolygonsDue' /\ GeometriesDue'
    BY <2>1, DueStays DEF ReferenceInv
  <2>3. NoneRequested'
    BY <1>2, <2>1 DEF NoneRequested
  <2>4. QED
    BY <1>1, <1>4, <2>1, <2>2, <2>3, Zenon DEF ReferenceInv
<1>9. CASE UNCHANGED vars
  <2>1. UNCHANGED <<phase, objects, path, links, polygons, geometries, polygonRequests,
                    sharedPolygons, geometryRequests, sharedGeometries>>
    BY <1>9 DEF vars, factoryVars, model, polygonManager, geometryManager
  <2>2. phase # "parsing" => PolygonsDue' /\ GeometriesDue'
    BY <2>1, DueStays DEF ReferenceInv
  <2>3. phase = "parsing" => Parsed'
    <3>1. SUFFICES ASSUME phase = "parsing" PROVE Parsed'
      OBVIOUS
    <3>2. Parsed /\ Growing
      BY <1>2, <3>1 DEF ReferenceInv, Parsed, Growing
    <3>3. Growing'
      BY <2>1, <3>2, GrowingStays
    <3>4. \A k : Of(k) \subseteq Of(k)'
      BY <2>1 DEF Of
    <3>5. RequestsLinked'
      BY <2>1, <3>2, <3>4, LinksStay DEF Parsed
    <3>6. QED
      BY <3>3, <3>5 DEF Parsed, Growing
  <2>4. NoneRequested'
    BY <1>2, <2>1 DEF NoneRequested
  <2>5. QED
    BY <1>1, <1>4, <2>1, <2>2, <2>3, <2>4 DEF ReferenceInv
<1>10. QED
  BY <1>3, <1>5, <1>6, <1>7, <1>8, <1>9 DEF FinishNext, closeFactory

LEMMA ReferencesBegin == FinishInit => ReferenceInv
<1> SUFFICES ASSUME FinishInit PROVE ReferenceInv
  OBVIOUS
<1>1. TypeInv /\ TreeInv
  BY TypesBegin, TreeBegins
<1>2. /\ objects = <<>> /\ path = <<>> /\ links = <<>> /\ phase = "parsing"
      /\ polygons = [o \in 0..MaxObjects |-> <<>>] /\ geometries = [o \in 0..MaxObjects |-> <<>>]
      /\ sharedPolygons = [d \in Id |-> 0] /\ polygonRequests = <<>>
      /\ sharedGeometries = [d \in Id |-> 0] /\ geometryRequests = <<>>
  BY DEF FinishInit, Init
<1>3. Len(objects) = 0 /\ Len(path) = 0 /\ ToSet(path) = {} /\ \A k : Of(k) = {}
  BY <1>2 DEF ToSet, Of
<1>4. Nested
  BY <1>3 DEF Nested
<1>5. NoneRequested
  BY <1>2 DEF NoneRequested
<1>6. ClosedListed
  <2>1. \A h, k : Closed(h, k) = {}
    BY <1>3 DEF Closed
  <2>2. Lists(<<>>, {})
    BY DEF Lists, Ordered, ToSet
  <2>3. QED
    BY <1>2, <2>1, <2>2 DEF ClosedListed
<1>7. LastShared
  BY <1>2, <1>3 DEF LastShared, ClosedShared, Shared, IsLast
<1>8. RequestsLinked
  BY <1>2 DEF RequestsLinked
<1>9. QED
  BY <1>1, <1>2, <1>4, <1>5, <1>6, <1>7, <1>8 DEF ReferenceInv, Parsed

(* Of any document: when the managers of polygons and geometries have      *)
(* finished, a geometry has exactly the polygons of its element, in their  *)
(* order, and then what its xlinks refer to, in theirs: the last polygon   *)
(* of an id, wherever it is, and nothing where there is none; so it is for *)
(* implicit geometries and what they share.                                *)
THEOREM EveryReferenceResolved == Spec => []ReferencesResolved
<1>1. ReferenceInv => ReferencesResolved
  <2>1. SUFFICES ASSUME ReferenceInv,
                        phase \in {"appearances", "closed", "finish", "done", "unprocessed"}
                 PROVE  /\ \A g \in Of("geometry") :
                             polygons[g] = OwnParts(g, "polygon") \o LinkedBy(g, "polygon")
                        /\ \A i \in Of("implicit") :
                             geometries[i] = OwnParts(i, "geometry") \o LinkedBy(i, "geometry")
    BY DEF ReferencesResolved
  <2>2. /\ TypeInv /\ polygonRequests = <<>> /\ geometryRequests = <<>>
        /\ PolygonsDue /\ GeometriesDue
    BY <2>1 DEF ReferenceInv, NoneRequested
  <2>3. /\ polygons \in [0..MaxObjects -> Seq(Of("polygon"))]
        /\ geometries \in [0..MaxObjects -> Seq(Of("geometry"))]
        /\ \A k : Of(k) \subseteq 0..MaxObjects
    BY <2>2, TopAround, FactoryAssumption DEF TypeInv, BuildInv, PartsOK, PartsTyped, Of
  <2>4. \A o \in 0..MaxObjects : polygons[o] \o <<>> = polygons[o] /\ geometries[o] \o <<>> = geometries[o]
    BY <2>3, ConcatEmptySeq
  <2>5. ASSUME NEW g \in Of("geometry")
        PROVE  polygons[g] = OwnParts(g, "polygon") \o LinkedBy(g, "polygon")
    <3>1. PICK f \in [Id -> Nat] :
            /\ Lasts(f, "polygon")
            /\ polygons[g] \o Gives(polygonRequests, g, sharedPolygons) =
                 OwnParts(g, "polygon") \o Gives(links, g, f)
      BY <2>2, <2>5 DEF PolygonsDue
    <3>2. Gives(links, g, f) = LinkedBy(g, "polygon")
      BY <3>1, LinkedIs
    <3>3. Gives(polygonRequests, g, sharedPolygons) = <<>>
      BY <2>2, GivesNothing
    <3>4. polygons[g] \o <<>> = polygons[g]
      BY <2>3, <2>4, <2>5
    <3>5. QED
      BY <3>1, <3>2, <3>3, <3>4
  <2>6. ASSUME NEW i \in Of("implicit")
        PROVE  geometries[i] = OwnParts(i, "geometry") \o LinkedBy(i, "geometry")
    <3>1. PICK f \in [Id -> Nat] :
            /\ Lasts(f, "geometry")
            /\ geometries[i] \o Gives(geometryRequests, i, sharedGeometries) =
                 OwnParts(i, "geometry") \o Gives(links, i, f)
      BY <2>2, <2>6 DEF GeometriesDue
    <3>2. Gives(links, i, f) = LinkedBy(i, "geometry")
      BY <3>1, LinkedIs
    <3>3. Gives(geometryRequests, i, sharedGeometries) = <<>>
      BY <2>2, GivesNothing
    <3>4. geometries[i] \o <<>> = geometries[i]
      BY <2>3, <2>4, <2>6
    <3>5. QED
      BY <3>1, <3>2, <3>3, <3>4
  <2>7. QED
    BY <2>5, <2>6
<1>2. QED
  BY <1>1, ReferencesBegin, StepKeepsReferences, PTL DEF Spec
===============================================================================
