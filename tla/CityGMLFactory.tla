--------------------------- MODULE CityGMLFactory ---------------------------
(***************************************************************************)
(* How the element parsers build a city model through the CityGMLFactory:  *)
(* an object is created at the start tag of its element and handed to the  *)
(* object around it at the end tag; polygons, shared geometries and        *)
(* appearances are referred to by id, before or after they are defined,    *)
(* and the three managers resolve the references when the document ends.   *)
(*                                                                         *)
(* Objects are numbered in the order of their creation; 0 is the model.    *)
(* Coordinates, attributes and line strings themselves are left out.       *)
(***************************************************************************)
EXTENDS Integers, FiniteSets, SequencesExt

CONSTANTS
  Id,              \* gml:ids of geometries and polygons
  NoId,            \* an id the parser generates for an element without one
  DataId,          \* gml:ids of surface data
  Theme,           \* themes of appearances
  Orientation,     \* orientation attributes: "+", "-"
  Side,            \* values of app:isFront
  AppearanceHolder, \* where documents have appearances: "model", "cityobject"
  MaxObjects,      \* bound: objects in a document
  MaxLinks,        \* bound: xlinks to polygons and geometries
  MaxData,         \* bound: surface data
  MaxDefinitions   \* bound: targets of surface data

ASSUME FactoryAssumption ==
  /\ NoId \notin Id \cup DataId
  /\ Orientation \subseteq {"+", "-"}
  /\ Side \subseteq BOOLEAN
  /\ AppearanceHolder \subseteq {"model", "cityobject"}
  /\ {MaxObjects, MaxLinks, MaxData, MaxDefinitions} \subseteq Nat

VARIABLES
  objects,     \* every object created
  path,        \* the objects whose elements are open, outermost first
  children,    \* m_roots of the model (0), m_children of city objects
  implicits,   \* m_implicitGeometries of city objects
  geometries,  \* m_geometries of city objects and implicit geometries, m_childGeometries
  polygons,    \* m_polygons of geometries
  reversed,    \* the polygons with m_negNormal
  links,       \* auxiliary: the xlinks of the document, in order
  phase        \* of the document parser

VARIABLES sharedPolygons, polygonRequests, sharedGeometries, geometryRequests

VARIABLES
  appearance,  \* the AppearanceElementParser on the stack and the one above it
  surfaceData, appearances, targets, definitions, materialDefs, textureDefs, themes, slots

Polygons ==
  INSTANCE ReferenceManager WITH shared <- sharedPolygons, requests <- polygonRequests,
                                 parts <- polygons
Geometries ==
  INSTANCE ReferenceManager WITH shared <- sharedGeometries, requests <- geometryRequests,
                                 parts <- geometries
Appearances == INSTANCE AppearanceManager

polygonManager    == <<sharedPolygons, polygonRequests>>
geometryManager   == <<sharedGeometries, geometryRequests>>
appearanceManager == <<surfaceData, appearances, targets, definitions, materialDefs, textureDefs,
                       themes, slots>>
model       == <<children, implicits, geometries, polygons, reversed>>
factoryVars == <<objects, path, model, links, phase, polygonManager, geometryManager,
                 appearance, appearanceManager>>

Object == 1..MaxObjects
Kind   == {"cityobject", "implicit", "geometry", "polygon"}

(* within is auxiliary: the object in whose element an object is defined;  *)
(* the geometry made for a polygon that is no member of one is around it.  *)
New(kind, d, within, orientation) ==
  [kind |-> kind, id |-> d, within |-> within, orientation |-> orientation]

KindOf(o) == IF o = 0 THEN "model" ELSE objects[o].kind
Top       == IF path = <<>> THEN 0 ELSE Last(path)
Around    == IF Len(path) < 2 THEN 0 ELSE path[Len(path) - 1]
Fresh     == Len(objects) + 1

NoAppearance == [open |-> FALSE, members |-> {}, current |-> 0]

Init ==
  /\ objects = <<>>
  /\ path = <<>>
  /\ children = [o \in 0..MaxObjects |-> <<>>]
  /\ implicits = [o \in 0..MaxObjects |-> <<>>]
  /\ geometries = [o \in 0..MaxObjects |-> <<>>]
  /\ polygons = [o \in 0..MaxObjects |-> <<>>]
  /\ reversed = {}
  /\ links = <<>>
  /\ phase = "parsing"
  /\ sharedPolygons = [d \in Id |-> 0] /\ polygonRequests = <<>>
  /\ sharedGeometries = [d \in Id |-> 0] /\ geometryRequests = <<>>
  /\ appearance = NoAppearance
  /\ Appearances!Empty(MaxObjects)

AddPart(f, whole, part) == [f EXCEPT ![whole] = Append(@, part)]

-----------------------------------------------------------------------------
(* Start tags of objects.                                                  *)
Open(kind, d, orientation) ==
  /\ phase = "parsing"
  /\ ~appearance.open
  /\ Len(objects) < MaxObjects
  /\ objects' = Append(objects, New(kind, d, Top, orientation))
  /\ path' = Append(path, Fresh)
  /\ UNCHANGED <<model, links, phase, geometryManager, appearance>>

StartCityObject ==
  /\ KindOf(Top) \in {"model", "cityobject"}
  /\ Open("cityobject", NoId, "+")
  /\ UNCHANGED <<polygonManager, appearanceManager>>

StartImplicitGeometry ==
  /\ KindOf(Top) = "cityobject"
  /\ Open("implicit", NoId, "+")
  /\ UNCHANGED <<polygonManager, appearanceManager>>

(* createGeometry *)
StartGeometry(d, orientation) ==
  /\ KindOf(Top) \in {"cityobject", "implicit", "geometry"}
  /\ Open("geometry", d, orientation)
  /\ Appearances!AddAppearanceTarget(d, Fresh)
  /\ UNCHANGED polygonManager

(* createPolygon; a polygon that is no member of a geometry will need one. *)
StartPolygon(d) ==
  /\ KindOf(Top) \in {"cityobject", "implicit", "geometry"}
  /\ KindOf(Top) # "geometry" => Len(objects) + 2 <= MaxObjects
  /\ Open("polygon", d, "+")
  /\ Polygons!Add(d, Fresh)
  /\ Appearances!AddAppearanceTarget(d, Fresh)

-----------------------------------------------------------------------------
(* End tags of objects: the callbacks of the parsers.                      *)
Close(kind) ==
  /\ phase = "parsing"
  /\ ~appearance.open
  /\ KindOf(Top) = kind
  /\ path' = Front(path)
  /\ UNCHANGED <<links, phase, polygonManager, appearance>>

EndCityObject ==
  /\ Close("cityobject")
  /\ children' = AddPart(children, Around, Top)
  /\ UNCHANGED <<objects, implicits, geometries, polygons, reversed, geometryManager,
                 appearanceManager>>

EndImplicitGeometry ==
  /\ Close("implicit")
  /\ implicits' = AddPart(implicits, Around, Top)
  /\ UNCHANGED <<objects, children, geometries, polygons, reversed, geometryManager,
                 appearanceManager>>

AddGeometrySharesTop(g, d, whole) ==  \* mutant: shares what has ended, not its geometry
  /\ geometries' = AddPart(geometries, whole, g)
  /\ IF KindOf(whole) = "implicit" THEN Geometries!Add(d, Top) ELSE UNCHANGED geometryManager

(* A geometry is added to what is around it; that of an implicit geometry  *)
(* may be shared.                                                          *)
AddGeometry(g, d, whole) ==
  /\ geometries' = AddPart(geometries, whole, g)
  /\ IF KindOf(whole) = "implicit" THEN Geometries!Add(d, g) ELSE UNCHANGED geometryManager

EndGeometry ==
  /\ Close("geometry")
  /\ reversed' = IF objects[Top].orientation = "-" THEN reversed \cup ToSet(polygons[Top])
                 ELSE reversed
  /\ AddGeometry(Top, objects[Top].id, Around)
  /\ UNCHANGED <<objects, children, implicits, polygons, appearanceManager>>

EndPolygonUnattached ==  \* mutant: the callback is not called
  /\ Close("polygon")
  /\ KindOf(Around) = "geometry"
  /\ UNCHANGED <<objects, children, implicits, geometries, polygons, reversed, geometryManager,
                 appearanceManager>>

EndPolygon ==
  /\ Close("polygon")
  /\ KindOf(Around) = "geometry"
  /\ polygons' = AddPart(polygons, Around, Top)
  /\ UNCHANGED <<objects, children, implicits, geometries, reversed, geometryManager,
                 appearanceManager>>

(* A polygon that is the value of a geometry property gets a geometry of   *)
(* its own, with the id d of the property element.                         *)
EndLonePolygon(d) ==
  /\ Close("polygon")
  /\ KindOf(Around) \in {"cityobject", "implicit"}
  /\ objects' = Append([objects EXCEPT ![Top].within = Fresh], New("geometry", d, Around, "+"))
  /\ polygons' = AddPart(polygons, Fresh, Top)
  /\ AddGeometry(Fresh, d, Around)
  /\ Appearances!AddAppearanceTarget(d, Fresh)
  /\ UNCHANGED <<children, implicits, reversed>>

(* So does a line string, of which no more is modelled.                    *)
EndLineString(d) ==
  /\ phase = "parsing"
  /\ ~appearance.open
  /\ KindOf(Top) \in {"cityobject", "implicit"}
  /\ Len(objects) < MaxObjects
  /\ objects' = Append(objects, New("geometry", d, Top, "+"))
  /\ AddGeometry(Fresh, d, Top)
  /\ Appearances!AddAppearanceTarget(d, Fresh)
  /\ UNCHANGED <<path, children, implicits, polygons, reversed, links, phase, polygonManager,
                 appearance>>

-----------------------------------------------------------------------------
(* References.                                                             *)
Link(d) ==
  /\ phase = "parsing"
  /\ ~appearance.open
  /\ Len(links) < MaxLinks
  /\ links' = Append(links, [target |-> Top, id |-> d])
  /\ UNCHANGED <<objects, path, children, implicits, reversed, phase, appearance,
                 appearanceManager>>

(* A gml:surfaceMember or gml:baseSurface with an xlink.                   *)
LinkPolygon(d) ==
  /\ KindOf(Top) = "geometry"
  /\ Link(d)
  /\ Polygons!Request(Top, d)
  /\ UNCHANGED <<geometries, geometryManager>>

(* A core:relativeGMLGeometry with an xlink.                               *)
LinkGeometry(d) ==
  /\ KindOf(Top) = "implicit"
  /\ Link(d)
  /\ Geometries!Request(Top, d)
  /\ UNCHANGED <<polygons, polygonManager>>

-----------------------------------------------------------------------------
(* Appearances.                                                            *)
InAppearance ==
  /\ phase = "parsing"
  /\ UNCHANGED <<objects, path, model, links, phase, polygonManager, geometryManager>>

StartAppearance ==
  /\ InAppearance
  /\ ~appearance.open
  /\ KindOf(Top) \in AppearanceHolder
  /\ appearance' = [NoAppearance EXCEPT !.open = TRUE]
  /\ UNCHANGED appearanceManager

(* An app:surfaceDataMember with an xlink finds what exists already.       *)
LinkSurfaceData(d) ==
  /\ InAppearance
  /\ appearance.open /\ appearance.current = 0
  /\ appearances[d] # 0
  /\ appearance' = [appearance EXCEPT !.members = @ \cup {appearances[d]}]
  /\ UNCHANGED appearanceManager

(* A material or texture; app:isFront is known before it is used.          *)
StartSurfaceData(kind, d, front) ==
  /\ InAppearance
  /\ appearance.open /\ appearance.current = 0
  /\ Len(surfaceData) < MaxData
  /\ Appearances!AddAppearance(kind, d, front)
  /\ appearance' = [appearance EXCEPT !.current = Len(surfaceData) + 1]

Target(d) ==
  /\ InAppearance
  /\ appearance.current # 0
  /\ Len(definitions) < MaxDefinitions
  /\ Appearances!AddTargetDefinition(appearance.current, d)
  /\ UNCHANGED appearance

EndSurfaceData ==
  /\ InAppearance
  /\ appearance.current # 0
  /\ appearance' = [appearance EXCEPT !.members = @ \cup {appearance.current}, !.current = 0]
  /\ UNCHANGED appearanceManager

(* t is the last app:theme, or the empty theme.                            *)
EndAppearance(t) ==
  /\ InAppearance
  /\ appearance.open /\ appearance.current = 0
  /\ Appearances!AddToTheme(appearance.members, t)
  /\ appearance' = NoAppearance

Parse ==
  \/ StartCityObject
  \/ StartImplicitGeometry
  \/ \E d \in Id \cup {NoId}, s \in Orientation : StartGeometry(d, s)
  \/ \E d \in Id \cup {NoId} : StartPolygon(d)
  \/ EndCityObject
  \/ EndImplicitGeometry
  \/ EndGeometry
  \/ EndPolygon
  \/ \E d \in Id \cup {NoId} : EndLonePolygon(d)
  \/ \E d \in Id \cup {NoId} : EndLineString(d)
  \/ \E d \in Id : LinkPolygon(d)
  \/ \E d \in Id : LinkGeometry(d)
  \/ StartAppearance
  \/ \E d \in DataId : LinkSurfaceData(d)
  \/ \E k \in {"material", "texture"}, d \in DataId \cup {NoId}, front \in Side :
       StartSurfaceData(k, d, front)
  \/ \E d \in Id : Target(d)
  \/ EndSurfaceData
  \/ \E t \in Theme : EndAppearance(t)

-----------------------------------------------------------------------------
(* endDocument and closeFactory.                                           *)
EndDocument ==
  /\ phase = "parsing" /\ path = <<>> /\ ~appearance.open
  /\ phase' = "polygons"
  /\ UNCHANGED <<objects, path, model, links, polygonManager, geometryManager, appearance,
                 appearanceManager>>

FinishPolygons ==
  /\ phase = "polygons"
  /\ \/ Polygons!ResolveNext /\ UNCHANGED phase
     \/ Polygons!Clear /\ phase' = "geometries"
  /\ UNCHANGED <<objects, path, children, implicits, geometries, reversed, links,
                 geometryManager, appearance, appearanceManager>>

FinishGeometries ==
  /\ phase = "geometries"
  /\ \/ Geometries!ResolveNext /\ UNCHANGED phase
     \/ Geometries!Clear /\ phase' = "appearances"
  /\ UNCHANGED <<objects, path, children, implicits, polygons, reversed, links,
                 polygonManager, appearance, appearanceManager>>

AssignAppearances ==
  /\ phase = "appearances"
  /\ \/ Appearances!AssignMaterial /\ UNCHANGED phase
     \/ Appearances!AssignTexture /\ UNCHANGED phase
     \/ Appearances!Clear /\ phase' = "closed"
  /\ UNCHANGED <<objects, path, model, links, polygonManager, geometryManager, appearance>>

closeFactory == FinishPolygons \/ FinishGeometries \/ AssignAppearances
=============================================================================
