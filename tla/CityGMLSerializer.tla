-------------------------- MODULE CityGMLSerializer --------------------------
(***************************************************************************)
(* The serializer: CityGMLSerializer::serialize walks over a city model    *)
(* and writes it through the XML writer. What the serialize functions      *)
(* still have to write is the sequence todo: calls of the writer, and the  *)
(* calls of CityObjectSerializer and GeometrySerializer that recur. The    *)
(* code does not look at the writer's error before it saves the document.  *)
(***************************************************************************)
EXTENDS XMLWriter

CONSTANTS
  CityModels,   \* city models: records of the fields named below
  Options,      \* sets of the switches of SerializerParams that are on
  MaxDocuments  \* bound: how often one serializer is used

ASSUME MaxDocumentsAssumption == MaxDocuments \in Nat

(* Nothing is part of itself, nor of its own parts.                        *)
Descends(parts) ==
  LET all == DOMAIN parts IN
  /\ IsFiniteSet(all)
  /\ \E rank \in [all -> 0..Cardinality(all)] :
       \A x \in all : \A y \in Range(parts[x]) : rank[y] < rank[x]

(* A material or a texture of a target. themes: those of the material;     *)
(* given: which of the elements it may have; rings: those that have        *)
(* coordinates in the texture.                                             *)
Definitions == [kind : {"material", "texture"}, appearance : Nat, theme : Nat, target : Nat,
                themes : Seq(Nat), given : SUBSET STRING, rings : Seq(Nat)]

(* The rings of a polygon, the exterior one first if it has one.           *)
Rings == [kind : {"exterior", "interior"}, ring : Nat]

(* A city model as the parser leaves it. Its objects, geometries, polygons *)
(* and line strings are numbers from 1.                                    *)
WellFormed(m) ==
  LET objects == DOMAIN m.type
      geometries == DOMAIN m.parts
      polygons == DOMAIN m.rings
  IN /\ objects \cup geometries \cup polygons \subseteq Nat \ {0}
     /\ \A o \in objects : m.type[o] # "Appearance"
     /\ m.roots \in Seq(objects)
     /\ m.children \in [objects -> Seq(objects)] /\ Descends(m.children)
     /\ m.geometries \in [objects -> Seq(geometries)]
     /\ m.parts \in [geometries -> Seq(geometries)] /\ Descends(m.parts)
     /\ m.polygons \in [geometries -> Seq(polygons)]
     /\ m.lines \in [geometries -> Seq(Nat \ {0})]
     /\ m.rings \in [polygons -> Seq(Rings)]
     /\ \A p \in polygons : \A i \in DOMAIN m.rings[p] : m.rings[p][i].kind = "exterior" => i = 1
     /\ m.definitions \in [geometries \cup polygons -> Seq(Definitions)]
     /\ m.attributes \in [{0} \cup objects -> Seq([name : STRING, node : STRING])]

ASSUME CityModelsAssumption == \A m \in CityModels : WellFormed(m)

VARIABLES
  model,           \* the city model that is written; it does not change
  options,         \* m_params
  usedNamespaces,  \* m_usedNamespaces, never emptied
  todo,            \* what is still to be written
  documents,       \* how many calls of serialize were made
  result,          \* what the last call returned
  file             \* what it left in the file or stream

vars == <<writerVars, model, options, usedNamespaces, todo, documents, result, file>>

CityModelNode == 0  \* the model itself, where objects are numbers from 1

-----------------------------------------------------------------------------
(* Calls of the writer, and of the functions that recur.                   *)
Start(name, namespace, of) == <<"start", name, namespace, of>>
Open(name, namespace)      == Start(name, namespace, CityModelNode)
End                        == <<"end">>
SomeValue                  == 0  \* a value no property looks at
Attribute(name, value)     == <<"content", name, value>>
Text(value)                == Attribute("text", value)
Object(o, isRoot)          == <<"object", o, isRoot>>
Geometry(g)                == <<"geometry", g>>
Save                       == <<"save">>

If(condition, calls)  == IF condition THEN calls ELSE <<>>
Each(Calls(_), parts) == FlattenSeq([i \in DOMAIN parts |-> Calls(parts[i])])
Nested(name, namespace, calls) == <<Open(name, namespace)>> \o calls \o <<End>>
TextElement(name, namespace, value) == Nested(name, namespace, <<Text(value)>>)
Id(x) == If(x \in model.named, <<Attribute("gml:id", x)>>)

-----------------------------------------------------------------------------
(* The namespace, element and container of each type of city object.       *)
BoundarySurfaces == {"WallSurface", "RoofSurface", "GroundSurface", "ClosureSurface",
                     "FloorSurface", "InteriorWallSurface", "CeilingSurface"}
Reliefs == {"ReliefFeature", "ReliefComponent", "TINRelief", "MassPointRelief",
            "BreaklineRelief", "RasterRelief"}

NamespaceForCityObjectType(type) ==
  CASE type \in BoundarySurfaces \cup {"Building", "BuildingPart", "Room", "Door", "Window",
         "BuildingInstallation", "BuildingFurniture", "OuterCeilingSurface",
         "OuterFloorSurface", "IntBuildingInstallation"} -> "bldg"
    [] type = "CityFurniture" -> "frn"
    [] type \in {"Track", "Road", "Railway", "Square", "TransportationObject"} -> "trans"
    [] type \in {"PlantCover", "SolitaryVegetationObject"} -> "veg"
    [] type = "WaterBody" -> "wtr"
    [] type = "LandUse" -> "luse"
    [] type = "Tunnel" -> "sub"
    [] type \in {"Bridge", "BridgeConstructionElement", "BridgeInstallation", "BridgePart"} -> "brid"
    [] type = "CityObjectGroup" -> "grp"
    [] type \in Reliefs -> "dem"
    [] OTHER -> "gen"

(* Types the switch of cityObjectsTypeToString leaves out.                 *)
CityObjectsTypeToString(type) ==
  IF type \in (Reliefs \ {"ReliefFeature"}) \cup {"CityObjectGroup"} THEN "Unknown" ELSE type

NoContainer == ""

LODContainerName(type, lod) ==
  CASE type \in BoundarySurfaces \cup {"Building", "BuildingPart"} /\ lod = 0 -> "lod0FootPrint"
    [] type \in {"Building", "BuildingPart"} /\ lod \in 1..4 -> "lodSolid"
    [] type \in BoundarySurfaces /\ lod \in 1..4 -> "lodMultiSurface"
    [] OTHER -> NoContainer

-----------------------------------------------------------------------------
(* What the serialize functions write.                                     *)
Envelope(srs) ==
  Nested("boundedBy", "gml", Nested("Envelope", "gml",
    If(srs, <<Attribute("srsName", SomeValue)>>)
    \o TextElement("lowerCorner", "gml", SomeValue)
    \o TextElement("upperCorner", "gml", SomeValue)))

(* An attribute whose name is that of a registered node gets that element. *)
AttributeElement(a) ==
  IF a.node # ""
  THEN TextElement(a.name, a.node, SomeValue)
  ELSE If("genericAttributes" \in options,
          Nested("stringAttribute", "gen",
                 <<Attribute("name", a.name)>> \o TextElement("value", "gen", SomeValue)))

(* The vertices of a ring or a line string, if it has any.                 *)
PosList(x) ==
  If(x \in model.located,
     Nested("posList", "gml", <<Attribute("srsDimension", 3), Text(SomeValue)>>))

Ring(r) ==
  Nested(r.kind, "gml", Nested("LinearRing", "gml", Id(r.ring) \o PosList(r.ring)))

Polygon(p) ==
  <<Open("surfaceMember", "gml"), Start("Polygon", "gml", p)>> \o Id(p)
  \o Each(Ring, model.rings[p]) \o <<End, End>>

LineString(l) ==
  <<Start("LineString", "gml", l)>> \o Id(l) \o PosList(l) \o <<End>>

SurfaceTypes == {"Roof", "Wall", "Ground", "Closure", "Floor", "InteriorWall", "Ceiling",
                 "OuterCeiling", "OuterFloor"}

(* The element is guessed from what a geometry has, and only without any   *)
(* content taken from its type.                                            *)
GeometryElementName(g) ==
  CASE model.parts[g] # <<>> -> "Solid"
    [] Len(model.polygons[g]) > 1 -> "CompositeSurface"
    [] Len(model.polygons[g]) = 1 -> "MultiSurface"
    [] Len(model.lines[g]) > 1 -> "CompositeCurve"
    [] Len(model.lines[g]) = 1 -> "LineString"
    [] model.geometryType[g] \in SurfaceTypes -> "MultiSurface"
    [] model.geometryType[g] = "Tin" -> "TINRelief"
    [] OTHER -> "Geometry"

GeometryCalls(g) ==
  LET solid == GeometryElementName(g) = "Solid"
  IN <<Start(GeometryElementName(g), "gml", g)>> \o Id(g)
     \o If(solid, <<Open("exterior", "gml")>>)
     \o Each(Polygon, model.polygons[g]) \o Each(LineString, model.lines[g])
     \o [i \in DOMAIN model.parts[g] |-> Geometry(model.parts[g][i])]
     \o If(solid, <<End>>) \o <<End>>

Empty(g) == model.polygons[g] = <<>> /\ model.lines[g] = <<>> /\ model.parts[g] = <<>>

(* Geometries of other types than the containers know are left out.        *)
HasContainer(o, g) ==
  /\ "emptyGeometries" \in options \/ ~Empty(g)
  /\ LODContainerName(model.type[o], model.lod[g]) # NoContainer

ObjectGeometryUnclosed(o, g) ==  \* mutant: the container's end is skipped for an empty geometry
  If(HasContainer(o, g),
     <<Open(LODContainerName(model.type[o], model.lod[g]),
            NamespaceForCityObjectType(model.type[o])), Geometry(g)>> \o If(~Empty(g), <<End>>))

ObjectGeometry(o, g) ==
  If(HasContainer(o, g),
     <<Open(LODContainerName(model.type[o], model.lod[g]),
            NamespaceForCityObjectType(model.type[o])), Geometry(g), End>>)

Child(o) == <<Open("boundedBy", "bldg"), Object(o, FALSE), End>>

(* The parts of an address are nested: without a country none is written,  *)
(* and without a locality no street and no postal code.                    *)
Address(o) ==
  LET given == model.address[o]
      Part(name) == If(name \in given, TextElement(name, "xAL", SomeValue))
      Thoroughfare ==
        Nested("Thoroughfare", "xAL", <<Attribute("Type", "Street")>>
               \o Part("ThoroughfareNumber") \o Part("ThoroughfareName"))
      Locality ==
        Nested("Locality", "xAL", <<Attribute("Type", "City")>> \o Part("LocalityName")
               \o If({"ThoroughfareNumber", "ThoroughfareName"} \cap given # {}, Thoroughfare)
               \o If("PostalCodeNumber" \in given,
                     Nested("PostalCode", "xAL", Part("PostalCodeNumber"))))
      Country ==
        Nested("Country", "xAL", Part("CountryName") \o If("LocalityName" \in given, Locality))
      Details == Nested("AddressDetails", "xAL", If("CountryName" \in given, Country))
  IN If(o \in DOMAIN model.address,
        Nested("address", "bldg", Nested("Address", "uri", Nested("xalAddress", "", Details))))

(* The id of a part that nothing else in the model refers to.              *)
OwnId(given) == If("gml:id" \in given, <<Attribute("gml:id", SomeValue)>>)

ExternalReference(o) ==
  LET given == model.externals[o]
      ExternalObject(name) ==
        Nested("externalObject", "core", TextElement(name, "core", SomeValue))
  IN If(o \in DOMAIN model.externals,
        Nested("ExternalReference", "core", OwnId(given)
               \o If("informationSystem" \in given,
                     TextElement("informationSystem", "core", SomeValue))
               \o If("name" \in given, ExternalObject("name"))
               \o If("uri" \in given /\ "name" \notin given, ExternalObject("uri"))))

RectifiedGridCoverage(o) ==
  LET given == model.grids[o]
  IN If(o \in DOMAIN model.grids,
        Nested("RectifiedGridCoverage", "core",
               OwnId(given) \o If("bounds" \in given, Envelope("srsName" \in given))))

-----------------------------------------------------------------------------
(* The appearances of a root object and all its parts, theme by theme.     *)
OfGeometry[g \in DOMAIN model.parts] ==
  LET OfPart(part)  == OfGeometry[part]
      OfPolygon(p)  == model.definitions[p]
  IN model.definitions[g] \o Each(OfPart, model.parts[g]) \o Each(OfPolygon, model.polygons[g])

OfObject[o \in DOMAIN model.type] ==
  LET Of(g)      == OfGeometry[g]
      OfChild(c) == OfObject[c]
  IN Each(Of, model.geometries[o]) \o Each(OfChild, model.children[o])

CollectOwnDefinitions(o) ==  \* mutant: child objects are not looked into
  LET Of(g) == OfGeometry[g] IN Each(Of, model.geometries[o])

CollectDefinitions(o) == OfObject[o]

OfTheme(definitions, theme, kind) ==
  LET Fits(d) == If(d.theme = theme /\ d.kind = kind, <<d>>) IN Each(Fits, definitions)

(* An appearance is written once in a theme, for the first of its targets: *)
(* the set of the ids that were written is shared by both kinds.           *)
OncePerAppearance(definitions) ==
  LET Written(i) == \E j \in 1..(i - 1) : definitions[j].appearance = definitions[i].appearance
  IN FlattenSeq([i \in DOMAIN definitions |-> If(~Written(i), <<definitions[i]>>)])

(* A colour, intensity or transparency that is zero is not written.        *)
MaterialElements == <<"diffuseColor", "specularColor", "ambientIntensity", "emissiveColor",
                      "shininess", "transparency">>

Material(d) ==
  LET Theme(t)   == <<Attribute("theme", t)>>
      Part(name) == If(name \in d.given, TextElement(name, "app", SomeValue))
  IN Nested("Material", "app", Id(d.appearance) \o Each(Theme, d.themes)
            \o Each(Part, MaterialElements) \o TextElement("isSmooth", "app", SomeValue))
     \o Nested("target", "app", <<Attribute("uri", d.target)>>)

Texture(d) ==
  LET Coordinates(ring) == Nested("textureCoordinates", "app",
                                  <<Attribute("ring", ring), Text(SomeValue)>>)
      List == Nested("TexCoordList", "app", Each(Coordinates, d.rings))
  IN Nested("ParameterizedTexture", "app",
            If("imageURI" \in d.given, TextElement("imageURI", "app", d.appearance))
            \o TextElement("wrapMode", "app", SomeValue)
            \o Nested("target", "app", <<Attribute("uri", d.target)>> \o If(d.rings # <<>>, List)))

SurfaceDataMember(d) ==
  Nested("surfaceDataMember", "app", IF d.kind = "material" THEN Material(d) ELSE Texture(d))

Appearances(o) ==
  LET definitions == CollectDefinitions(o)
      themes == SetToSeq({d.theme : d \in Range(definitions)})
      Appearance(t) ==
        <<Start("Appearance", "app", o)>> \o TextElement("theme", "app", t)
        \o Each(SurfaceDataMember, OncePerAppearance(OfTheme(definitions, t, "material")
                                                     \o OfTheme(definitions, t, "texture")))
        \o <<End>>
  IN If(definitions # <<>>, <<Open("appearance", "app")>> \o Each(Appearance, themes) \o <<End>>)

ObjectCalls(o, isRoot) ==
  LET type == model.type[o]
      GeometryOf(g) == ObjectGeometry(o, g)
  IN <<Start(CityObjectsTypeToString(type), NamespaceForCityObjectType(type), o)>> \o Id(o)
     \o Each(AttributeElement, model.attributes[o])
     \o If("appearances" \in options /\ isRoot, Appearances(o))
     \o Each(GeometryOf, model.geometries[o])
     \o Each(Child, model.children[o])
     \o If("addresses" \in options, Address(o))
     \o If("externalReferences" \in options, ExternalReference(o) \o RectifiedGridCoverage(o))
     \o <<End>>

CityObjectMember(o) == <<Open("cityObjectMember", "uri"), Object(o, TRUE), End>>

CityModelCalls ==
  If(model.srs, <<Attribute("srsName", SomeValue)>>)
  \o Each(AttributeElement, model.attributes[CityModelNode])
  \o If(model.envelope, Envelope(model.srs))
  \o Each(CityObjectMember, model.roots) \o <<Save>>

-----------------------------------------------------------------------------
(* CityGMLSerializer::serialize.                                           *)
Init ==
  /\ WriterInit
  /\ model \in CityModels
  /\ options \in Options
  /\ usedNamespaces = {}
  /\ todo = <<>>
  /\ documents = 0
  /\ result = "none"
  /\ file = "none"

KnownPrefixes == {"gml", "bldg", "core", "frn", "trans", "veg", "wtr", "luse", "sub", "brid",
                  "grp", "dem", "gen", "app"}

collectUsedTypesOfRoots ==  \* mutant: the types of child objects are not collected
  usedNamespaces' = usedNamespaces \cup {"gml", "core", "gen", "xsi", "xAL", "xlink", "app"}
    \cup {NamespaceForCityObjectType(model.type[o]) : o \in Range(model.roots)}

collectUsedTypes ==
  usedNamespaces' = usedNamespaces \cup {"gml", "core", "gen", "xsi", "xAL", "xlink", "app"}
    \cup {NamespaceForCityObjectType(model.type[o]) : o \in DOMAIN model.type}

setupNamespaces ==
  addNamespaceDeclarations((usedNamespaces' \cap KnownPrefixes) \cup {"xAL", "xsi", "xlink"})

(* The document may be refused by an exception of Xerces-C, which is       *)
(* latched, before or after the root was made, or for want of an           *)
(* implementation, which is not latched.                                   *)
Serialize ==
  /\ todo = <<>>
  /\ documents < MaxDocuments
  /\ documents' = documents + 1
  /\ collectUsedTypes
  /\ setupNamespaces
  /\ file' = "none"
  /\ \/ createDocument("CityModel") /\ todo' = CityModelCalls /\ result' = "none"
     \/ DeclarationsFail("CityModel") /\ UNCHANGED todo /\ result' = "false"
     \/ Fails /\ UNCHANGED todo /\ result' = "false"
     \/ Returns /\ UNCHANGED todo /\ result' = "false"
  /\ UNCHANGED <<model, options>>

NextCall(kind) ==
  /\ todo # <<>>
  /\ Head(todo)[1] = kind
  /\ UNCHANGED <<model, options, usedNamespaces, namespaces, documents>>

SerializeObject ==
  /\ NextCall("object")
  /\ todo' = ObjectCalls(Head(todo)[2], Head(todo)[3]) \o Tail(todo)
  /\ UNCHANGED <<writerVars, result, file>>

SerializeGeometry ==
  /\ NextCall("geometry")
  /\ todo' = GeometryCalls(Head(todo)[2]) \o Tail(todo)
  /\ UNCHANGED <<writerVars, result, file>>

WriteStart ==
  /\ NextCall("start")
  /\ startElement(Head(todo)[2], Head(todo)[3], Head(todo)[4])
  /\ todo' = Tail(todo)
  /\ UNCHANGED <<result, file>>

WriteEnd ==
  /\ NextCall("end")
  /\ endElement
  /\ todo' = Tail(todo)
  /\ UNCHANGED <<result, file>>

WriteContent ==
  /\ NextCall("content")
  /\ writeContent(Head(todo)[2], Head(todo)[3])
  /\ todo' = Tail(todo)
  /\ UNCHANGED <<result, file>>

SaveUnchecked ==  \* mutant: the error latch is not looked at
  /\ NextCall("save")
  /\ todo' = Tail(todo)
  /\ Returns /\ result' = "true" /\ file' = "whole"

(* saveToFile, saveToStream. What DOMLSSerializer::write returns and the   *)
(* state of the stream are not looked at: a file cut short is a success.   *)
SaveDocument ==
  /\ NextCall("save")
  /\ todo' = Tail(todo)
  /\ \/ Writable /\ Returns /\ result' = "true" /\ file' \in {"whole", "partial"}
     \/ Writable /\ Fails /\ result' = "false" /\ file' = "partial"
     \/ Returns /\ result' = "false" /\ UNCHANGED file

Next ==
  \/ Serialize
  \/ SerializeObject
  \/ SerializeGeometry
  \/ WriteStart
  \/ WriteEnd
  \/ WriteContent
  \/ SaveDocument

(* One thread writes the document and waits for nobody.                    *)
Spec == Init /\ [][Next]_vars /\ WF_vars(Next)

-----------------------------------------------------------------------------
(* Properties.                                                             *)

InDocument == document..Len(elements)

(* The part of the model around an element, and the elements around it.    *)
Ancestors[e \in 1..Len(elements)] ==
  LET p == elements[e].parent IN IF p = NoElement THEN {} ELSE {p} \cup Ancestors[p]

Surrounding[e \in 1..Len(elements)] ==
  LET p == elements[e].parent
  IN IF p = NoElement THEN CityModelNode
     ELSE IF elements[p].of # CityModelNode THEN elements[p].of ELSE Surrounding[p]

Geometries == DOMAIN model.parts

Owners(x) ==
  {CityModelNode : i \in {i \in DOMAIN model.roots : model.roots[i] = x}}
  \cup {o \in DOMAIN model.type : x \in Range(model.children[o]) \cup Range(model.geometries[o])}
  \cup {g \in Geometries : x \in Range(model.parts[g]) \cup Range(model.polygons[g])
                                   \cup Range(model.lines[g])}

(* The geometries that are written: those with a container, and their parts. *)
Written[g \in Geometries] ==
  \/ \E o \in DOMAIN model.type : g \in Range(model.geometries[o]) /\ HasContainer(o, g)
  \/ \E h \in Geometries : g \in Range(model.parts[h]) /\ Written[h]

Copies(x) == Cardinality({e \in InDocument : elements[e].of = x /\ elements[e].name # "Appearance"})
Holders(p) == {h \in Geometries \X (1..Cardinality(DOMAIN model.rings)) :
                 /\ Written[h[1]]
                 /\ h[2] \in DOMAIN model.polygons[h[1]]
                 /\ model.polygons[h[1]][h[2]] = p}

TypeOK ==
  /\ document \in 0..Len(elements)
  /\ currentElement \in 0..Len(elements)
  /\ elementStack \in Seq(1..Len(elements))
  /\ \A e \in 1..Len(elements) : elements[e].parent \in 0..(e - 1)
  /\ hasError \in BOOLEAN
  /\ documents \in 0..MaxDocuments
  /\ result \in {"none", "true", "false"}
  /\ file \in {"none", "whole", "partial"}

(* The open elements lie in each other, the current one innermost, across  *)
(* failed calls and a second use of the writer, whose stack is not empty   *)
(* (XMLWriter::startElement, endElement, createDocument).                  *)
OpenElementsNested ==
  /\ elementStack # <<>> => currentElement = Last(elementStack)
  /\ \A i \in 1..(Len(elementStack) - 1) :
       elements[elementStack[i + 1]].parent \in {elementStack[i], NoElement}

(* Every object, geometry and polygon is written inside the part of the    *)
(* model that holds it and gets its own gml:id, although each function     *)
(* relies on those it calls to leave the writer where they found it.       *)
PlacedInOwner ==
  \A e \in 1..Len(elements) :
    elements[e].of # CityModelNode =>
      /\ IF elements[e].name = "Appearance"
         THEN Surrounding[e] = elements[e].of
         ELSE Surrounding[e] \in Owners(elements[e].of)
      /\ \A c \in elements[e].content : c[1] = "gml:id" => c[2] = elements[e].of

(* When serialize returns true, the document has each object once, each    *)
(* geometry that has a container once and each polygon once for every      *)
(* geometry that holds it, whatever failed on the way.                     *)
TrueMeansComplete ==
  result = "true" =>
    /\ elementStack # <<>> /\ Last(elementStack) = document
    /\ \A o \in DOMAIN model.type : Copies(o) = 1
    /\ \A g \in Geometries : Copies(g) = IF Written[g] THEN 1 ELSE 0
    /\ \A p \in DOMAIN model.rings : Copies(p) = Cardinality(Holders(p))

(* After a failure nothing is added to a document and nothing is reported  *)
(* as saved, also when the serializer is used again (m_hasError).          *)
ErrorStopsWriting ==
  [][hasError =>
       /\ hasError'
       /\ result' # "true"
       /\ \A e \in (Len(elements) + 1)..Len(elements') : elements'[e].parent = NoElement]_vars

(* The prefix of every element is declared at the root, when some object   *)
(* of the model is in the building namespace, which the properties of all  *)
(* objects for their children and addresses are written in, and when each  *)
(* attribute that gets an element of its own gets that of a module that    *)
(* some object is in, or of the core: a generic attribute "class" is       *)
(* written as luse:class, whatever object has it.                          *)
Modules == {"gml", "core", "gen", "app"}
           \cup {NamespaceForCityObjectType(model.type[o]) : o \in DOMAIN model.type}

ModulesCover ==
  /\ "bldg" \in Modules
  /\ \A x \in DOMAIN model.attributes : \A a \in Range(model.attributes[x]) :
       a.node \in Modules \cup {""}

PrefixesDeclared ==
  result = "true" /\ ModulesCover =>
    \A e \in InDocument : elements[e].namespace \in {"", "uri"} \/ elements[e].declared

InAppearance(o, theme, e) ==
  \E a \in Ancestors[e] :
    /\ elements[a].name = "Appearance" /\ elements[a].of = o
    /\ \E t \in InDocument : /\ elements[t].parent = a
                            /\ elements[t].name = "theme"
                            /\ <<"text", theme>> \in elements[t].content

(* Every material and texture of a part of a root object is in the         *)
(* document, in each of its themes (serializeAppearances).                 *)
AppearancesSaved ==
  (result = "true" /\ "appearances" \in options) =>
    \A o \in Range(model.roots) : \A d \in Range(OfObject[o]) :
      \E e \in InDocument :
        /\ {<<"gml:id", d.appearance>>, <<"text", d.appearance>>} \cap elements[e].content # {}
        /\ InAppearance(o, d.theme, e)

(* citygml.h documents what save returns: true on success, false on        *)
(* failure.                                                                *)
TrueMeansWritten == result = "true" => file = "whole"

(* includeAppearances is documented as whether the appearances are part of *)
(* the output: each target of a material or texture would be.              *)
TargetsSaved ==
  (result = "true" /\ "appearances" \in options) =>
    \A o \in Range(model.roots) : \A d \in Range(OfObject[o]) :
      \E e \in InDocument : /\ <<"uri", d.target>> \in elements[e].content
                            /\ InAppearance(o, d.theme, e)
=============================================================================
