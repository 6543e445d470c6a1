--------------------------- MODULE ElementParsers ---------------------------
(***************************************************************************)
(* The element parsers of libcitygml as transition tables: which element   *)
(* each kind of parser binds to, and what it does at the start and end tag *)
(* of a child of its element: expect it or not, throw, make another parser *)
(* current.  A node is written <<prefix, name>> as in nodetypes.h.  What   *)
(* the parsers build from the elements is left out.                        *)
(***************************************************************************)
EXTENDS Sequences, FiniteSets

In(prefix, names) == {prefix} \X names

InvalidNode == <<"", "">>

ParserKind == {"CityModel", "CityObject", "Appearance", "Material", "Texture",
         "GeoRefTexture", "Geometry", "Polygon", "LinearRing", "LineString",
         "ImplicitGeometry", "Address", "RectifiedGridCoverage", "ExternalReference"}

-----------------------------------------------------------------------------
(* Reactions.                                                              *)
Template(type, kinds, node) == [type |-> type, kinds |-> kinds, bound |-> node]
Element(kind)         == Template("element", <<kind>>, InvalidNode)
DelayedChoice(kinds)  == Template("choice", kinds, InvalidNode)
Sequence(kind, node)  == Template("sequence", <<kind>>, node)
Skip(node)            == Template("skip", <<>>, node)

Accept    == {[result |-> "accept", push |-> <<>>]}
Reject    == {[result |-> "reject", push |-> <<>>]}
Throw     == {[result |-> "throw",  push |-> <<>>]}
Push(t)   == {[result |-> "accept", push |-> <<t>>]}
AcceptIf(expected) == IF expected THEN Accept ELSE Reject

-----------------------------------------------------------------------------
(* GMLObjectElementParser and GMLFeatureCollectionElementParser, the base  *)
(* classes: same nodes at start and end tag.                               *)
GMLObjectNodes ==
  In("GML", {"Description", "Identifier", "Name", "DescriptionReference", "MetaDataProperty"})
GMLFeatureNodes ==
  GMLObjectNodes \cup In("GML", {"LowerCorner", "UpperCorner", "BoundedBy", "Envelope"})

(* CityModelElementParser *)
AppearanceProperties == In("APP", {"Appearance", "AppearanceMember"})

CityModelStart(n) ==
  IF n = <<"CORE", "CityObjectMember">> THEN Push(Element("CityObject"))
  ELSE IF n \in AppearanceProperties THEN Push(Element("Appearance"))
  ELSE AcceptIf(n \in GMLFeatureNodes)

CityModelEnd(n) ==
  AcceptIf(n \in GMLFeatureNodes \cup AppearanceProperties
                  \cup In("CORE", {"CityObjectMember"}))

-----------------------------------------------------------------------------
(* CityObjectElementParser *)
CityObjectTypes ==
  In("GEN", {"GenericCityObject"})
  \cup In("BLDG", {"Building", "BuildingPart", "Room", "BuildingInstallation",
       "BuildingFurniture", "Door", "Window", "CityFurniture", "WallSurface",
       "RoofSurface", "GroundSurface", "ClosureSurface", "FloorSurface",
       "InteriorWallSurface", "CeilingSurface", "OuterCeilingSurface",
       "OuterFloorSurface", "IntBuildingInstallation"})
  \cup In("FRN", {"CityFurniture"})
  \cup In("TRANS", {"Track", "Road", "Railway", "Square", "TransportationComplex",
       "TrafficArea", "AuxiliaryTrafficArea"})
  \cup In("VEG", {"PlantCover", "SolitaryVegetationObject"})
  \cup In("WTR", {"WaterBody", "WaterSurface", "WaterGroundSurface", "WaterClosureSurface"})
  \cup In("LUSE", {"LandUse"})
  \cup In("SUB", {"Tunnel"})
  \cup In("BRID", {"Bridge", "BridgeConstructionElement", "BridgeInstallation", "BridgePart"})
  \cup In("GRP", {"CityObjectGroup"})
  \cup In("DEM", {"ReliefFeature", "ReliefComponent", "TINRelief", "MassPointRelief",
       "BreaklineRelief", "RasterRelief"})

CityObjectAttributes ==
  In("CORE", {"CreationDate", "TerminationDate"})
  \cup In("BLDG", {"Type", "Class", "Function", "Usage", "YearOfConstruction",
       "YearOfDemolition", "StoreyHeightsAboveGround", "StoreyHeightsBelowGround",
       "StoreysBelowGround", "StoreysAboveGround", "MeasuredHeight", "RoofType"})
  \cup In("VEG", {"Class", "Function", "AverageHeight", "Species", "Height",
       "TrunkDiameter", "CrownDiameter"})
  \cup In("FRN", {"Class", "Function"})
  \cup {"GRP", "GEN", "LUSE", "WTR"} \X {"Class", "Function", "Usage"}
  \cup In("DEM", {"Lod"})
  \cup In("TRANS", {"Usage", "Function", "SurfaceMaterial"})
  \cup In("WTR", {"WaterLevel"})

GenericAttributes ==
  In("GEN", {"StringAttribute", "DoubleAttribute", "IntAttribute", "DateAttribute",
             "UriAttribute", "Value"})

ChildObjectProperties ==
  In("BLDG", {"BoundedBy", "OuterBuildingInstallation", "InteriorBuildingInstallation",
       "InteriorFurniture", "RoomInstallation", "InteriorRoom", "Opening",
       "ConsistsOfBuildingPart"})
  \cup In("GRP", {"GroupMember", "Parent"})
  \cup In("TRANS", {"TrafficArea", "AuxiliaryTrafficArea"})
  \cup In("WTR", {"BoundedBy"})
  \cup In("DEM", {"ReliefComponent", "TINRelief", "MassPointRelief", "BreaklineRelief",
       "RasterRelief", "Grid"})
  \cup In("CORE", {"GeneralizesTo"})

ReliefGeometryProperties ==
  In("DEM", {"Extent", "Tin", "ReliefPoints", "RidgeOrValleyLines", "Breaklines"})

GeometryProperties ==
  In("GEN", {"Lod0TerrainIntersection", "Lod1TerrainIntersection", "Lod2TerrainIntersection",
       "Lod3TerrainIntersection", "Lod4TerrainIntersection"})
  \cup In("WTR", {"Lod0MultiCurve", "Lod0MultiSurface", "Lod1MultiCurve", "Lod1MultiSurface",
       "Lod1Solid", "Lod2Solid", "Lod2Surface", "Lod3Solid", "Lod3Surface", "Lod4Solid",
       "Lod4Surface"})
  \cup In("BLDG", {"Lod0FootPrint", "Lod0RoofEdge",
       "Lod1MultiCurve", "Lod1MultiSurface", "Lod1Solid", "Lod1TerrainIntersection",
       "Lod2MultiCurve", "Lod2MultiSurface", "Lod2Solid", "Lod2TerrainIntersection",
       "Lod3MultiCurve", "Lod3MultiSurface", "Lod3Solid", "Lod3TerrainIntersection",
       "Lod4MultiCurve", "Lod4MultiSurface", "Lod4Solid", "Lod4TerrainIntersection"})
  \cup In("FRN", {"Lod1TerrainIntersection", "Lod2TerrainIntersection",
       "Lod3TerrainIntersection", "Lod4TerrainIntersection"})
  \cup {"LUSE", "TRANS"} \X {"Lod1MultiSurface", "Lod2MultiSurface", "Lod3MultiSurface",
       "Lod4MultiSurface"}

VegetationGeometryProperties ==
  In("VEG", {"Lod1Geometry", "Lod2Geometry", "Lod3Geometry", "Lod4Geometry"})

AnyGeometryProperties ==
  In("GEN", {"Lod0Geometry", "Lod1Geometry", "Lod2Geometry", "Lod3Geometry", "Lod4Geometry"})
  \cup In("FRN", {"Lod1Geometry", "Lod2Geometry", "Lod3Geometry", "Lod4Geometry"})
  \cup In("BLDG", {"Lod2Geometry", "Lod3Geometry", "Lod4Geometry"})
  \cup VegetationGeometryProperties

ImplicitGeometryProperties ==
  In("GEN", {"Lod0ImplicitRepresentation"})
  \cup {"VEG", "FRN", "GEN"} \X {"Lod1ImplicitRepresentation", "Lod2ImplicitRepresentation",
       "Lod3ImplicitRepresentation", "Lod4ImplicitRepresentation"}

SkippedProperties == {<<"GML", "MultiPoint">>, <<"GRP", "Geometry">>, <<"TRANS", "Lod0Network">>}
AddressProperties == {<<"BLDG", "Address">>, <<"CORE", "Address">>, <<"CORE", "XalAddress">>}

(* A relief geometry is parsed for the LOD in the attribute dem:lod, which *)
(* std::stoi cannot convert as long as that element has not been seen.     *)
CityObjectStart(n) ==
  IF n \in GenericAttributes \cup CityObjectAttributes THEN Accept
  ELSE IF n = <<"GML", "RectifiedGridCoverage">> THEN Push(Element("RectifiedGridCoverage"))
  ELSE IF n \in ChildObjectProperties THEN Push(Element("CityObject"))
  ELSE IF n \in AppearanceProperties THEN Push(Element("Appearance"))
  ELSE IF n \in ReliefGeometryProperties THEN Push(Element("Geometry")) \cup Throw
  ELSE IF n \in GeometryProperties THEN Push(Element("Geometry"))
  ELSE IF n \in AnyGeometryProperties
       THEN Push(DelayedChoice(<<"Polygon", "LineString", "Geometry">>))
  ELSE IF n \in ImplicitGeometryProperties THEN Push(Element("ImplicitGeometry"))
  ELSE IF n = <<"CORE", "ExternalReference">> THEN Push(Element("ExternalReference"))
  ELSE IF n \in SkippedProperties THEN Push(Skip(n))
  ELSE IF n \in AddressProperties THEN Push(Element("Address"))
  ELSE AcceptIf(n \in GMLFeatureNodes)

CityObjectEnd(n) ==
  AcceptIf(n \in GenericAttributes \cup CityObjectAttributes \cup ChildObjectProperties
             \cup AppearanceProperties \cup GeometryProperties
             \cup (ReliefGeometryProperties \ In("DEM", {"Extent"}))
             \cup (AnyGeometryProperties \ VegetationGeometryProperties)
             \cup ImplicitGeometryProperties \cup In("CORE", {"ExternalReference"})
             \cup In("GML", {"MultiPoint"}) \cup In("TRANS", {"Lod0Network"})
             \cup AddressProperties \cup GMLFeatureNodes)

-----------------------------------------------------------------------------
(* GeometryElementParser, PolygonElementParser, LinearRingElementParser,   *)
(* LineStringElementParser                                                 *)
GeometryTypes ==
  In("GML", {"CompositeSolid", "Solid", "MultiSurface", "CompositeSurface",
       "TriangulatedSurface", "OrientableSurface", "MultiSolid", "Shell",
       "PolyhedralSurface", "Surface", "MultiCurve", "MultiPoint", "MultiGeometry"})

ChildGeometryProperties == In("GML", {"Interior", "Exterior", "SolidMember"})
SurfaceProperties == In("GML", {"SurfaceMember", "BaseSurface"})
PatchProperties == In("GML", {"Patches", "TrianglePatches"})

(* x: the element has an xlink, which the factory resolves later.          *)
GeometryStart(n, x) ==
  IF n \in ChildGeometryProperties THEN Push(Element("Geometry"))
  ELSE IF n \in SurfaceProperties
       THEN IF x THEN Accept ELSE Push(DelayedChoice(<<"Polygon", "Geometry">>))
  ELSE IF n \in PatchProperties THEN Push(Sequence("Polygon", n))
  ELSE AcceptIf(n \in GMLObjectNodes)

GeometryEnd(n) ==
  AcceptIf(n \in GMLObjectNodes \cup ChildGeometryProperties \cup SurfaceProperties
                  \cup PatchProperties)

RingProperties == In("GML", {"Interior", "Exterior"})

PolygonStart(n) ==
  IF n \in RingProperties THEN Push(Element("LinearRing")) ELSE AcceptIf(n \in GMLObjectNodes)

PolygonEnd(n) == AcceptIf(n \in RingProperties \cup GMLObjectNodes)

PositionNodes == In("GML", {"PosList", "Pos"})

(* ImplicitGeometryElementParser *)
ImplicitGeometryStart(n, x) ==
  IF n = <<"CORE", "RelativeGMLGeometry">>
  THEN IF x THEN Accept ELSE Push(DelayedChoice(<<"Polygon", "LineString", "Geometry">>))
  ELSE IF n = <<"CORE", "LibraryObject">> THEN Push(Skip(InvalidNode))
  ELSE AcceptIf(n \in GMLObjectNodes \cup In("GML", {"ReferencePoint", "Point", "Pos"})
                     \cup In("CORE", {"TransformationMatrix", "ReferencePoint", "MimeType"}))

(* The end tag of a mime type is recorded and then reported as unknown.    *)
ImplicitGeometryEnd(n) ==
  AcceptIf(n \in GMLObjectNodes \cup In("GML", {"ReferencePoint", "Point", "Pos"})
                  \cup In("CORE", {"TransformationMatrix", "ReferencePoint",
                          "RelativeGMLGeometry", "LibraryObject"}))

-----------------------------------------------------------------------------
(* AppearanceElementParser and the parsers of surface data                 *)
AppearanceStart(n, x) ==
  IF n = <<"APP", "SurfaceDataMember">>
  THEN IF x THEN Accept ELSE Push(DelayedChoice(<<"Material", "Texture", "GeoRefTexture">>))
  ELSE AcceptIf(n \in GMLObjectNodes \cup In("APP", {"Theme"}))

AppearanceEnd(n) == AcceptIf(n \in GMLObjectNodes \cup In("APP", {"Theme", "SurfaceDataMember"}))

MaterialNodes ==
  GMLObjectNodes \cup In("APP", {"DiffuseColor", "EmissiveColor", "SpecularColor", "Shininess",
       "Transparency", "AmbientIntensity", "IsFront", "isSmooth", "Target"})

TextureNodes ==
  GMLObjectNodes \cup In("APP", {"ImageURI", "TextureType", "WrapMode", "BorderColor",
       "TexCoordList", "IsFront", "MimeType", "Target", "TextureCoordinates"})

(* AddressParser and ExternalReferenceParser                               *)
AddressNodes ==
  AddressProperties
  \cup In("XAL", {"AddressDetails", "Country", "Locality", "PostalCode", "Thoroughfare",
       "CountryName", "LocalityName", "ThoroughfareName", "ThoroughfareNumber",
       "PostalCodeNumber"})

ExternalReferenceNodes ==
  In("CORE", {"ExternalObject", "InformationSystem", "Name", "Uri"})

-----------------------------------------------------------------------------
(* The dispatch on the kind of parser.                                     *)
BoundNodes(k) ==
  CASE k = "CityModel"             -> In("CORE", {"CityModel"})
    [] k = "CityObject"            -> CityObjectTypes
    [] k = "Appearance"            -> In("APP", {"Appearance"})
    [] k = "Material"              -> In("APP", {"Material", "X3DMaterial"})
    [] k = "Texture"               -> In("APP", {"ParameterizedTexture"})
    [] k = "GeoRefTexture"         -> In("APP", {"GeoreferencedTexture"})
    [] k = "Geometry"              -> GeometryTypes
    [] k = "Polygon"               -> In("GML", {"Triangle", "Rectangle", "Polygon", "PolygonPatch"})
    [] k = "LinearRing"            -> In("GML", {"LinearRing"})
    [] k = "LineString"            -> In("GML", {"LineString", "Point"})
    [] k = "ImplicitGeometry"      -> In("CORE", {"ImplicitGeometry"})
    [] k = "Address"               -> AddressProperties
    [] k = "RectifiedGridCoverage" -> In("GML", {"RectifiedGridCoverage"})

(* ExternalReferenceParser only logs an unexpected node and binds to it.   *)
BindsTo(k, nodes) == IF k = "ExternalReference" THEN nodes ELSE BoundNodes(k) \cap nodes

StartReaction(k, n, x) ==
  CASE k = "CityModel"        -> CityModelStart(n)
    [] k = "CityObject"       -> CityObjectStart(n)
    [] k = "Appearance"       -> AppearanceStart(n, x)
    [] k = "Material"         -> AcceptIf(n \in MaterialNodes)
    [] k = "Texture"          -> AcceptIf(n \in TextureNodes)
    [] k = "GeoRefTexture"    -> Push(Skip(InvalidNode))
    [] k = "Geometry"         -> GeometryStart(n, x)
    [] k = "Polygon"          -> PolygonStart(n)
    [] k \in {"LinearRing", "LineString"} -> AcceptIf(n \in PositionNodes \cup GMLObjectNodes)
    [] k = "ImplicitGeometry" -> ImplicitGeometryStart(n, x)
    [] k = "Address"          -> AcceptIf(n \in AddressNodes)
    [] k = "RectifiedGridCoverage" -> AcceptIf(n \in GMLObjectNodes)
    [] k = "ExternalReference" -> AcceptIf(n \in ExternalReferenceNodes \cup GMLObjectNodes)

EndReaction(k, n) ==
  CASE k = "CityModel"        -> CityModelEnd(n)
    [] k = "CityObject"       -> CityObjectEnd(n)
    [] k = "Appearance"       -> AppearanceEnd(n)
    [] k = "Material"         -> AcceptIf(n \in MaterialNodes)
    [] k = "Texture"          -> AcceptIf(n \in TextureNodes)
    [] k = "GeoRefTexture"    -> Push(Skip(InvalidNode))
    [] k = "Geometry"         -> GeometryEnd(n)
    [] k = "Polygon"          -> PolygonEnd(n)
    [] k \in {"LinearRing", "LineString"} -> AcceptIf(n \in PositionNodes \cup GMLObjectNodes)
    [] k = "ImplicitGeometry" -> ImplicitGeometryEnd(n)
    [] k = "Address"          -> AcceptIf(n \in AddressNodes)
    [] k = "RectifiedGridCoverage" -> AcceptIf(n \in GMLObjectNodes)
    [] k = "ExternalReference" -> AcceptIf(n \in {<<"CORE", "ExternalObject">>} \cup GMLObjectNodes)
=============================================================================
