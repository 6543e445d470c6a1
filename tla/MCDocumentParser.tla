-------------------------- MODULE MCDocumentParser --------------------------
(* Model-checking instances of DocumentParser with the tables of           *)
(* ElementParsers: a content model after the CityGML schema, with foreign  *)
(* and misplaced elements, restricted to the alphabet of a run.            *)
EXTENDS DocumentParser

EP == INSTANCE ElementParsers

CONSTANT Alphabet  \* the element names documents of the run are made of

N(prefix, names) == {prefix} \X names

Foreign == N("ext", {"Unknown"})    \* not a registered node
Aliased == N("tex", {"Target"})     \* found by its name without the prefix

AllNames ==
  Foreign \cup Aliased
  \cup N("CORE", {"CityModel", "CityObjectMember", "CreationDate", "ExternalReference",
        "InformationSystem", "ExternalObject", "Uri", "Address", "XalAddress",
        "ImplicitGeometry", "RelativeGMLGeometry", "LibraryObject", "MimeType",
        "ReferencePoint", "GeneralizesTo"})
  \cup N("GML", {"Name", "BoundedBy", "Envelope", "LowerCorner", "MultiPoint", "Solid",
        "Exterior", "Interior", "CompositeSurface", "SurfaceMember", "Surface", "Patches",
        "PolygonPatch", "Polygon", "LinearRing", "PosList", "Pos", "Point", "LineString",
        "RectifiedGridCoverage", "SolidMember"})
  \cup N("BLDG", {"Building", "BuildingPart", "WallSurface", "ConsistsOfBuildingPart",
        "BoundedBy", "Function", "Lod1Solid", "Lod2Geometry", "Address"})
  \cup N("GEN", {"StringAttribute", "Value", "Lod1ImplicitRepresentation"})
  \cup N("XAL", {"AddressDetails", "CountryName"})
  \cup N("DEM", {"ReliefFeature", "ReliefComponent", "TINRelief", "Tin", "Lod", "Extent",
        "Grid", "RasterRelief"})
  \cup N("VEG", {"PlantCover", "Lod1Geometry"})
  \cup N("APP", {"AppearanceMember", "Appearance", "Theme", "SurfaceDataMember", "X3DMaterial",
        "ParameterizedTexture", "GeoreferencedTexture", "ImageURI", "Target", "TexCoordList",
        "TextureCoordinates", "DiffuseColor"})

Children(n) ==
  LET p == n[1]
      l == n[2]
  IN CASE n \in Foreign -> Foreign \cup N("GML", {"Polygon"})
     [] l = "CityModel" -> N("CORE", {"CityObjectMember"}) \cup N("GML", {"Name", "BoundedBy"})
                             \cup N("APP", {"AppearanceMember"}) \cup Foreign
     [] l = "CityObjectMember" -> N("BLDG", {"Building"}) \cup N("DEM", {"ReliefFeature"})
                             \cup N("VEG", {"PlantCover"}) \cup Foreign
     [] l \in {"ConsistsOfBuildingPart", "GeneralizesTo"} -> N("BLDG", {"BuildingPart"}) \cup Foreign
     [] l = "BoundedBy" /\ p = "BLDG" -> N("BLDG", {"WallSurface"})
     [] l \in {"Building", "BuildingPart", "WallSurface", "PlantCover"} ->
          N("CORE", {"CreationDate", "ExternalReference", "GeneralizesTo"})
          \cup N("GML", {"Name", "MultiPoint", "BoundedBy", "Polygon"})
          \cup N("GEN", {"StringAttribute", "Lod1ImplicitRepresentation"})
          \cup N("BLDG", {"ConsistsOfBuildingPart", "BoundedBy", "Function", "Lod1Solid",
                    "Lod2Geometry", "Address"})
          \cup N("VEG", {"Lod1Geometry"}) \cup N("APP", {"AppearanceMember"}) \cup Foreign
     [] l = "StringAttribute" -> N("GEN", {"Value"})
     [] l = "BoundedBy" -> N("GML", {"Envelope"})
     [] l = "Envelope" -> N("GML", {"LowerCorner"})
     [] l = "ExternalReference" -> N("CORE", {"InformationSystem", "ExternalObject"})
     [] l = "ExternalObject" -> N("CORE", {"Uri"})
     [] l \in {"Address", "XalAddress"} ->
          N("CORE", {"Address", "XalAddress"}) \cup N("XAL", {"AddressDetails"}) \cup Foreign
     [] l = "AddressDetails" -> N("XAL", {"CountryName"}) \cup Foreign
     [] l \in {"ReliefFeature", "TINRelief", "RasterRelief"} ->
          N("DEM", {"ReliefComponent", "Lod", "Tin", "Extent", "Grid"})
     [] l = "ReliefComponent" -> N("DEM", {"TINRelief", "RasterRelief"})
     [] l = "Grid" -> N("GML", {"RectifiedGridCoverage"})
     [] l \in {"Lod1Solid", "Tin", "Extent", "Lod2Geometry", "Lod1Geometry", "RelativeGMLGeometry",
               "SolidMember"} ->
          N("GML", {"Solid", "CompositeSurface", "Surface", "Polygon", "LineString", "Point"})
          \cup Foreign
     [] l = "MultiPoint" -> N("GML", {"MultiPoint", "Point"}) \cup Foreign
     [] l \in {"Solid", "CompositeSurface", "Surface"} ->
          N("GML", {"Exterior", "Interior", "SurfaceMember", "Patches", "Name"}) \cup Foreign
     [] l \in {"Exterior", "Interior"} ->
          N("GML", {"CompositeSurface", "LinearRing"}) \cup Foreign
     [] l = "SurfaceMember" -> N("GML", {"Polygon", "CompositeSurface", "LineString"}) \cup Foreign
     [] l = "Patches" -> N("GML", {"PolygonPatch"}) \cup Foreign
     [] l \in {"Polygon", "PolygonPatch"} ->
          N("GML", {"Exterior", "Interior", "Name", "Pos"}) \cup Foreign
     [] l \in {"LinearRing", "LineString"} -> N("GML", {"PosList", "Pos", "Name"})
     [] l = "Point" -> N("GML", {"Pos"})
     [] l = "Lod1ImplicitRepresentation" -> N("CORE", {"ImplicitGeometry"})
     [] l = "ImplicitGeometry" ->
          N("CORE", {"RelativeGMLGeometry", "LibraryObject", "MimeType", "ReferencePoint"})
     [] l = "LibraryObject" -> N("CORE", {"Uri"}) \cup Foreign
     [] l = "ReferencePoint" -> N("GML", {"Point"})
     [] l = "AppearanceMember" -> N("APP", {"Appearance"})
     [] l = "Appearance" -> N("APP", {"Theme", "SurfaceDataMember"}) \cup Foreign
     [] l = "SurfaceDataMember" ->
          N("APP", {"X3DMaterial", "ParameterizedTexture", "GeoreferencedTexture"}) \cup Foreign
     [] l = "X3DMaterial" -> N("APP", {"DiffuseColor", "Target"}) \cup N("GML", {"Name"})
     [] l = "ParameterizedTexture" -> N("APP", {"ImageURI", "Target"}) \cup Aliased
     [] l = "Target" -> N("APP", {"TexCoordList"})
     [] l = "TexCoordList" -> N("APP", {"TextureCoordinates"})
     [] l = "GeoreferencedTexture" -> N("APP", {"ImageURI"}) \cup N("CORE", {"ReferencePoint"})
     [] OTHER -> {}

MCName    == Alphabet
MCNode    == Alphabet \ (Foreign \cup Aliased)
MCNoNode  == EP!InvalidNode
MCNoName  == EP!InvalidNode
MCNodeOf  == [n \in Alphabet |-> IF n \in Foreign THEN EP!InvalidNode
                                 ELSE IF n \in Aliased THEN <<"APP", "Target">> ELSE n]
MCKind    == EP!ParserKind
MCBinds   == [k \in EP!ParserKind |-> EP!BindsTo(k, MCNode)]
MCChildStart(k, n, x) == EP!StartReaction(k, n, x)
MCChildEnd(k, n) == EP!EndReaction(k, n)
MCRoots   == (N("CORE", {"CityModel"}) \cup Foreign \cup N("BLDG", {"Building"})) \cap Alphabet
MCContent == [n \in Alphabet |-> Children(n) \cap Alphabet]

(* The schema allows none of these inside itself.                          *)
MCNeverNested ==
  (EP!AddressProperties \cup EP!ExternalReferenceNodes \cup EP!GMLObjectNodes
     \cup N("DEM", {"ReliefComponent", "TINRelief", "RasterRelief"})) \cap MCNode

-----------------------------------------------------------------------------
(* Alphabets.                                                              *)
Frame == N("CORE", {"CityModel", "CityObjectMember"}) \cup N("BLDG", {"Building"}) \cup Foreign

CityObjectAlphabet ==
  Frame \cup N("CORE", {"CreationDate", "Address", "XalAddress"})
  \cup N("GML", {"Name", "BoundedBy", "Envelope", "LowerCorner", "MultiPoint", "Point", "Pos", "Polygon"})
  \cup N("BLDG", {"BuildingPart", "WallSurface", "ConsistsOfBuildingPart", "BoundedBy", "Address"})
  \cup N("GEN", {"StringAttribute", "Value"}) \cup N("XAL", {"AddressDetails", "CountryName"})
  \cup N("DEM", {"ReliefFeature", "ReliefComponent", "TINRelief", "Lod", "Tin"})

GeometryAlphabet ==
  Frame \cup N("GML", {"Name", "Solid", "Exterior", "Interior", "CompositeSurface",
     "SurfaceMember", "Surface", "Patches", "PolygonPatch", "Polygon", "LinearRing", "PosList",
     "Pos", "LineString", "Point"})
  \cup N("BLDG", {"Lod1Solid", "Lod2Geometry"})

AppearanceAlphabet ==
  Frame \cup N("APP", {"AppearanceMember", "Appearance", "Theme", "SurfaceDataMember",
     "X3DMaterial", "ParameterizedTexture", "ImageURI", "Target", "TexCoordList",
     "TextureCoordinates", "DiffuseColor"})
  \cup Aliased \cup N("GML", {"Name", "Polygon"})
  \cup N("GEN", {"Lod1ImplicitRepresentation"})
  \cup N("CORE", {"ImplicitGeometry", "RelativeGMLGeometry", "LibraryObject", "ReferencePoint"})

(* The elements whose end tags the parsers report as unknown: vegetation   *)
(* geometry, relief extent, mime type, the parts of external references.   *)
LenientAlphabet ==
  Frame \cup N("VEG", {"PlantCover", "Lod1Geometry"}) \cup N("GML", {"Polygon", "Name"})
  \cup N("CORE", {"ExternalReference", "InformationSystem", "ExternalObject", "Uri",
        "ImplicitGeometry", "MimeType", "LibraryObject", "GeneralizesTo"})
  \cup N("GEN", {"Lod1ImplicitRepresentation"}) \cup N("BLDG", {"BuildingPart"})
  \cup N("DEM", {"ReliefFeature", "ReliefComponent", "RasterRelief", "Grid", "Lod", "Extent"})
  \cup N("GML", {"RectifiedGridCoverage"})

(* All of these: every element whose parser keeps to the rules on start    *)
(* tags (GeoRefTexture does not, see GeoRefAlphabet).                      *)
DocumentAlphabet ==
  CityObjectAlphabet \cup GeometryAlphabet \cup AppearanceAlphabet \cup LenientAlphabet

GeoRefAlphabet ==
  Frame \cup N("APP", {"AppearanceMember", "Appearance", "Theme", "SurfaceDataMember",
     "GeoreferencedTexture", "ImageURI"})
  \cup N("CORE", {"ReferencePoint"}) \cup N("GML", {"Point", "Pos"})
=============================================================================
