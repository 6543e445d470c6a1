----------------------------- MODULE MCSerializer ----------------------------
(* Model-checking instances of CityGMLSerializer: city models that differ  *)
(* from a plain one in their objects, geometries, appearances or details.  *)
EXTENDS CityGMLSerializer

O == 1..3        \* objects
G == 11..13      \* geometries
P == 21..22      \* polygons
L == 31..32      \* line strings
M == 41..42      \* materials and textures
R == 51..53      \* rings

Nothing(s) == [x \in s |-> <<>>]

Exterior(r) == [kind |-> "exterior", ring |-> r]
Interior(r) == [kind |-> "interior", ring |-> r]

(* A building with one surface.                                            *)
Plain ==
  [roots |-> <<1>>, type |-> (1 :> "Building"), children |-> (1 :> <<>>),
   attributes |-> (0 :> <<>> @@ 1 :> <<>>), geometries |-> (1 :> <<11>>),
   lod |-> [g \in G |-> 2], geometryType |-> [g \in G |-> "Unknown"], parts |-> Nothing(G),
   polygons |-> (11 :> <<21>> @@ 12 :> <<>> @@ 13 :> <<>>), lines |-> Nothing(G),
   rings |-> [p \in P |-> <<Exterior(51)>>], located |-> {31},
   definitions |-> Nothing(G \cup P), address |-> <<>>, externals |-> <<>>, grids |-> <<>>,
   named |-> O \cup G \cup P \cup L \cup M, envelope |-> FALSE, srs |-> FALSE]

(* Two objects, side by side or one in the other, each with a geometry     *)
(* that may be the same type of surface, without container, or too deep.   *)
WithObjects ==
  {[Plain EXCEPT !.roots = IF nested THEN <<1>> ELSE <<1, 2>>,
                 !.children = 1 :> (IF nested THEN <<2>> ELSE <<>>) @@ 2 :> <<>>,
                 !.type = 1 :> t1 @@ 2 :> t2,
                 !.attributes = Nothing(0..2),
                 !.geometries = 1 :> <<11>> @@ 2 :> <<12>>,
                 !.lod[12] = l,
                 !.polygons = 11 :> <<21>> @@ 12 :> <<21>> @@ 13 :> <<>>] :
     nested \in BOOLEAN, l \in {0, 2, 5},
     t1 \in {"Building", "CityObjectGroup", "ReliefFeature"},
     t2 \in {"WallSurface", "BuildingPart", "TINRelief"}}

(* A material has its theme, and another one in which it has no targets.   *)
Definition(kind, appearance, theme, target) ==
  [kind |-> kind, appearance |-> appearance, theme |-> theme, target |-> target,
   themes |-> IF appearance = 42 THEN <<theme, 3>> ELSE <<theme>>,
   given |-> IF kind = "texture" THEN {"imageURI"}
             ELSE IF target = 22 THEN {"diffuseColor", "shininess"} ELSE {},
   rings |-> IF kind = "texture" /\ target = 22 THEN <<51>> ELSE <<>>]

WithThreeObjects ==
  {[Plain EXCEPT !.children = (1 :> <<2>> @@ 2 :> <<3>> @@ 3 :> <<>>),
                 !.type = 1 :> t @@ 2 :> "BuildingPart" @@ 3 :> "RoofSurface",
                 !.attributes = Nothing(0..3),
                 !.geometries = 1 :> <<>> @@ 2 :> <<>> @@ 3 :> <<11>>,
                 !.definitions[21] = <<Definition("material", 41, 1, 21)>>] :
     t \in {"Building", "WaterBody"}}

(* Geometries without content, of several polygons and lines, or of parts  *)
(* of which one shares its polygon; rings without vertices, and a polygon  *)
(* that has lost its exterior ring.                                        *)
WithGeometries ==
  {[Plain EXCEPT !.polygons[11] = ps, !.lines[11] = ls,
                 !.rings[21] = <<Exterior(51), Interior(52)>>, !.located = {31, 51},
                 !.named = IF ps = <<>> THEN {} ELSE @ \cup R] :
     ps \in {<<>>, <<21>>, <<21, 22>>}, ls \in {<<>>, <<31>>}}
  \cup {[Plain EXCEPT !.polygons[11] = <<>>, !.geometryType[11] = t] : t \in {"Roof", "Tin"}}
  \cup {[Plain EXCEPT !.rings[21] = rs] : rs \in {<<>>, <<Interior(52), Interior(53)>>}}
  \cup {[Plain EXCEPT !.lines[11] = <<31, 32>>, !.polygons[11] = <<>>]}
  \cup {[Plain EXCEPT !.parts[11] = ps, !.polygons[11] = <<>>, !.polygons[12] = <<21>>,
                      !.polygons[13] = qs] : ps \in {<<12>>, <<12, 13>>}, qs \in {<<>>, <<21>>}}

(* Two definitions for the polygons of a geometry.                         *)
WithDefinitions ==
  {[Plain EXCEPT !.polygons[11] = <<21, 22>>,
                 !.definitions[11] = <<Definition(k1, 41, 1, 21)>>,
                 !.definitions[22] = <<Definition(k2, a, t, 22)>>] :
     k1, k2 \in {"material", "texture"}, a \in M, t \in 1..2}

Addresses == {{}, {"LocalityName"}, {"CountryName", "PostalCodeNumber"},
              {"CountryName", "LocalityName", "ThoroughfareName", "PostalCodeNumber"},
              {"CountryName", "LocalityName", "ThoroughfareNumber"}}
References == {{}, {"name", "uri", "bounds"}, {"gml:id", "informationSystem", "uri", "bounds", "srsName"}}

(* Attributes, addresses and what else an object has. The generic          *)
(* attribute "class" is taken for that of a land use.                      *)
WithDetails ==
  {[Plain EXCEPT !.attributes[1] = <<[name |-> "class", node |-> n]>>] : n \in {"bldg", "luse"}}
  \cup
  {[Plain EXCEPT !.attributes = 0 :> <<[name |-> "a", node |-> ""]>>
                             @@ 1 :> <<[name |-> "creationdate", node |-> "core"]>>,
                 !.address = 1 :> a, !.envelope = TRUE, !.srs = (a = {})] : a \in Addresses}
  \cup
  {[Plain EXCEPT !.externals = 1 :> x, !.grids = 1 :> (x \ {"name"})] : x \in References}

EveryOption == {"appearances", "addresses", "externalReferences", "genericAttributes"}
MCOptions == {EveryOption, {"emptyGeometries"}}
MCCityModels == {Plain} \cup WithObjects \cup WithThreeObjects \cup WithGeometries
                \cup WithDefinitions \cup WithDetails
=============================================================================
