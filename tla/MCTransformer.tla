----------------------------- MODULE MCTransformer -----------------------------
(* A model-checking instance of GeoCoordinateTransformer: a building with a *)
(* part; the part has an implicit geometry and a geometry with a part; the  *)
(* geometries share polygons. Every part may name any reference system.     *)
EXTENDS GeoCoordinateTransformer, TLC

CONSTANTS none, dest, wgs, wgsToo, gk, misspelt, WGS, GK, UTM, unknown

MCName   == {none, dest, wgs, wgsToo, gk, misspelt}
MCSystem == {WGS, GK, UTM}
MCSystemOf == dest :> UTM @@ wgs :> WGS @@ wgsToo :> WGS @@ gk :> GK
              @@ misspelt :> unknown @@ none :> unknown

Building == 1
Part     == 2
Implicit == 3
Solid    == 11
Member   == 12
Surface  == 13
Shared   == 21
Line     == 22

Objects == {Building, Part}

(* The building holds the part and the surface, the part the solid, which  *)
(* has a member. What the geometries hold varies.                          *)
City(names, solid, member, surface, located) ==
  [objects |-> Objects, implicits |-> {Implicit}, geometries |-> {Solid, Member, Surface},
   polygons |-> {Shared}, lines |-> {Line}, located |-> located, srsName |-> names,
   children |-> (CityModelNode :> <<Building>> @@ Building :> <<Part>> @@ Part :> <<>>),
   implicitsOf |-> (Building :> <<>> @@ Part :> <<Implicit>>),
   parts |-> (Building :> <<Surface>> @@ Part :> <<Solid>> @@ Solid :> <<Member>>
              @@ Member :> <<>> @@ Surface :> <<>>),
   shapes |-> (Solid :> solid @@ Member :> member @@ Surface :> surface)]

Somewhere == {none, wgs, gk, misspelt}
NameOf(m, b, p, i, s, e, u) ==
  [x \in {CityModelNode, Building, Part, Implicit, Solid, Member, Surface} |->
     CASE x = CityModelNode -> m [] x = Building -> b [] x = Part -> p [] x = Implicit -> i
       [] x = Solid -> s [] x = Member -> e [] x = Surface -> u]

Names ==
  {NameOf(m, b, p, i, s, e, u) :
     m \in {none, wgs, misspelt}, b \in {none, gk}, p \in {none, wgsToo, gk, misspelt},
     i \in {none, gk}, s \in Somewhere, e \in {none, wgs, misspelt}, u \in {none, gk}}

MCCityModels ==
  {City(n, {Shared}, h, {Shared, Line}, {CityModelNode, Part}) : n \in Names, h \in {{}, {Shared, Line}}}
  \cup {City([n EXCEPT ![Building] = dest], {}, {Line}, {Line}, {Building}) : n \in Names}
=============================================================================
