----------------------------- MODULE MCTesselation -----------------------------
(* A model-checking instance of PolygonTesselation: closed rings and rings *)
(* with duplicate vertices, contours that are or become too short, rings   *)
(* without texture coordinates, with lists that do not match, and one      *)
(* definition in two themes.                                               *)
EXTENDS PolygonTesselation

Exterior(p) == [exterior |-> TRUE, points |-> p]
Interior(p) == [exterior |-> FALSE, points |-> p]
Coordinates(of, ring, length) == [of |-> of, ring |-> ring, length |-> length]

Polygon(r, t, c) == [rings |-> r, themes |-> t, coordinates |-> c]

MCDocuments ==
  {Polygon(<<Exterior(<<1, 2, 3, 1>>)>>, <<1, 1>>, <<Coordinates(1, 1, 4)>>),
   Polygon(<<Interior(<<4, 4, 4>>), Exterior(<<1, 2, 3>>)>>, <<1, 2>>,
           <<Coordinates(1, 2, 3), Coordinates(2, 1, 3)>>),
   Polygon(<<Exterior(<<1, 2>>), Interior(<<1, 3, 2>>)>>, <<1>>, <<Coordinates(1, 1, 2)>>),
   Polygon(<<Exterior(<<1, 2, 3>>), Exterior(<<4, 5, 6>>)>>, <<>>, <<>>),
   Polygon(<<Interior(<<1, 1, 2, 3>>)>>, <<1, 2, 3>>,
           <<Coordinates(1, 1, 2), Coordinates(2, 1, 4), Coordinates(3, 1, 6)>>),
   Polygon(<<Exterior(<<1, 1>>)>>, <<1>>, <<Coordinates(1, 1, 2)>>),
   Polygon(<<>>, <<1>>, <<>>)}
=============================================================================
