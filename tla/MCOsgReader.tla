------------------------------ MODULE MCOsgReader ------------------------------
(* A model-checking instance of OsgReader: a building whose wall has       *)
(* polygons with textures that change, a shared polygon, a missing image   *)
(* and a polygon without triangles; a building of parts of other levels;   *)
(* a composite; and a document without objects.                            *)
EXTENDS OsgReader

Square   == <<0, 1, 2, 0, 2, 3>>
Triangle == <<0, 1, 2>>

Empty == [roots |-> <<>>]

(* Walls and roofs below a building without geometry of its own.           *)
Building ==
  [roots |-> <<1>>, children |-> <<<<2, 3>>, <<>>, <<>>>>,
   geometries |-> <<<<>>, <<1>>, <<2>>>>, type |-> <<"building", "wall", "roof">>,
   lod |-> <<2, 2, 2>>, polygons |-> <<<<1, 2, 3, 4>>, <<2, 5, 6>>, <<6, 1, 4>>>>,
   parts |-> <<<<>>, <<3>>, <<>>>>,
   triangles |-> <<Triangle, Square, Triangle, <<>>, Triangle, Triangle>>,
   size |-> <<3, 4, 3, 3, 3, 3>>,
   texture |-> <<"brick", "brick", NoTexture, "tile", "lost", NoTexture>>,
   frontCoords |-> {1, 2, 4}]

(* An object and its child with geometries of several levels.              *)
Levels ==
  [roots |-> <<1, 3>>, children |-> <<<<2>>, <<>>, <<>>>>,
   geometries |-> <<<<1, 2>>, <<3>>, <<4>>>>, type |-> <<"building", "wall", "roof">>,
   lod |-> <<1, 2, 3, 1, 3>>, polygons |-> <<<<1>>, <<2>>, <<>>, <<4>>, <<2, 2>>>>,
   parts |-> <<<<>>, <<>>, <<5>>, <<>>, <<>>>>,
   triangles |-> <<Triangle, Triangle, Triangle, <<>>>>, size |-> <<3, 3, 3, 3>>,
   texture |-> <<NoTexture, "tile", "tile", "brick">>, frontCoords |-> {2, 3, 4}]

MCCityModels == {Empty, Building, Levels}
=============================================================================
