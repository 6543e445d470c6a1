----------------------- MODULE GeoCoordinateTransformer -----------------------
(***************************************************************************)
(* The transformation of a finished city model to the reference system of  *)
(* ParserParams::destSRS. The recursive functions pass a GeoTransform      *)
(* down; the calls still to make, each with the GeoTransform it gets, are  *)
(* the stack calls. Coordinates are abstracted to the reference systems    *)
(* they were transformed from, in order.                                   *)
(***************************************************************************)
EXTENDS Naturals, Sequences, SequencesExt

CONSTANTS
  Name,        \* the strings that srsName attributes and destSRS take
  NoName,      \* the empty string, a member of Name
  System,      \* reference systems
  Unknown,     \* no system: the name is not understood, or has no transformation
  SystemOf,    \* the system each name stands for, or Unknown
  Destinations, \* what ParserParams::destSRS may be
  CityModels   \* city models: records of the fields named below

(* An empty name is not understood (OGRSpatialReference, external).        *)
ASSUME NamesAssumption ==
  /\ Unknown \notin System
  /\ NoName \in Name /\ Destinations \subseteq Name \ {NoName}
  /\ SystemOf \in [Name -> System \cup {Unknown}]
  /\ SystemOf[NoName] = Unknown

CityModelNode == 0

(* The parts of a model: 0 for the model itself, its city objects, their   *)
(* implicit geometries, geometries, polygons and line strings, without the *)
(* geometries of implicit geometries, which have local coordinates.        *)
(* located: the model and objects whose envelope has valid bounds.         *)
Nodes(m)  == {CityModelNode} \cup m.objects \cup m.implicits \cup m.geometries
Shapes(m) == m.polygons \cup m.lines

ASSUME ModelsAssumption ==
  \A m \in CityModels :
    /\ Nodes(m) \cap Shapes(m) = {}
    /\ m.located \subseteq {CityModelNode} \cup m.objects
    /\ m.srsName \in [Nodes(m) -> Name]
    /\ m.children \in [{CityModelNode} \cup m.objects -> Seq(m.objects)]
    /\ m.implicitsOf \in [m.objects -> Seq(m.implicits)]
    /\ m.parts \in [m.objects \cup m.geometries -> Seq(m.geometries)]
    /\ m.shapes \in [m.geometries -> SUBSET Shapes(m)]

(* What a node holds, in the order in which it is visited.                 *)
PartsOf(m, y) ==
  (IF y \in {CityModelNode} \cup m.objects THEN m.children[y] ELSE <<>>)
  \o (IF y \in m.objects THEN m.implicitsOf[y] ELSE <<>>)
  \o (IF y \in m.objects \cup m.geometries THEN m.parts[y] ELSE <<>>)

(* The parts of a model are a tree: a city object, an implicit geometry and *)
(* a geometry that is not one of an implicit geometry are held once, each by *)
(* a unique_ptr or added to its geometry by the parser that made it; only  *)
(* polygons and line strings are shared. Every part is held, in the end,   *)
(* by the model.                                                           *)
ASSUME TreeAssumption ==
  \A m \in CityModels :
    /\ CityModelNode \notin m.objects \cup m.implicits \cup m.geometries
    /\ m.objects \cap m.implicits = {}
    /\ m.geometries \cap (m.objects \cup m.implicits) = {}
    /\ \A y, z \in Nodes(m) : \A i \in DOMAIN PartsOf(m, y), j \in DOMAIN PartsOf(m, z) :
         PartsOf(m, y)[i] = PartsOf(m, z)[j] => y = z /\ i = j
    /\ \A S \in SUBSET Nodes(m) :
         CityModelNode \in S /\ (\A y \in S : Range(PartsOf(m, y)) \subseteq S) => S = Nodes(m)

VARIABLES
  model,     \* the city model; it does not change but for the two below
  destination, \* m_destinationSRS
  srsName,   \* the srsName of the envelopes, implicit geometries and geometries
  from,      \* the systems from which the coordinates of a part were transformed
  sourceURN, \* the two maps m_transformed..SourceURNMap, NoName where there is no entry
  calls,     \* calls still to make, the next one first
  gdal,      \* whether the library was built with GDAL
  phase      \* "finished", "transforming", "done" or "aborted" by an exception

vars == <<model, destination, srsName, from, sourceURN, calls, gdal, phase>>

-----------------------------------------------------------------------------
(* GeoTransform: the name of the last source that was valid, and the       *)
(* source of m_transformation, Unknown for nullptr.                        *)
NoTransform == [urn |-> NoName, system |-> Unknown]

(* The copy constructor drops the transformation and the name.             *)
CopyKeepsSource(t) == [urn |-> t.urn, system |-> Unknown]  \* mutant: m_sourceURN is copied
Copy(t) == NoTransform

valid(t) == t.system # Unknown

hasSourceSRS(t, name) == valid(t) /\ SystemOf[name] = t.system

setSourceSRSUnnamed(t, name) ==  \* mutant: m_sourceURN is not set
  [t EXCEPT !.system = SystemOf[name]]

(* A name that is not understood leaves the old name behind.               *)
setSourceSRS(t, name) ==
  IF SystemOf[name] = Unknown THEN [t EXCEPT !.system = Unknown]
  ELSE [urn |-> name, system |-> SystemOf[name]]

(* Objects and implicit geometries: their own name, if it is another one.  *)
TransformFor(name, t) ==
  IF name # NoName /\ ~hasSourceSRS(t, name) THEN setSourceSRS(Copy(t), name) ELSE t

(* Geometries start from the name of their parent.                         *)
GeometryTransform(name, parent) ==
  LET t == setSourceSRS(Copy(parent), parent.urn)
  IN IF name # NoName /\ ~hasSourceSRS(t, name) THEN setSourceSRS(t, name) ELSE t

-----------------------------------------------------------------------------
Init ==
  /\ model \in CityModels
  /\ destination \in Destinations
  /\ srsName = model.srsName
  /\ from = [x \in Nodes(model) \cup Shapes(model) |-> <<>>]
  /\ sourceURN = [x \in Shapes(model) |-> NoName]
  /\ calls = <<>>
  /\ gdal \in BOOLEAN
  /\ phase = "finished"

Calls(kind, nodes, t) == [i \in DOMAIN nodes |-> [kind |-> kind, node |-> nodes[i], with |-> t]]

(* The coordinates of a part, and its name, are in the destination system. *)
Move(x, t) ==
  /\ from' = [from EXCEPT ![x] = Append(@, t.system)]
  /\ srsName' = [srsName EXCEPT ![x] = destination]

Stays == UNCHANGED <<from, srsName>>

(* transformToDestinationSRS                                               *)
Start ==
  /\ phase = "finished"
  /\ gdal
  /\ SystemOf[destination] # Unknown
  /\ phase' = "transforming"
  /\ LET t == IF srsName[CityModelNode] = NoName THEN NoTransform
              ELSE setSourceSRS(NoTransform, srsName[CityModelNode])
     IN /\ IF CityModelNode \in model.located /\ valid(t) THEN Move(CityModelNode, t) ELSE Stays
        /\ calls' = Calls("object", model.children[CityModelNode], t)
  /\ UNCHANGED <<model, destination, sourceURN, gdal>>

(* The constructor of GeoTransform throws, and so does endDocument.        *)
StartFails ==
  /\ phase = "finished"
  /\ gdal
  /\ SystemOf[destination] = Unknown
  /\ phase' = "aborted"
  /\ UNCHANGED <<model, destination, srsName, from, sourceURN, calls, gdal>>

(* Without GDAL there is a warning.                                        *)
StartWithoutGDAL ==
  /\ phase = "finished"
  /\ ~gdal
  /\ phase' = "done"
  /\ UNCHANGED <<model, destination, srsName, from, sourceURN, calls, gdal>>

NextCall(kind) ==
  /\ phase = "transforming"
  /\ calls # <<>>
  /\ Head(calls).kind = kind
  /\ UNCHANGED <<model, destination, gdal, phase>>

TransformObject ==
  /\ NextCall("object")
  /\ LET o == Head(calls).node
         t == TransformFor(srsName[o], Head(calls).with)
     IN /\ IF o \in model.located /\ valid(t) THEN Move(o, t) ELSE Stays
        /\ calls' = Calls("object", model.children[o], t)
                    \o Calls("implicit", model.implicitsOf[o], t)
                    \o Calls("geometry", model.parts[o], t) \o Tail(calls)
  /\ UNCHANGED sourceURN

TransformImplicitRenamed ==  \* mutant: renamed although the reference point stays
  /\ NextCall("implicit")
  /\ LET i == Head(calls).node
         t == TransformFor(srsName[i], Head(calls).with)
     IN /\ srsName' = [srsName EXCEPT ![i] = destination]
        /\ from' = IF valid(t) THEN [from EXCEPT ![i] = Append(@, t.system)] ELSE from
  /\ calls' = Tail(calls)
  /\ UNCHANGED sourceURN

(* Only the reference point: the shared geometry has local coordinates.    *)
TransformImplicit ==
  /\ NextCall("implicit")
  /\ LET i == Head(calls).node
         t == TransformFor(srsName[i], Head(calls).with)
     IN IF valid(t) THEN Move(i, t) ELSE Stays
  /\ calls' = Tail(calls)
  /\ UNCHANGED sourceURN

TransformGeometryAgain ==  \* mutant: the map is not looked at
  /\ NextCall("geometry")
  /\ LET g == Head(calls).node
         t == GeometryTransform(srsName[g], Head(calls).with)
     IN IF valid(t)
        THEN /\ from' = [x \in DOMAIN from |->
                           IF x \in model.shapes[g] THEN Append(from[x], t.system) ELSE from[x]]
             /\ sourceURN' = [x \in DOMAIN sourceURN |->
                                IF x \in model.shapes[g] THEN t.urn ELSE sourceURN[x]]
             /\ calls' = Calls("geometry", model.parts[g], t) \o Tail(calls)
        ELSE calls' = Tail(calls) /\ UNCHANGED <<from, sourceURN>>
  /\ UNCHANGED srsName

(* Polygons and line strings are transformed for the first geometry only.  *)
(* The parts of a geometry whose system is unknown are not visited.        *)
TransformGeometry ==
  /\ NextCall("geometry")
  /\ LET g == Head(calls).node
         t == GeometryTransform(srsName[g], Head(calls).with)
         new == {x \in model.shapes[g] : sourceURN[x] = NoName}
     IN IF valid(t)
        THEN /\ from' = [x \in DOMAIN from |->
                           IF x \in new THEN Append(from[x], t.system) ELSE from[x]]
             /\ sourceURN' = [x \in DOMAIN sourceURN |->
                                IF x \in new THEN t.urn ELSE sourceURN[x]]
             /\ calls' = Calls("geometry", model.parts[g], t) \o Tail(calls)
        ELSE calls' = Tail(calls) /\ UNCHANGED <<from, sourceURN>>
  /\ UNCHANGED srsName

End ==
  /\ phase = "transforming"
  /\ calls = <<>>
  /\ phase' = "done"
  /\ UNCHANGED <<model, destination, srsName, from, sourceURN, calls, gdal>>

Next ==
  \/ Start \/ StartFails \/ StartWithoutGDAL
  \/ TransformObject
  \/ TransformImplicit
  \/ TransformGeometry
  \/ End

Spec == Init /\ [][Next]_vars /\ WF_vars(Next)

-----------------------------------------------------------------------------
(* Properties.                                                             *)
Transform == [urn : Name, system : System \cup {Unknown}]

(* A GeoTransform that is valid is one from the system its name stands for. *)
Consistent(t) == t.system \in {Unknown, SystemOf[t.urn]}

Call ==
  [kind : {"object"}, node : model.objects, with : Transform]
  \cup [kind : {"implicit"}, node : model.implicits, with : Transform]
  \cup [kind : {"geometry"}, node : model.geometries, with : Transform]

TypeOK ==
  /\ destination \in Destinations
  /\ srsName \in [Nodes(model) -> Name]
  /\ from \in [Nodes(model) \cup Shapes(model) -> Seq(System)]
  /\ sourceURN \in [Shapes(model) -> Name]
  /\ calls \in Seq(Call)
  /\ \A i \in DOMAIN calls : Consistent(calls[i].with)
  /\ gdal \in BOOLEAN
  /\ phase \in {"finished", "transforming", "done", "aborted"}

(* A polygon or line string is transformed at most once, however many      *)
(* geometries share it, and from the system the map says                   *)
(* (m_transformedPolygonsSourceURNMap, m_transformedLineStringsSourceURNMap). *)
TransformedOnce ==
  \A x \in Shapes(model) :
    from[x] = IF sourceURN[x] = NoName THEN <<>> ELSE <<SystemOf[sourceURN[x]]>>

(* What applies to a part: its own name, else that of what it is in.       *)
Within(x) == {y \in Nodes(model) : x \in Range(PartsOf(model, y))}

Applies[x \in Nodes(model)] ==
  IF model.srsName[x] # NoName \/ x = CityModelNode THEN SystemOf[model.srsName[x]]
  ELSE Applies[CHOOSE y \in Within(x) : TRUE]

(* Geometries that are part of one whose system is unknown are left out.   *)
Reached[g \in model.geometries] ==
  /\ Applies[g] # Unknown
  /\ \A h \in Within(g) : h \in model.geometries => Reached[h]

Holding(x) == {g \in model.geometries : Reached[g] /\ x \in model.shapes[g]}

(* The coordinates of every part are transformed from the system that      *)
(* applies to it in the document, of a shared one from that of a geometry  *)
(* that holds it, and those of no other part, although a name that is not  *)
(* understood leaves an old one behind in the GeoTransform.                *)
SourceApplies ==
  phase = "done" /\ gdal =>
    /\ \A x \in Nodes(model) \ model.geometries :
         from[x] = IF x \in model.located \cup model.implicits /\ Applies[x] # Unknown
                   THEN <<Applies[x]>> ELSE <<>>
    /\ \A x \in Shapes(model) :
         IF Holding(x) = {} THEN from[x] = <<>>
         ELSE \E g \in Holding(x) : from[x] = <<Applies[g]>>

(* At any time an envelope or an implicit geometry names the destination   *)
(* system, if the document does not, exactly when its coordinates are in   *)
(* that system (setEnvelope, setReferencePoint, setSRSName).               *)
NamesMatchCoordinates ==
  \A x \in Nodes(model) \ model.geometries :
    IF from[x] = <<>> THEN srsName[x] = model.srsName[x] ELSE srsName[x] = destination
=============================================================================
