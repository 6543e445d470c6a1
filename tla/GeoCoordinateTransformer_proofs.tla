-------------------- MODULE GeoCoordinateTransformer_proofs -------------------
(***************************************************************************)
(* Proofs about GeoCoordinateTransformer, for city models of any size and  *)
(* shape and any names of reference systems.                               *)
(***************************************************************************)
EXTENDS GeoCoordinateTransformer, SequenceLemmas

-----------------------------------------------------------------------------
(* GeoTransforms.                                                          *)

(* The GeoTransforms that the code makes.                                  *)
GoodTransform == {t \in Transform : Consistent(t)}

(* One that is valid has a name that is not empty, of the system it has.   *)
LEMMA ValidTransform ==
  ASSUME NEW t \in GoodTransform, valid(t)
  PROVE  /\ t.urn \in Name /\ t.urn # NoName
         /\ t.system \in System
         /\ SystemOf[t.urn] = t.system
  BY NamesAssumption DEF GoodTransform, Transform, Consistent, valid

LEMMA NoTransformGood == NoTransform \in GoodTransform
  BY NamesAssumption DEF NoTransform, GoodTransform, Transform, Consistent

LEMMA SetSourceGood ==
  ASSUME NEW t \in GoodTransform, NEW name \in Name
  PROVE  setSourceSRS(t, name) \in GoodTransform
  <1>1. CASE SystemOf[name] = Unknown
    BY <1>1 DEF setSourceSRS, GoodTransform, Transform, Consistent
  <1>2. CASE SystemOf[name] # Unknown
    BY <1>2, NamesAssumption DEF setSourceSRS, GoodTransform, Transform, Consistent
  <1>3. QED
    BY <1>1, <1>2

LEMMA TransformForGood ==
  ASSUME NEW name \in Name, NEW t \in GoodTransform
  PROVE  TransformFor(name, t) \in GoodTransform
  BY SetSourceGood, NoTransformGood DEF TransformFor, Copy

LEMMA GeometryTransformGood ==
  ASSUME NEW name \in Name, NEW parent \in GoodTransform
  PROVE  GeometryTransform(name, parent) \in GoodTransform
<1> DEFINE t == setSourceSRS(Copy(parent), parent.urn)
<1>1. parent.urn \in Name
  BY DEF GoodTransform, Transform
<1>2. t \in GoodTransform
  BY <1>1, SetSourceGood, NoTransformGood DEF Copy
<1>3. setSourceSRS(t, name) \in GoodTransform
  BY <1>2, SetSourceGood
<1>4. QED
  BY <1>2, <1>3 DEF GeometryTransform

-----------------------------------------------------------------------------
(* The stack of calls.                                                     *)

(* Calls with the GeoTransforms that the code makes.                       *)
GoodCall == {c \in Call : Consistent(c.with)}

LEMMA CallsGood ==
  ASSUME NEW kind, NEW N, NEW nodes \in Seq(N), NEW t \in GoodTransform,
         \A x \in N : [kind |-> kind, node |-> x, with |-> t] \in Call
  PROVE  Calls(kind, nodes, t) \in Seq(GoodCall)
<1> DEFINE c(i) == [kind |-> kind, node |-> nodes[i], with |-> t]
<1>1. DOMAIN nodes = 1..Len(nodes) /\ Len(nodes) \in Nat
  OBVIOUS
<1>2. \A i \in 1..Len(nodes) : nodes[i] \in N
  OBVIOUS
<1>3. \A i \in 1..Len(nodes) : c(i) \in GoodCall
  BY <1>2 DEF GoodCall, GoodTransform
<1> HIDE DEF c
<1>4. [i \in 1..Len(nodes) |-> c(i)] \in Seq(GoodCall)
  BY <1>1, <1>3
<1>5. QED
  BY <1>1, <1>4 DEF Calls, c

LEMMA GoodCalls ==
  ASSUME calls \in Seq(Call)
  PROVE  (\A i \in DOMAIN calls : Consistent(calls[i].with)) <=> calls \in Seq(GoodCall)
<1>1. ASSUME \A i \in DOMAIN calls : Consistent(calls[i].with)
      PROVE  calls \in Seq(GoodCall)
  <2>1. \A i \in 1..Len(calls) : calls[i] \in GoodCall
    BY <1>1 DEF GoodCall
  <2>2. calls = [i \in 1..Len(calls) |-> calls[i]]
    OBVIOUS
  <2>3. QED
    BY <2>1, <2>2
<1>2. ASSUME calls \in Seq(GoodCall)
      PROVE  \A i \in DOMAIN calls : Consistent(calls[i].with)
  BY <1>2 DEF GoodCall
<1>3. QED
  BY <1>1, <1>2

-----------------------------------------------------------------------------
(* The inductive invariant. The types of the coordinates need that no      *)
(* transformation that is used is without a system, and TransformedOnce    *)
(* that its name stands for that system.                                   *)
IInv ==
  /\ model \in CityModels
  /\ TypeOK
  /\ TransformedOnce
  /\ NamesMatchCoordinates

LEMMA InitIInv == Init => IInv
<1> SUFFICES ASSUME Init PROVE IInv
  OBVIOUS
<1> USE ModelsAssumption, NamesAssumption
<1>1. TypeOK
  <2>1. srsName \in [Nodes(model) -> Name]
    BY DEF Init
  <2>2. <<>> \in Seq(System) /\ <<>> \in Seq(Call)
    OBVIOUS
  <2>3. from \in [Nodes(model) \cup Shapes(model) -> Seq(System)]
    BY <2>2 DEF Init
  <2>4. sourceURN \in [Shapes(model) -> Name]
    BY DEF Init
  <2>5. calls \in Seq(Call) /\ \A i \in DOMAIN calls : Consistent(calls[i].with)
    BY <2>2 DEF Init
  <2>6. QED
    BY <2>1, <2>3, <2>4, <2>5 DEF Init, TypeOK
<1>2. TransformedOnce
  BY DEF Init, TransformedOnce
<1>3. NamesMatchCoordinates
  BY DEF Init, NamesMatchCoordinates
<1>4. QED
  BY <1>1, <1>2, <1>3 DEF IInv, Init

(* Moving the coordinates of a part that is no polygon or line string, or  *)
(* leaving it where it is, keeps names and coordinates together.           *)
LEMMA MoveOrStay ==
  ASSUME IInv, NEW x \in Nodes(model), NEW t \in GoodTransform, NEW P \in BOOLEAN,
         IF P /\ valid(t) THEN Move(x, t) ELSE Stays,
         UNCHANGED <<model, destination, sourceURN>>
  PROVE  /\ srsName' \in [Nodes(model)' -> Name]
         /\ from' \in [Nodes(model)' \cup Shapes(model)' -> Seq(System)]
         /\ sourceURN' \in [Shapes(model)' -> Name]
         /\ TransformedOnce'
         /\ NamesMatchCoordinates'
<1>0. Nodes(model)' = Nodes(model) /\ Shapes(model)' = Shapes(model) /\ model' = model
  BY DEF Nodes, Shapes
<1>1. CASE P /\ valid(t)
  <2>1. t.system \in System
    BY <1>1, ValidTransform
  <2>2. /\ from' = [from EXCEPT ![x] = Append(@, t.system)]
        /\ srsName' = [srsName EXCEPT ![x] = destination]
    BY <1>1 DEF Move
  <2>3. from[x] \in Seq(System) /\ Append(from[x], t.system) \in Seq(System)
    BY <2>1 DEF IInv, TypeOK
  <2>4. x \notin Shapes(model)
    BY ModelsAssumption DEF IInv
  <2>5. srsName' \in [Nodes(model)' -> Name]
    BY <1>0, <2>2, NamesAssumption DEF IInv, TypeOK
  <2>6. from' \in [Nodes(model)' \cup Shapes(model)' -> Seq(System)]
    BY <1>0, <2>2, <2>3 DEF IInv, TypeOK
  <2>7. TransformedOnce'
    BY <1>0, <2>2, <2>4 DEF TransformedOnce, IInv, TypeOK
  <2>8. Append(from[x], t.system) # <<>>
    BY <2>1, <2>3, AppendProperties, ZenonT(60)
  <2>9. NamesMatchCoordinates'
    BY <1>0, <2>2, <2>8 DEF NamesMatchCoordinates, IInv, TypeOK
  <2>10. sourceURN' \in [Shapes(model)' -> Name]
    BY <1>0 DEF IInv, TypeOK
  <2>11. QED
    BY <2>5, <2>6, <2>7, <2>9, <2>10
<1>2. CASE ~(P /\ valid(t))
  BY <1>0, <1>2 DEF Stays, IInv, TypeOK, TransformedOnce, NamesMatchCoordinates
<1>3. QED
  BY <1>1, <1>2

(* The next call, and those that stay on the stack.                        *)
LEMMA NextCallGood ==
  ASSUME IInv, NEW kind, NextCall(kind)
  PROVE  /\ Head(calls) \in GoodCall
         /\ Tail(calls) \in Seq(GoodCall)
         /\ Head(calls).kind = kind
         /\ Head(calls).with \in GoodTransform
<1>1. calls \in Seq(GoodCall) /\ calls # <<>>
  BY GoodCalls DEF IInv, TypeOK, NextCall
<1>2. Head(calls) \in GoodCall /\ Tail(calls) \in Seq(GoodCall)
  BY <1>1
<1>3. QED
  BY <1>2 DEF NextCall, GoodCall, Call, GoodTransform

(* Good calls pushed on the stack keep its type.                           *)
LEMMA StackTyped ==
  ASSUME calls' \in Seq(GoodCall), UNCHANGED model
  PROVE  /\ calls' \in Seq(Call)'
         /\ \A i \in DOMAIN calls' : Consistent(calls'[i].with)
<1>1. Call' = Call
  BY DEF Call
<1>2. calls' \in Seq(Call)
  BY DEF GoodCall
<1>3. \A i \in 1..Len(calls') : calls'[i] \in GoodCall
  OBVIOUS
<1>4. QED
  BY <1>1, <1>2, <1>3 DEF GoodCall

LEMMA StartStep ==
  ASSUME IInv, Start
  PROVE  IInv'
<1> DEFINE t == IF srsName[CityModelNode] = NoName THEN NoTransform
                ELSE setSourceSRS(NoTransform, srsName[CityModelNode])
<1>0. CityModelNode \in Nodes(model)
  BY DEF Nodes
<1>1. t \in GoodTransform
  BY <1>0, NoTransformGood, SetSourceGood DEF IInv, TypeOK
<1>2. \A x \in model.objects : [kind |-> "object", node |-> x, with |-> t] \in Call
  BY <1>1 DEF Call, GoodTransform
<1>3. model.children[CityModelNode] \in Seq(model.objects)
  BY ModelsAssumption DEF IInv
<1>a. /\ IF CityModelNode \in model.located /\ valid(t) THEN Move(CityModelNode, t) ELSE Stays
      /\ calls' = Calls("object", model.children[CityModelNode], t)
      /\ UNCHANGED <<model, destination, sourceURN, gdal>>
      /\ phase' = "transforming"
  BY DEF Start
<1> HIDE DEF t
<1>4. calls' \in Seq(GoodCall)
  BY <1>1, <1>2, <1>3, <1>a, CallsGood
<1>5. (CityModelNode \in model.located) \in BOOLEAN
  OBVIOUS
<1>6. /\ srsName' \in [Nodes(model)' -> Name]
      /\ from' \in [Nodes(model)' \cup Shapes(model)' -> Seq(System)]
      /\ sourceURN' \in [Shapes(model)' -> Name]
      /\ TransformedOnce'
      /\ NamesMatchCoordinates'
  BY <1>0, <1>1, <1>5, <1>a, MoveOrStay
<1>7. QED
  BY <1>4, <1>6, <1>a, StackTyped DEF IInv, TypeOK

LEMMA ObjectStep ==
  ASSUME IInv, TransformObject
  PROVE  IInv'
<1> DEFINE o == Head(calls).node
           t == TransformFor(srsName[o], Head(calls).with)
<1>0. /\ NextCall("object")
      /\ IF o \in model.located /\ valid(t) THEN Move(o, t) ELSE Stays
      /\ calls' = Calls("object", model.children[o], t)
                  \o Calls("implicit", model.implicitsOf[o], t)
                  \o Calls("geometry", model.parts[o], t) \o Tail(calls)
      /\ UNCHANGED <<model, destination, gdal, phase, sourceURN>>
  BY ZenonT(60) DEF TransformObject, NextCall
<1>1. /\ o \in model.objects
      /\ Head(calls).with \in GoodTransform
      /\ Tail(calls) \in Seq(GoodCall)
  BY <1>0, NextCallGood, ZenonT(60) DEF GoodCall, Call
<1>2. o \in Nodes(model) /\ srsName[o] \in Name
  BY <1>1 DEF Nodes, IInv, TypeOK
<1>3. t \in GoodTransform
  BY <1>1, <1>2, TransformForGood
<1>4. /\ model.children[o] \in Seq(model.objects)
      /\ model.implicitsOf[o] \in Seq(model.implicits)
      /\ model.parts[o] \in Seq(model.geometries)
  BY <1>1, ModelsAssumption DEF IInv
<1> HIDE DEF o, t
<1>5. Calls("object", model.children[o], t) \in Seq(GoodCall)
  <2>1. \A x \in model.objects : [kind |-> "object", node |-> x, with |-> t] \in Call
    BY <1>3 DEF Call, GoodTransform
  <2>2. QED
    BY <2>1, <1>3, <1>4, CallsGood
<1>6. Calls("implicit", model.implicitsOf[o], t) \in Seq(GoodCall)
  <2>1. \A x \in model.implicits : [kind |-> "implicit", node |-> x, with |-> t] \in Call
    BY <1>3 DEF Call, GoodTransform
  <2>2. QED
    BY <2>1, <1>3, <1>4, CallsGood
<1>7. Calls("geometry", model.parts[o], t) \in Seq(GoodCall)
  <2>1. \A x \in model.geometries : [kind |-> "geometry", node |-> x, with |-> t] \in Call
    BY <1>3 DEF Call, GoodTransform
  <2>2. QED
    BY <2>1, <1>3, <1>4, CallsGood
<1>8. calls' \in Seq(GoodCall)
  BY <1>0, <1>1, <1>5, <1>6, <1>7
<1>9. (o \in model.located) \in BOOLEAN
  OBVIOUS
<1>10. /\ srsName' \in [Nodes(model)' -> Name]
       /\ from' \in [Nodes(model)' \cup Shapes(model)' -> Seq(System)]
       /\ sourceURN' \in [Shapes(model)' -> Name]
       /\ TransformedOnce'
       /\ NamesMatchCoordinates'
  BY <1>0, <1>2, <1>3, <1>9, MoveOrStay
<1>11. QED
  BY <1>0, <1>8, <1>10, StackTyped DEF IInv, TypeOK

LEMMA ImplicitStep ==
  ASSUME IInv, TransformImplicit
  PROVE  IInv'
<1> DEFINE i == Head(calls).node
           t == TransformFor(srsName[i], Head(calls).with)
<1>0. /\ NextCall("implicit")
      /\ IF TRUE /\ valid(t) THEN Move(i, t) ELSE Stays
      /\ calls' = Tail(calls)
      /\ UNCHANGED <<model, destination, gdal, phase, sourceURN>>
  BY DEF TransformImplicit, NextCall
<1>1. /\ i \in model.implicits
      /\ Head(calls).with \in GoodTransform
      /\ calls' \in Seq(GoodCall)
  BY <1>0, NextCallGood DEF GoodCall, Call
<1>2. i \in Nodes(model) /\ srsName[i] \in Name
  BY <1>1 DEF Nodes, IInv, TypeOK
<1>3. t \in GoodTransform
  BY <1>1, <1>2, TransformForGood
<1> HIDE DEF i, t
<1>4. /\ srsName' \in [Nodes(model)' -> Name]
      /\ from' \in [Nodes(model)' \cup Shapes(model)' -> Seq(System)]
      /\ sourceURN' \in [Shapes(model)' -> Name]
      /\ TransformedOnce'
      /\ NamesMatchCoordinates'
  BY <1>0, <1>2, <1>3, MoveOrStay
<1>5. QED
  BY <1>0, <1>1, <1>4, StackTyped DEF IInv, TypeOK

LEMMA GeometryStep ==
  ASSUME IInv, TransformGeometry
  PROVE  IInv'
<1> DEFINE g == Head(calls).node
           t == GeometryTransform(srsName[g], Head(calls).with)
           new == {x \in model.shapes[g] : sourceURN[x] = NoName}
<1>0. /\ NextCall("geometry")
      /\ UNCHANGED <<model, destination, gdal, phase, srsName>>
  BY DEF TransformGeometry, NextCall
<1>1. /\ g \in model.geometries
      /\ Head(calls).with \in GoodTransform
      /\ Tail(calls) \in Seq(GoodCall)
  BY <1>0, NextCallGood DEF GoodCall, Call
<1>2. g \in Nodes(model) /\ srsName[g] \in Name
  BY <1>1 DEF Nodes, IInv, TypeOK
<1>3. t \in GoodTransform
  BY <1>1, <1>2, GeometryTransformGood
<1>4. new \subseteq Shapes(model)
  BY <1>1, ModelsAssumption DEF IInv
<1>5. model.parts[g] \in Seq(model.geometries)
  BY <1>1, ModelsAssumption DEF IInv
<1>6. Nodes(model)' = Nodes(model) /\ Shapes(model)' = Shapes(model)
  BY <1>0 DEF Nodes, Shapes
<1>7. CASE valid(t)
  <2>1. /\ from' = [x \in DOMAIN from |-> IF x \in new THEN Append(from[x], t.system) ELSE from[x]]
        /\ sourceURN' = [x \in DOMAIN sourceURN |-> IF x \in new THEN t.urn ELSE sourceURN[x]]
        /\ calls' = Calls("geometry", model.parts[g], t) \o Tail(calls)
    BY <1>7 DEF TransformGeometry
  <2>2. t.urn \in Name /\ t.urn # NoName /\ t.system \in System /\ SystemOf[t.urn] = t.system
    BY <1>3, <1>7, ValidTransform
  <2>3. \A x \in new : sourceURN[x] = NoName
    OBVIOUS
  <2> HIDE DEF t, new, g
  <2>4. \A x \in new : from[x] = <<>>
    BY <2>3, <1>4 DEF IInv, TransformedOnce
  <2>5. Append(<<>>, t.system) = <<t.system>> /\ <<t.system>> \in Seq(System)
    BY <2>2
  <2>6. from' = [x \in Nodes(model) \cup Shapes(model) |->
                   IF x \in new THEN <<t.system>> ELSE from[x]]
    BY <2>1, <2>4, <2>5 DEF IInv, TypeOK
  <2>7. sourceURN' = [x \in Shapes(model) |-> IF x \in new THEN t.urn ELSE sourceURN[x]]
    BY <2>1 DEF IInv, TypeOK
  <2>8. from' \in [Nodes(model)' \cup Shapes(model)' -> Seq(System)]
    BY <1>6, <2>5, <2>6 DEF IInv, TypeOK
  <2>9. sourceURN' \in [Shapes(model)' -> Name]
    BY <1>6, <2>2, <2>7 DEF IInv, TypeOK
  <2>10. TransformedOnce'
    <3>1. SUFFICES ASSUME NEW x \in Shapes(model)
                   PROVE  from'[x] = IF sourceURN'[x] = NoName THEN <<>> ELSE <<SystemOf[sourceURN'[x]]>>
      BY <1>6 DEF TransformedOnce
    <3>2. CASE x \in new
      BY <3>2, <2>2, <2>6, <2>7
    <3>3. CASE x \notin new
      BY <3>3, <2>6, <2>7 DEF IInv, TransformedOnce
    <3>4. QED
      BY <3>2, <3>3
  <2>11. NamesMatchCoordinates'
    <3>1. \A x \in Nodes(model) : x \notin new
      BY <1>4, ModelsAssumption DEF IInv
    <3>2. \A x \in Nodes(model) : from'[x] = from[x]
      BY <3>1, <2>6
    <3>3. QED
      BY <3>2, <1>0, <1>6 DEF IInv, NamesMatchCoordinates
  <2>12. \A x \in model.geometries : [kind |-> "geometry", node |-> x, with |-> t] \in Call
    BY <1>3 DEF Call, GoodTransform
  <2>13. Calls("geometry", model.parts[g], t) \in Seq(GoodCall)
    BY <2>12, <1>3, <1>5, CallsGood
  <2>14. calls' \in Seq(GoodCall)
    BY <2>1, <2>13, <1>1
  <2>15. QED
    BY <1>0, <1>6, <2>8, <2>9, <2>10, <2>11, <2>14, StackTyped DEF IInv, TypeOK
<1>8. CASE ~valid(t)
  <2>1. calls' = Tail(calls) /\ UNCHANGED <<from, sourceURN>>
    BY <1>8 DEF TransformGeometry
  <2>2. QED
    BY <1>0, <1>1, <1>6, <2>1, StackTyped
       DEF IInv, TypeOK, TransformedOnce, NamesMatchCoordinates
<1>9. QED
  BY <1>7, <1>8

LEMMA StepIInv ==
  ASSUME IInv, [Next]_vars
  PROVE  IInv'
<1>1. CASE Start
  BY <1>1, StartStep
<1>2. CASE TransformObject
  BY <1>2, ObjectStep
<1>3. CASE TransformImplicit
  BY <1>3, ImplicitStep
<1>4. CASE TransformGeometry
  BY <1>4, GeometryStep
<1>5. ASSUME StartFails \/ StartWithoutGDAL \/ End \/ UNCHANGED vars
      PROVE  IInv'
  <2>1. /\ UNCHANGED <<model, destination, srsName, from, sourceURN, calls, gdal>>
        /\ phase' \in {"finished", "transforming", "done", "aborted"}
    BY <1>5 DEF StartFails, StartWithoutGDAL, End, vars, IInv, TypeOK
  <2>2. Nodes(model)' = Nodes(model) /\ Shapes(model)' = Shapes(model) /\ Call' = Call
    BY <2>1 DEF Nodes, Shapes, Call
  <2>3. QED
    BY <2>1, <2>2 DEF IInv, TypeOK, TransformedOnce, NamesMatchCoordinates
<1>6. QED
  BY <1>1, <1>2, <1>3, <1>4, <1>5 DEF Next

-----------------------------------------------------------------------------
(* The tree of the parts of a model, and what is handed down in it. These  *)
(* are operators of the model, without variables.                          *)

HoldersOf(m, x) == {y \in Nodes(m) : x \in Range(PartsOf(m, y))}
Holder(m) ==
  [x \in Nodes(m) |-> IF x = CityModelNode THEN x ELSE CHOOSE y \in HoldersOf(m, x) : TRUE]

Named(m, x) == m.srsName[x] # NoName
AppliesIn(m) ==
  CHOOSE f : f = [x \in Nodes(m) |->
    IF Named(m, x) \/ x = CityModelNode THEN SystemOf[m.srsName[x]]
    ELSE f[CHOOSE y \in HoldersOf(m, x) : TRUE]]

(* What a node holds, as a set.                                            *)
Held(m, y) ==
  (IF y \in {CityModelNode} \cup m.objects THEN Range(m.children[y]) ELSE {})
  \cup (IF y \in m.objects THEN Range(m.implicitsOf[y]) ELSE {})
  \cup (IF y \in m.objects \cup m.geometries THEN Range(m.parts[y]) ELSE {})

LEMMA RangeInSet ==
  ASSUME NEW T, NEW s \in Seq(T)
  PROVE  Range(s) \subseteq T
<1>1. \A i \in DOMAIN s : s[i] \in T
  OBVIOUS
<1>2. QED
  BY <1>1 DEF Range

LEMMA PartsTyped ==
  ASSUME NEW m \in CityModels, NEW y \in Nodes(m)
  PROVE  /\ PartsOf(m, y) \in Seq(Nodes(m) \ {CityModelNode})
         /\ Range(PartsOf(m, y)) = Held(m, y)
<1> DEFINE N == Nodes(m) \ {CityModelNode}
           a == IF y \in {CityModelNode} \cup m.objects THEN m.children[y] ELSE <<>>
           b == IF y \in m.objects THEN m.implicitsOf[y] ELSE <<>>
           c == IF y \in m.objects \cup m.geometries THEN m.parts[y] ELSE <<>>
<1>1. m.objects \subseteq N /\ m.implicits \subseteq N /\ m.geometries \subseteq N
  BY TreeAssumption DEF Nodes
<1>2. <<>> \in Seq(N) /\ Range(<<>>) = {}
  BY DEF Range
<1>3. a \in Seq(N) /\ Range(a) = IF y \in {CityModelNode} \cup m.objects THEN Range(m.children[y]) ELSE {}
  <2>1. y \in {CityModelNode} \cup m.objects => m.children[y] \in Seq(m.objects)
    BY ModelsAssumption
  <2>2. Seq(m.objects) \subseteq Seq(N)
    BY <1>1
  <2>3. QED
    BY <1>2, <2>1, <2>2
<1>4. b \in Seq(N) /\ Range(b) = IF y \in m.objects THEN Range(m.implicitsOf[y]) ELSE {}
  <2>1. y \in m.objects => m.implicitsOf[y] \in Seq(m.implicits)
    BY ModelsAssumption
  <2>2. Seq(m.implicits) \subseteq Seq(N)
    BY <1>1
  <2>3. QED
    BY <1>2, <2>1, <2>2
<1>5. c \in Seq(N) /\ Range(c) = IF y \in m.objects \cup m.geometries THEN Range(m.parts[y]) ELSE {}
  <2>1. y \in m.objects \cup m.geometries => m.parts[y] \in Seq(m.geometries)
    BY ModelsAssumption
  <2>2. Seq(m.geometries) \subseteq Seq(N)
    BY <1>1
  <2>3. QED
    BY <1>2, <2>1, <2>2
<1>6. PartsOf(m, y) = a \o b \o c
  BY DEF PartsOf
<1> HIDE DEF a, b, c, N
<1>7. a \o b \in Seq(N) /\ a \o b \o c \in Seq(N)
  BY <1>3, <1>4, <1>5
<1>8. Range(a \o b) = Range(a) \cup Range(b) /\ Range(a \o b \o c) = Range(a \o b) \cup Range(c)
  <2>1. a \in Seq(N) /\ b \in Seq(N) /\ c \in Seq(N)
    BY <1>3, <1>4, <1>5
  <2>2. Range(a \o b) = Range(a) \cup Range(b)
    BY <2>1, RangeConcatenation, ZenonT(60)
  <2>3. Range((a \o b) \o c) = Range(a \o b) \cup Range(c)
    BY <2>1, <1>7, RangeConcatenation, ZenonT(60)
  <2>4. QED
    BY <2>2, <2>3
<1>9. Range(PartsOf(m, y)) = Held(m, y)
  BY <1>3, <1>4, <1>5, <1>6, <1>8 DEF Held
<1>10. QED
  BY <1>6, <1>7, <1>9 DEF N

LEMMA OneHolder ==
  ASSUME NEW m \in CityModels, NEW y \in Nodes(m), NEW z \in Nodes(m),
         NEW x \in Held(m, y) \cap Held(m, z)
  PROVE  y = z
<1>1. PICK i \in DOMAIN PartsOf(m, y) : PartsOf(m, y)[i] = x
  BY PartsTyped DEF Range
<1>2. PICK j \in DOMAIN PartsOf(m, z) : PartsOf(m, z)[j] = x
  BY PartsTyped DEF Range
<1>3. PartsOf(m, y)[i] = PartsOf(m, z)[j] => y = z
  BY TreeAssumption
<1>4. QED
  BY <1>1, <1>2, <1>3

LEMMA HolderHolds ==
  ASSUME NEW m \in CityModels, NEW x \in Nodes(m), x # CityModelNode
  PROVE  /\ Holder(m)[x] \in Nodes(m)
         /\ HoldersOf(m, x) = {Holder(m)[x]}
         /\ x \in Held(m, Holder(m)[x])
         /\ \A y \in Nodes(m) : x \in Held(m, y) => y = Holder(m)[x]
<1>1. HoldersOf(m, x) = {y \in Nodes(m) : x \in Held(m, y)}
  BY PartsTyped DEF HoldersOf
<1>2. HoldersOf(m, x) # {}
  <2> DEFINE S == Nodes(m) \ {x}
  <2>1. SUFFICES ASSUME HoldersOf(m, x) = {} PROVE FALSE
    OBVIOUS
  <2>2. CityModelNode \in S
    BY DEF Nodes
  <2>3. ASSUME NEW y \in S PROVE Range(PartsOf(m, y)) \subseteq S
    <3>1. PartsOf(m, y) \in Seq(Nodes(m) \ {CityModelNode})
      BY PartsTyped
    <3>2. Range(PartsOf(m, y)) \subseteq Nodes(m)
      BY <3>1, RangeInSet
    <3>3. x \notin Range(PartsOf(m, y))
      BY <2>1 DEF HoldersOf
    <3>4. QED
      BY <3>2, <3>3
  <2>4. S \in SUBSET Nodes(m) /\ S # Nodes(m)
    OBVIOUS
  <2> HIDE DEF S
  <2>5. QED
    BY <2>2, <2>3, <2>4, TreeAssumption
<1>3. Holder(m)[x] = CHOOSE y \in HoldersOf(m, x) : TRUE
  BY DEF Holder
<1>4. Holder(m)[x] \in HoldersOf(m, x)
  BY <1>2, <1>3
<1>5. Holder(m)[x] \in Nodes(m) /\ x \in Held(m, Holder(m)[x])
  BY <1>1, <1>4
<1>6. \A y \in Nodes(m) : x \in Held(m, y) => y = Holder(m)[x]
  BY <1>5, OneHolder
<1>7. QED
  BY <1>1, <1>4, <1>5, <1>6

LEMMA ModelIsTree ==
  ASSUME NEW m \in CityModels
  PROVE  TreeOf(Nodes(m), CityModelNode, Holder(m))
<1>1. CityModelNode \in Nodes(m)
  BY DEF Nodes
<1>2. Holder(m) \in [Nodes(m) -> Nodes(m)]
  <2>1. \A x \in Nodes(m) : Holder(m)[x] \in Nodes(m)
    <3>1. Holder(m)[CityModelNode] = CityModelNode
      BY <1>1 DEF Holder
    <3>2. QED
      BY <1>1, <3>1, HolderHolds
  <2>2. Holder(m) = [x \in Nodes(m) |-> Holder(m)[x]]
    BY DEF Holder
  <2>3. QED
    BY <2>1, <2>2
<1>3. ASSUME NEW S \in SUBSET Nodes(m), CityModelNode \in S,
             \A x \in Nodes(m) \ {CityModelNode} : Holder(m)[x] \in S => x \in S
      PROVE  S = Nodes(m)
  <2>1. ASSUME NEW y \in S PROVE Range(PartsOf(m, y)) \subseteq S
    <3>1. Range(PartsOf(m, y)) = Held(m, y) /\ PartsOf(m, y) \in Seq(Nodes(m) \ {CityModelNode})
      BY PartsTyped
    <3>2. Held(m, y) \subseteq Nodes(m) \ {CityModelNode}
      BY <3>1, RangeInSet
    <3>3. \A x \in Held(m, y) : Holder(m)[x] = y
      BY <3>2, HolderHolds
    <3>4. QED
      BY <3>1, <3>2, <3>3, <1>3
  <2>2. QED
    BY <1>3, <2>1, TreeAssumption
<1>4. QED
  BY <1>1, <1>2, <1>3 DEF TreeOf

(* Applies is well defined: the tree has one function of this kind.        *)
LEMMA AppliesFacts ==
  ASSUME NEW m \in CityModels
  PROVE  /\ AppliesIn(m) \in [Nodes(m) -> System \cup {Unknown}]
         /\ \A x \in Nodes(m) :
              AppliesIn(m)[x] = IF Named(m, x) \/ x = CityModelNode THEN SystemOf[m.srsName[x]]
                                ELSE AppliesIn(m)[Holder(m)[x]]
<1> DEFINE V == System \cup {Unknown}
           first == SystemOf[m.srsName[CityModelNode]]
           step == [x \in Nodes(m) |-> [v \in V |-> IF Named(m, x) THEN SystemOf[m.srsName[x]] ELSE v]]
           Is(f) == f = [x \in Nodes(m) |->
                           IF Named(m, x) \/ x = CityModelNode THEN SystemOf[m.srsName[x]]
                           ELSE f[CHOOSE y \in HoldersOf(m, x) : TRUE]]
<1>0. CityModelNode \in Nodes(m)
  BY DEF Nodes
<1>1. \A x \in Nodes(m) : SystemOf[m.srsName[x]] \in V
  BY ModelsAssumption, NamesAssumption
<1>2. first \in V /\ step \in [Nodes(m) -> [V -> V]]
  BY <1>0, <1>1
<1>3. TreeOf(Nodes(m), CityModelNode, Holder(m))
  BY ModelIsTree
<1>4. \E f \in [Nodes(m) -> V] : PassedDown(f, Nodes(m), CityModelNode, Holder(m), first, step)
  <2> HIDE DEF V, first, step
  <2>1. QED
    BY <1>2, <1>3, PassedDownExists
<1>5. PICK f \in [Nodes(m) -> V] : PassedDown(f, Nodes(m), CityModelNode, Holder(m), first, step)
  BY <1>4
<1>6. ASSUME NEW x \in Nodes(m)
      PROVE  f[x] = IF Named(m, x) \/ x = CityModelNode THEN SystemOf[m.srsName[x]]
                    ELSE f[CHOOSE y \in HoldersOf(m, x) : TRUE]
  <2>1. f[x] = IF x = CityModelNode THEN first ELSE step[x][f[Holder(m)[x]]]
    BY <1>5 DEF PassedDown
  <2>2. CASE x = CityModelNode
    BY <2>1, <2>2
  <2>3. CASE x # CityModelNode
    <3>1. Holder(m)[x] \in Nodes(m) /\ Holder(m)[x] = CHOOSE y \in HoldersOf(m, x) : TRUE
      BY <2>3, HolderHolds DEF Holder
    <3>2. step[x][f[Holder(m)[x]]] = IF Named(m, x) THEN SystemOf[m.srsName[x]] ELSE f[Holder(m)[x]]
      BY <3>1
    <3>3. QED
      BY <2>1, <2>3, <3>1, <3>2
  <2>4. QED
    BY <2>2, <2>3
<1>7. Is(f)
  BY <1>6
<1>8. AppliesIn(m) = CHOOSE g : Is(g)
  BY DEF AppliesIn
<1> HIDE DEF Is
<1>9. Is(AppliesIn(m))
  BY <1>7, <1>8
<1> USE DEF Is
<1>10. ASSUME NEW x \in Nodes(m)
       PROVE  AppliesIn(m)[x] = IF Named(m, x) \/ x = CityModelNode THEN SystemOf[m.srsName[x]]
                                ELSE AppliesIn(m)[Holder(m)[x]]
  <2>1. AppliesIn(m)[x] = IF Named(m, x) \/ x = CityModelNode THEN SystemOf[m.srsName[x]]
                          ELSE AppliesIn(m)[CHOOSE y \in HoldersOf(m, x) : TRUE]
    BY <1>9
  <2>2. x # CityModelNode => Holder(m)[x] = CHOOSE y \in HoldersOf(m, x) : TRUE
    BY DEF Holder
  <2>3. QED
    BY <2>1, <2>2
<1>11. ASSUME NEW x \in Nodes(m)
       PROVE  AppliesIn(m)[x] \in V
  <2> DEFINE S == {z \in Nodes(m) : AppliesIn(m)[z] \in V}
  <2>1. CityModelNode \in S
    BY <1>0, <1>1, <1>10
  <2>2. ASSUME NEW z \in Nodes(m) \ {CityModelNode}, Holder(m)[z] \in S
        PROVE  z \in S
    BY <2>2, <1>1, <1>10
  <2>3. S \in SUBSET Nodes(m)
    OBVIOUS
  <2> HIDE DEF S
  <2>4. S = Nodes(m)
    BY <1>3, <2>1, <2>2, <2>3 DEF TreeOf
  <2>5. QED
    BY <2>4 DEF S
<1>12. AppliesIn(m) \in [Nodes(m) -> V]
  <2>1. AppliesIn(m) = [x \in Nodes(m) |-> AppliesIn(m)[x]]
    BY <1>9
  <2> HIDE DEF V
  <2>2. QED
    BY <1>11, <2>1
<1>13. QED
  BY <1>10, <1>12

LEMMA AppliesIs == Applies = AppliesIn(model)
  BY DEF Applies, AppliesIn, Within, HoldersOf, Named

ReachedIn(m) ==
  CHOOSE f : f = [g \in m.geometries |->
    /\ AppliesIn(m)[g] # Unknown
    /\ \A h \in HoldersOf(m, g) : h \in m.geometries => f[h]]

LEMMA ReachedFacts ==
  ASSUME NEW m \in CityModels, NEW g \in m.geometries
  PROVE  ReachedIn(m)[g] <=> /\ AppliesIn(m)[g] # Unknown
                             /\ Holder(m)[g] \in m.geometries => ReachedIn(m)[Holder(m)[g]]
<1> DEFINE ok(x) == x \notin m.geometries \/ AppliesIn(m)[x] # Unknown
           step == [x \in Nodes(m) |-> [v \in BOOLEAN |-> ok(x) /\ (x \in m.geometries => v)]]
           Is(f) == f = [x \in m.geometries |->
                           /\ AppliesIn(m)[x] # Unknown
                           /\ \A h \in HoldersOf(m, x) : h \in m.geometries => f[h]]
<1>0. /\ CityModelNode \in Nodes(m) /\ m.geometries \subseteq Nodes(m)
      /\ CityModelNode \notin m.geometries
  BY TreeAssumption DEF Nodes
<1>1. step \in [Nodes(m) -> [BOOLEAN -> BOOLEAN]] /\ TRUE \in BOOLEAN
  OBVIOUS
<1>2. \A x \in Nodes(m), v \in BOOLEAN : step[x][v] <=> ok(x) /\ (x \in m.geometries => v)
  OBVIOUS
<1>3. TreeOf(Nodes(m), CityModelNode, Holder(m))
  BY ModelIsTree
<1> HIDE DEF step
<1>4. PICK f \in [Nodes(m) -> BOOLEAN] : PassedDown(f, Nodes(m), CityModelNode, Holder(m), TRUE, step)
  BY <1>1, <1>3, PassedDownExists
<1>5. ASSUME NEW x \in m.geometries
      PROVE  f[x] <=> /\ AppliesIn(m)[x] # Unknown
                      /\ \A h \in HoldersOf(m, x) : h \in m.geometries => f[h]
  <2>1. x \in Nodes(m) /\ x # CityModelNode
    BY <1>0
  <2>2. Holder(m)[x] \in Nodes(m) /\ HoldersOf(m, x) = {Holder(m)[x]}
    BY <2>1, HolderHolds
  <2>3. f[x] = step[x][f[Holder(m)[x]]]
    BY <1>4, <2>1 DEF PassedDown
  <2>4. f[x] <=> AppliesIn(m)[x] # Unknown /\ f[Holder(m)[x]]
    BY <1>2, <2>1, <2>2, <2>3
  <2>5. Holder(m)[x] \notin m.geometries => f[Holder(m)[x]]
    <3>1. SUFFICES ASSUME Holder(m)[x] \notin m.geometries PROVE f[Holder(m)[x]]
      OBVIOUS
    <3> DEFINE y == Holder(m)[x]
    <3>2. CASE y = CityModelNode
      BY <3>2, <1>0, <1>4 DEF PassedDown
    <3>3. CASE y # CityModelNode
      <4>1. f[y] = step[y][f[Holder(m)[y]]] /\ Holder(m)[y] \in Nodes(m)
        BY <3>3, <2>2, <1>4, HolderHolds DEF PassedDown
      <4>2. QED
        BY <4>1, <3>1, <2>2, <1>2
    <3>4. QED
      BY <3>2, <3>3
  <2>6. QED
    BY <2>2, <2>4, <2>5
<1> DEFINE r == [x \in m.geometries |-> f[x]]
<1>6. Is(r)
  <2>1. \A x \in m.geometries :
          r[x] = (/\ AppliesIn(m)[x] # Unknown
                  /\ \A h \in HoldersOf(m, x) : h \in m.geometries => r[h])
    <3>1. SUFFICES ASSUME NEW x \in m.geometries
                   PROVE  r[x] = (/\ AppliesIn(m)[x] # Unknown
                                  /\ \A h \in HoldersOf(m, x) : h \in m.geometries => r[h])
      OBVIOUS
    <3>2. \A y \in m.geometries : r[y] = f[y] /\ f[y] \in BOOLEAN
      BY <1>0
    <3> HIDE DEF r
    <3>3. f[x] <=> /\ AppliesIn(m)[x] # Unknown
                   /\ \A h \in HoldersOf(m, x) : h \in m.geometries => r[h]
      BY <1>5, <3>2
    <3>4. QED
      BY <3>2, <3>3
  <2>2. QED
    BY <2>1
<1>7. ReachedIn(m) = CHOOSE e : Is(e)
  BY DEF ReachedIn
<1> HIDE DEF Is
<1>8. Is(ReachedIn(m))
  BY <1>6, <1>7
<1>9. ReachedIn(m)[g] = (/\ AppliesIn(m)[g] # Unknown
                         /\ \A h \in HoldersOf(m, g) : h \in m.geometries => ReachedIn(m)[h])
  BY <1>8 DEF Is
<1>10. HoldersOf(m, g) = {Holder(m)[g]}
  BY <1>0, HolderHolds
<1>11. QED
  BY <1>9, <1>10

LEMMA ReachedIs == Reached = ReachedIn(model)
  BY AppliesIs DEF Reached, ReachedIn, Within, HoldersOf

-----------------------------------------------------------------------------
(* The walk: what has been visited, and the calls still to make.           *)

(* The parts of a geometry whose system is unknown are not visited.        *)
Opens(m, y) == y \in m.geometries => AppliesIn(m)[y] # Unknown

NodesOf(cs)  == {cs[i].node : i \in DOMAIN cs}
Distinct(cs) == \A i, j \in DOMAIN cs : cs[i].node = cs[j].node => i = j

(* A GeoTransform with which a part that its holder holds is called.       *)
Passed(m, x, t) ==
  /\ t.system = AppliesIn(m)[Holder(m)[x]]
  /\ t.system = Unknown => t.urn = NoName

(* The parts that are next, once those of V have been visited.             *)
Open(m, V) == {x \in Nodes(m) \ V : x # CityModelNode /\ Holder(m)[x] \in V /\ Opens(m, Holder(m)[x])}

WalkedCalls(m, V, cs) ==
  /\ V \subseteq Nodes(m) /\ CityModelNode \in V
  /\ \A x \in V \ {CityModelNode} : Holder(m)[x] \in V /\ Opens(m, Holder(m)[x])
  /\ NodesOf(cs) = Open(m, V)
  /\ Distinct(cs)
  /\ \A i \in DOMAIN cs : Passed(m, cs[i].node, cs[i].with)

WalkedNodes(m, V, fr) ==
  \A x \in Nodes(m) \ m.geometries :
    fr[x] = IF x \in V /\ x \in m.located \cup m.implicits /\ AppliesIn(m)[x] # Unknown
            THEN <<AppliesIn(m)[x]>> ELSE <<>>

HoldingIn(m, V, x) == {g \in V \cap m.geometries : AppliesIn(m)[g] # Unknown /\ x \in m.shapes[g]}

WalkedShapes(m, V, fr) ==
  \A x \in Shapes(m) :
    IF HoldingIn(m, V, x) = {} THEN fr[x] = <<>>
    ELSE \E g \in HoldingIn(m, V, x) : fr[x] = <<AppliesIn(m)[g]>>

Walked(m, V, cs, fr) == WalkedCalls(m, V, cs) /\ WalkedNodes(m, V, fr) /\ WalkedShapes(m, V, fr)

(* The inductive invariant: the calls still to make are those of the parts *)
(* that are next, with the system that applies to what holds them, and the *)
(* coordinates are those of the parts visited.                             *)
Walk ==
  /\ \A g \in model.geometries : srsName[g] = model.srsName[g]
  /\ phase = "finished" => calls = <<>> /\ \A x \in Nodes(model) \cup Shapes(model) : from[x] = <<>>
  /\ phase = "transforming" => gdal
  /\ phase = "done" /\ gdal => calls = <<>>
  /\ phase \in {"transforming", "done"} /\ gdal =>
       \E V \in SUBSET Nodes(model) : Walked(model, V, calls, from)

LEMMA KindsHeld ==
  ASSUME NEW m \in CityModels, NEW y \in Nodes(m), NEW x \in Held(m, y)
  PROVE  /\ x \in Nodes(m) \ {CityModelNode}
         /\ y \in m.geometries => x \in m.geometries
         /\ Holder(m)[x] = y
<1>1. x \in Nodes(m) \ {CityModelNode}
  BY PartsTyped, RangeInSet
<1>2. Holder(m)[x] = y
  BY <1>1, HolderHolds
<1>3. ASSUME y \in m.geometries PROVE x \in m.geometries
  <2>1. y \notin {CityModelNode} \cup m.objects
    BY <1>3, TreeAssumption
  <2>2. Held(m, y) = Range(m.parts[y]) /\ m.parts[y] \in Seq(m.geometries)
    BY <1>3, <2>1, ModelsAssumption DEF Held
  <2>3. QED
    BY <2>2, RangeInSet
<1>4. QED
  BY <1>1, <1>2, <1>3

(* The calls for nodes, all with the same GeoTransform.                    *)
Follows(cs, nodes, t) ==
  /\ Len(cs) = Len(nodes)
  /\ \A i \in 1..Len(nodes) : cs[i].node = nodes[i] /\ cs[i].with = t

LEMMA CallsFollow ==
  ASSUME NEW kind, NEW T, NEW nodes \in Seq(T), NEW t
  PROVE  Follows(Calls(kind, nodes, t), nodes, t)
<1> DEFINE c(i) == [kind |-> kind, node |-> nodes[i], with |-> t]
           f == [i \in 1..Len(nodes) |-> c(i)]
<1>1. DOMAIN nodes = 1..Len(nodes) /\ Len(nodes) \in Nat
  OBVIOUS
<1>2. Calls(kind, nodes, t) = f
  BY <1>1 DEF Calls
<1>3. \A i \in 1..Len(nodes) : f[i].node = nodes[i] /\ f[i].with = t
  OBVIOUS
<1> HIDE DEF c
<1>4. Len(f) = Len(nodes)
  BY <1>1
<1>5. QED
  BY <1>2, <1>3, <1>4 DEF Follows

LEMMA FollowsConcat ==
  ASSUME NEW C, NEW T, NEW a \in Seq(C), NEW b \in Seq(C), NEW p \in Seq(T), NEW q \in Seq(T), NEW t,
         Follows(a, p, t), Follows(b, q, t)
  PROVE  Follows(a \o b, p \o q, t)
<1>1. Len(a) = Len(p) /\ Len(b) = Len(q) /\ Len(p) \in Nat /\ Len(q) \in Nat
  BY DEF Follows
<1>2. /\ Len(a \o b) = Len(a) + Len(b)
      /\ \A i \in 1..(Len(a) + Len(b)) : (a \o b)[i] = IF i <= Len(a) THEN a[i] ELSE b[i - Len(a)]
  OBVIOUS
<1>3. /\ Len(p \o q) = Len(p) + Len(q)
      /\ \A i \in 1..(Len(p) + Len(q)) : (p \o q)[i] = IF i <= Len(p) THEN p[i] ELSE q[i - Len(p)]
  OBVIOUS
<1>4. ASSUME NEW i \in 1..Len(p \o q)
      PROVE  (a \o b)[i].node = (p \o q)[i] /\ (a \o b)[i].with = t
  <2>0. i \in 1..(Len(p) + Len(q)) /\ i \in 1..(Len(a) + Len(b))
    BY <1>1, <1>3
  <2>1. CASE i <= Len(p)
    <3>1. i \in 1..Len(p) /\ (a \o b)[i] = a[i] /\ (p \o q)[i] = p[i]
      BY <2>0, <2>1, <1>1, <1>2, <1>3
    <3>2. QED
      BY <3>1 DEF Follows
  <2>2. CASE ~(i <= Len(p))
    <3>1. i - Len(p) \in 1..Len(q) /\ (a \o b)[i] = b[i - Len(p)] /\ (p \o q)[i] = q[i - Len(p)]
      BY <2>0, <2>2, <1>1, <1>2, <1>3
    <3>2. QED
      BY <3>1 DEF Follows
  <2>3. QED
    BY <2>1, <2>2
<1>5. Len(a \o b) = Len(p \o q)
  BY <1>1, <1>2, <1>3
<1>6. QED
  BY <1>4, <1>5 DEF Follows

(* The calls for all that a node holds.                                    *)
LEMMA PartsFollowed ==
  ASSUME NEW m \in CityModels, NEW y \in Nodes(m), NEW C, NEW new \in Seq(C), NEW t,
         Follows(new, PartsOf(m, y), t)
  PROVE  /\ NodesOf(new) = Held(m, y)
         /\ Distinct(new)
         /\ \A i \in DOMAIN new : new[i].with = t
<1>1. PartsOf(m, y) \in Seq(Nodes(m) \ {CityModelNode}) /\ Range(PartsOf(m, y)) = Held(m, y)
  BY PartsTyped
<1>2. DOMAIN PartsOf(m, y) = 1..Len(PartsOf(m, y)) /\ DOMAIN new = 1..Len(new)
  BY <1>1
<1>3. /\ DOMAIN new = DOMAIN PartsOf(m, y)
      /\ \A i \in DOMAIN new : new[i].node = PartsOf(m, y)[i] /\ new[i].with = t
  BY <1>2 DEF Follows
<1>4. NodesOf(new) = Range(PartsOf(m, y))
  BY <1>3 DEF NodesOf, Range
<1>5. \A i, j \in DOMAIN PartsOf(m, y) : PartsOf(m, y)[i] = PartsOf(m, y)[j] => i = j
  BY TreeAssumption
<1>6. QED
  BY <1>1, <1>3, <1>4, <1>5 DEF Distinct

(* The next call is made, and pushes those of new.                         *)
LEMMA StackAdvances ==
  ASSUME NEW C, NEW cs \in Seq(C), cs # <<>>, NEW new \in Seq(C),
         Distinct(cs), Distinct(new), NodesOf(cs) \cap NodesOf(new) = {}
  PROVE  /\ Head(cs).node \in NodesOf(cs)
         /\ NodesOf(new \o Tail(cs)) = NodesOf(new) \cup (NodesOf(cs) \ {Head(cs).node})
         /\ Distinct(new \o Tail(cs))
         /\ \A i \in DOMAIN (new \o Tail(cs)) :
              \/ \E j \in DOMAIN new : (new \o Tail(cs))[i] = new[j]
              \/ \E j \in DOMAIN cs : (new \o Tail(cs))[i] = cs[j]
<1> DEFINE k == Len(new)
           n == Len(cs)
           s == new \o Tail(cs)
<1>1. /\ k \in Nat /\ n \in Nat \ {0} /\ Head(cs) = cs[1]
      /\ DOMAIN new = 1..k /\ DOMAIN cs = 1..n
  OBVIOUS
<1>2. Tail(cs) \in Seq(C) /\ Len(Tail(cs)) = n - 1 /\ \A i \in 1..(n - 1) : Tail(cs)[i] = cs[i + 1]
  OBVIOUS
<1>3. /\ DOMAIN s = 1..(k + (n - 1))
      /\ \A i \in 1..k : s[i] = new[i]
      /\ \A i \in 1..(n - 1) : s[k + i] = Tail(cs)[i]
  BY <1>2, ConcatFacts
<1>4. \A i \in DOMAIN s : i \in 1..k \/ i - k \in 1..(n - 1)
  BY <1>1, <1>3
<1>5. \A i \in DOMAIN s : \/ i \in 1..k /\ s[i] = new[i]
                          \/ i - k + 1 \in 2..n /\ s[i] = cs[i - k + 1]
  <2>1. SUFFICES ASSUME NEW i \in DOMAIN s, i \notin 1..k
                 PROVE  i - k + 1 \in 2..n /\ s[i] = cs[i - k + 1]
    BY <1>3
  <2>2. i - k \in 1..(n - 1) /\ i = k + (i - k)
    BY <2>1, <1>1, <1>3, <1>4
  <2>3. s[i] = Tail(cs)[i - k]
    BY <2>2, <1>3
  <2>4. QED
    BY <2>2, <2>3, <1>1, <1>2
<1>6. \A i \in 2..n : k + (i - 1) \in DOMAIN s /\ s[k + (i - 1)] = cs[i]
  <2>1. SUFFICES ASSUME NEW i \in 2..n PROVE k + (i - 1) \in DOMAIN s /\ s[k + (i - 1)] = cs[i]
    OBVIOUS
  <2>2. i - 1 \in 1..(n - 1) /\ (i - 1) + 1 = i
    BY <1>1
  <2>3. QED
    BY <2>2, <1>1, <1>2, <1>3
<1>7. \A i \in 1..k : i \in DOMAIN s
  BY <1>1, <1>3
<1> HIDE DEF s, n, k
<1>8. Head(cs).node \in NodesOf(cs) /\ 1 \in DOMAIN cs
  BY <1>1 DEF NodesOf
<1>9. \A i \in 2..n : i \in DOMAIN cs /\ cs[i].node # Head(cs).node
  BY <1>1, <1>8 DEF Distinct
<1>10. NodesOf(s) \subseteq NodesOf(new) \cup (NodesOf(cs) \ {Head(cs).node})
  BY <1>1, <1>5, <1>9 DEF NodesOf
<1>11. NodesOf(new) \subseteq NodesOf(s)
  BY <1>1, <1>3, <1>7 DEF NodesOf
<1>12. NodesOf(cs) \ {Head(cs).node} \subseteq NodesOf(s)
  <2>1. SUFFICES ASSUME NEW i \in DOMAIN cs, cs[i].node # Head(cs).node
                 PROVE  cs[i].node \in NodesOf(s)
    BY DEF NodesOf
  <2>2. i \in 2..n
    BY <2>1, <1>1
  <2>3. QED
    BY <2>2, <1>6 DEF NodesOf
<1>13. Distinct(s)
  <2>1. SUFFICES ASSUME NEW i \in DOMAIN s, NEW j \in DOMAIN s, s[i].node = s[j].node
                 PROVE  i = j
    BY DEF Distinct
  <2>2. \A a \in 1..k, b \in 2..n : new[a].node # cs[b].node
    BY <1>1, <1>9 DEF NodesOf
  <2>3. CASE i \in 1..k /\ j \in 1..k
    BY <2>1, <2>3, <1>1, <1>3 DEF Distinct
  <2>4. CASE i \in 1..k /\ j \notin 1..k
    BY <2>1, <2>2, <2>4, <1>3, <1>5
  <2>5. CASE i \notin 1..k /\ j \in 1..k
    BY <2>1, <2>2, <2>5, <1>3, <1>5
  <2>6. CASE i \notin 1..k /\ j \notin 1..k
    <3>1. /\ i - k + 1 \in DOMAIN cs /\ s[i] = cs[i - k + 1]
          /\ j - k + 1 \in DOMAIN cs /\ s[j] = cs[j - k + 1]
      BY <2>6, <1>5, <1>9
    <3>2. i - k + 1 = j - k + 1
      BY <2>1, <3>1 DEF Distinct
    <3>3. QED
      BY <3>2, <1>1, <1>3
  <2>7. QED
    BY <2>3, <2>4, <2>5, <2>6
<1>14. \A i \in DOMAIN s : \/ \E j \in DOMAIN new : s[i] = new[j]
                           \/ \E j \in DOMAIN cs : s[i] = cs[j]
  BY <1>1, <1>5, <1>9
<1>15. QED
  BY <1>8, <1>10, <1>11, <1>12, <1>13, <1>14 DEF s

(* The walk goes on from the next part to what it holds.                   *)
LEMMA CallsAdvance ==
  ASSUME NEW m \in CityModels, NEW V, NEW C, NEW cs \in Seq(C), cs # <<>>, NEW new \in Seq(C),
         WalkedCalls(m, V, cs),
         Distinct(new),
         NodesOf(new) = {x \in Held(m, Head(cs).node) : Opens(m, Head(cs).node)},
         \A i \in DOMAIN new : Passed(m, new[i].node, new[i].with)
  PROVE  /\ Head(cs).node \in Nodes(m) \ V
         /\ Passed(m, Head(cs).node, Head(cs).with)
         /\ WalkedCalls(m, V \cup {Head(cs).node}, new \o Tail(cs))
<1> DEFINE o == Head(cs).node
           W == V \cup {o}
<1>1. o \in NodesOf(cs) /\ Passed(m, o, Head(cs).with)
  <2>1. 1 \in DOMAIN cs /\ Head(cs) = cs[1]
    OBVIOUS
  <2>2. QED
    BY <2>1 DEF WalkedCalls, NodesOf
<1>2. o \in Nodes(m) \ V /\ o # CityModelNode /\ Holder(m)[o] \in V /\ Opens(m, Holder(m)[o])
  BY <1>1 DEF WalkedCalls, Open
<1>3. \A x \in NodesOf(new) : /\ x \in Nodes(m) \ V /\ x # o /\ x # CityModelNode
                              /\ Holder(m)[x] = o /\ Opens(m, o)
  <2>1. SUFFICES ASSUME NEW x \in NodesOf(new)
                 PROVE  /\ x \in Nodes(m) \ V /\ x # o /\ x # CityModelNode
                        /\ Holder(m)[x] = o /\ Opens(m, o)
    OBVIOUS
  <2>2. x \in Held(m, o) /\ Opens(m, o)
    OBVIOUS
  <2>3. x \in Nodes(m) \ {CityModelNode} /\ Holder(m)[x] = o
    BY <2>2, <1>2, KindsHeld
  <2>4. QED
    BY <2>2, <2>3, <1>2 DEF WalkedCalls
<1>4. NodesOf(cs) \cap NodesOf(new) = {}
  <2>1. \A x \in NodesOf(cs) : Holder(m)[x] \in V
    BY DEF WalkedCalls, Open
  <2>2. QED
    BY <2>1, <1>2, <1>3
<1>5. /\ NodesOf(new \o Tail(cs)) = NodesOf(new) \cup (NodesOf(cs) \ {o})
      /\ Distinct(new \o Tail(cs))
      /\ \A i \in DOMAIN (new \o Tail(cs)) :
           \/ \E j \in DOMAIN new : (new \o Tail(cs))[i] = new[j]
           \/ \E j \in DOMAIN cs : (new \o Tail(cs))[i] = cs[j]
  BY <1>4, StackAdvances DEF WalkedCalls
<1>6. \A i \in DOMAIN (new \o Tail(cs)) :
        Passed(m, (new \o Tail(cs))[i].node, (new \o Tail(cs))[i].with)
  BY <1>5 DEF WalkedCalls
<1>7. Open(m, W) = NodesOf(new) \cup (NodesOf(cs) \ {o})
  <2>1. ASSUME NEW x \in Open(m, W) PROVE x \in NodesOf(new) \cup (NodesOf(cs) \ {o})
    <3>1. /\ x \in Nodes(m) \ V /\ x # o /\ x # CityModelNode
          /\ Holder(m)[x] \in W /\ Opens(m, Holder(m)[x])
      BY DEF Open
    <3>2. CASE Holder(m)[x] = o
      BY <3>1, <3>2, HolderHolds
    <3>3. CASE Holder(m)[x] # o
      BY <3>1, <3>3 DEF WalkedCalls, Open
    <3>4. QED
      BY <3>2, <3>3
  <2>2. ASSUME NEW x \in NodesOf(new) PROVE x \in Open(m, W)
    BY <1>3 DEF Open
  <2>3. ASSUME NEW x \in NodesOf(cs) \ {o} PROVE x \in Open(m, W)
    BY DEF WalkedCalls, Open
  <2>4. QED
    BY <2>1, <2>2, <2>3
<1>8. /\ W \subseteq Nodes(m) /\ CityModelNode \in W
      /\ \A x \in W \ {CityModelNode} : Holder(m)[x] \in W /\ Opens(m, Holder(m)[x])
  BY <1>2 DEF WalkedCalls
<1> HIDE DEF o, W
<1>9. WalkedCalls(m, W, new \o Tail(cs))
  BY <1>5, <1>6, <1>7, <1>8 DEF WalkedCalls
<1>10. QED
  BY <1>1, <1>2, <1>9 DEF o, W

-----------------------------------------------------------------------------
(* The system that applies is what the GeoTransforms are for.              *)

Clean(t) == t.system = Unknown => t.urn = NoName

LEMMA TransformForSystem ==
  ASSUME NEW name \in Name, NEW t \in GoodTransform, Clean(t)
  PROVE  /\ TransformFor(name, t).system = IF name # NoName THEN SystemOf[name] ELSE t.system
         /\ Clean(TransformFor(name, t))
<1>1. CASE name # NoName /\ ~hasSourceSRS(t, name)
  <2>1. TransformFor(name, t) = setSourceSRS(NoTransform, name)
    BY <1>1 DEF TransformFor, Copy
  <2>2. QED
    BY <2>1, <1>1 DEF setSourceSRS, NoTransform, Clean
<1>2. CASE ~(name # NoName /\ ~hasSourceSRS(t, name))
  <2>1. TransformFor(name, t) = t
    BY <1>2 DEF TransformFor
  <2>2. QED
    BY <2>1, <1>2 DEF hasSourceSRS
<1>3. QED
  BY <1>1, <1>2

LEMMA GeometryTransformSystem ==
  ASSUME NEW name \in Name, NEW parent \in GoodTransform, Clean(parent)
  PROVE  GeometryTransform(name, parent).system
           = IF name # NoName THEN SystemOf[name] ELSE parent.system
<1> DEFINE t == setSourceSRS(Copy(parent), parent.urn)
<1>1. t.system = parent.system
  <2>1. t.system = SystemOf[parent.urn]
    BY DEF setSourceSRS, Copy, NoTransform
  <2>2. CASE valid(parent)
    BY <2>1, <2>2, ValidTransform
  <2>3. CASE ~valid(parent)
    BY <2>1, <2>3, NamesAssumption DEF valid, Clean
  <2>4. QED
    BY <2>2, <2>3
<1>2. t \in GoodTransform
  <2>1. parent.urn \in Name
    BY DEF GoodTransform, Transform
  <2>2. QED
    BY <2>1, SetSourceGood, NoTransformGood DEF Copy
<1>3. setSourceSRS(t, name).system = SystemOf[name]
  BY <1>2 DEF setSourceSRS, GoodTransform, Transform
<1>4. GeometryTransform(name, parent)
        = IF name # NoName /\ ~hasSourceSRS(t, name) THEN setSourceSRS(t, name) ELSE t
  BY DEF GeometryTransform
<1> HIDE DEF t
<1>5. CASE name # NoName /\ ~hasSourceSRS(t, name)
  BY <1>3, <1>4, <1>5
<1>6. CASE ~(name # NoName /\ ~hasSourceSRS(t, name))
  BY <1>1, <1>4, <1>6 DEF hasSourceSRS
<1>7. QED
  BY <1>5, <1>6

(* With what its holder passes, a part gets the system that applies to it. *)
LEMMA AppliesFromPassed ==
  ASSUME NEW m \in CityModels, NEW x \in Nodes(m) \ {CityModelNode}, NEW t, Passed(m, x, t),
         NEW s, s = (IF m.srsName[x] # NoName THEN SystemOf[m.srsName[x]] ELSE t.system)
  PROVE  s = AppliesIn(m)[x]
BY AppliesFacts DEF Passed, Named

-----------------------------------------------------------------------------
(* The coordinates of a part that is visited.                              *)

LEMMA NodeVisited ==
  ASSUME NEW m \in CityModels, NEW V, WalkedNodes(m, V, from), WalkedShapes(m, V, from),
         model = m, from \in [Nodes(m) \cup Shapes(m) -> Seq(System)],
         NEW o \in Nodes(m) \ m.geometries, o \notin V,
         NEW t \in GoodTransform, t.system = AppliesIn(m)[o],
         NEW P \in BOOLEAN, P <=> o \in m.located \cup m.implicits,
         IF P /\ valid(t) THEN Move(o, t) ELSE Stays
  PROVE  WalkedNodes(m, V \cup {o}, from') /\ WalkedShapes(m, V \cup {o}, from')
<1> DEFINE W == V \cup {o}
<1>1. o \notin Shapes(m)
  BY ModelsAssumption
<1>2. from[o] = <<>>
  BY DEF WalkedNodes
<1>3. /\ DOMAIN from' = DOMAIN from
      /\ \A x \in DOMAIN from \ {o} : from'[x] = from[x]
      /\ from'[o] = IF P /\ t.system # Unknown THEN <<t.system>> ELSE <<>>
  <2>1. CASE P /\ valid(t)
    <3>1. from' = [from EXCEPT ![o] = Append(@, t.system)]
      BY <2>1 DEF Move
    <3>2. Append(<<>>, t.system) = <<t.system>>
      OBVIOUS
    <3>3. QED
      BY <2>1, <3>1, <3>2, <1>2 DEF valid
  <2>2. CASE ~(P /\ valid(t))
    BY <2>2, <1>2 DEF Stays, valid
  <2>3. QED
    BY <2>1, <2>2
<1>4. WalkedNodes(m, W, from')
  <2>1. SUFFICES ASSUME NEW x \in Nodes(m) \ m.geometries
                 PROVE  from'[x] = IF x \in W /\ x \in m.located \cup m.implicits /\ AppliesIn(m)[x] # Unknown
                                   THEN <<AppliesIn(m)[x]>> ELSE <<>>
    BY DEF WalkedNodes
  <2>2. CASE x = o
    BY <2>2, <1>3
  <2>3. CASE x # o
    <3>1. from'[x] = from[x] /\ (x \in W <=> x \in V)
      BY <2>3, <1>3
    <3>2. QED
      BY <3>1 DEF WalkedNodes
  <2>4. QED
    BY <2>2, <2>3
<1>5. WalkedShapes(m, W, from')
  <2>1. SUFFICES ASSUME NEW x \in Shapes(m)
                 PROVE  IF HoldingIn(m, W, x) = {} THEN from'[x] = <<>>
                        ELSE \E g \in HoldingIn(m, W, x) : from'[x] = <<AppliesIn(m)[g]>>
    BY DEF WalkedShapes
  <2>2. HoldingIn(m, W, x) = HoldingIn(m, V, x)
    BY DEF HoldingIn
  <2>3. from'[x] = from[x]
    BY <1>1, <1>3
  <2>4. QED
    BY <2>2, <2>3 DEF WalkedShapes
<1>6. QED
  BY <1>4, <1>5

(* The names that the walk reads are those of the document.                *)
LEMMA NamesRead ==
  ASSUME IInv, Walk, NEW x \in Nodes(model), x \in model.geometries \/ from[x] = <<>>
  PROVE  srsName[x] = model.srsName[x]
BY DEF IInv, Walk, NamesMatchCoordinates

-----------------------------------------------------------------------------
(* The steps of the walk.                                                  *)

LEMMA WalkStart ==
  ASSUME IInv, Walk, Start
  PROVE  Walk'
<1> DEFINE t == IF srsName[CityModelNode] = NoName THEN NoTransform
                ELSE setSourceSRS(NoTransform, srsName[CityModelNode])
           new == Calls("object", model.children[CityModelNode], t)
<1>0. /\ phase = "finished" /\ gdal /\ phase' = "transforming" /\ gdal' = gdal
      /\ model' = model /\ calls' = new
      /\ IF CityModelNode \in model.located /\ valid(t) THEN Move(CityModelNode, t) ELSE Stays
      /\ model \in CityModels
  BY DEF Start, IInv
<1>1. /\ CityModelNode \in Nodes(model)
      /\ CityModelNode \notin model.geometries \cup model.objects \cup model.implicits
  BY <1>0, TreeAssumption DEF Nodes
<1>2. \A x \in Nodes(model) \cup Shapes(model) : from[x] = <<>>
  BY <1>0 DEF Walk
<1>3. srsName[CityModelNode] = model.srsName[CityModelNode] /\ srsName[CityModelNode] \in Name
  BY <1>1, <1>2, NamesRead DEF IInv, TypeOK
<1>4. t \in GoodTransform
  BY <1>3, NoTransformGood, SetSourceGood
<1>5. t.system = AppliesIn(model)[CityModelNode] /\ Clean(t)
  <2>1. AppliesIn(model)[CityModelNode] = SystemOf[model.srsName[CityModelNode]]
    BY <1>0, <1>1, AppliesFacts
  <2>2. QED
    BY <2>1, <1>3, NamesAssumption DEF NoTransform, setSourceSRS, Clean
<1>6. WalkedNodes(model, {}, from) /\ WalkedShapes(model, {}, from)
  BY <1>2 DEF WalkedNodes, WalkedShapes, HoldingIn
<1>7. WalkedNodes(model, {CityModelNode}, from') /\ WalkedShapes(model, {CityModelNode}, from')
  <2>1. from \in [Nodes(model) \cup Shapes(model) -> Seq(System)]
    BY DEF IInv, TypeOK
  <2>2. (CityModelNode \in model.located) \in BOOLEAN
    OBVIOUS
  <2>3. CityModelNode \in model.located <=> CityModelNode \in model.located \cup model.implicits
    BY <1>1
  <2>4. {} \cup {CityModelNode} = {CityModelNode} /\ CityModelNode \notin {}
    OBVIOUS
  <2> HIDE DEF t
  <2>5. WalkedNodes(model, {} \cup {CityModelNode}, from') /\ WalkedShapes(model, {} \cup {CityModelNode}, from')
    BY <1>0, <1>1, <1>4, <1>5, <1>6, <2>1, <2>2, <2>3, <2>4, NodeVisited
  <2>6. QED
    BY <2>4, <2>5
<1>8. /\ PartsOf(model, CityModelNode) = model.children[CityModelNode]
      /\ model.children[CityModelNode] \in Seq(model.objects)
  <2>1. model.children[CityModelNode] \in Seq(model.objects)
    BY <1>0, ModelsAssumption
  <2>2. PartsOf(model, CityModelNode) = (model.children[CityModelNode] \o <<>>) \o <<>>
    BY <1>1 DEF PartsOf
  <2>3. QED
    BY <2>1, <2>2
<1>9. NodesOf(new) = Held(model, CityModelNode) /\ Distinct(new) /\ \A i \in DOMAIN new : new[i].with = t
  <2>1. Follows(new, PartsOf(model, CityModelNode), t)
    BY <1>8, CallsFollow
  <2>2. new \in Seq(GoodCall)
    <3>1. \A x \in model.objects : [kind |-> "object", node |-> x, with |-> t] \in Call
      BY <1>4 DEF Call, GoodTransform
    <3> HIDE DEF t
    <3>2. QED
      BY <1>4, <1>8, <3>1, CallsGood
  <2> HIDE DEF t, new
  <2>3. QED
    BY <1>0, <1>1, <2>1, <2>2, PartsFollowed
<1> HIDE DEF t, new
<1>10. \A x \in Held(model, CityModelNode) : x \in Nodes(model) \ {CityModelNode} /\ Holder(model)[x] = CityModelNode
  BY <1>0, <1>1, KindsHeld
<1>11. Open(model, {CityModelNode}) = Held(model, CityModelNode)
  <2>1. ASSUME NEW x \in Open(model, {CityModelNode}) PROVE x \in Held(model, CityModelNode)
    <3>1. x \in Nodes(model) /\ x # CityModelNode /\ Holder(model)[x] = CityModelNode
      BY DEF Open
    <3>2. QED
      BY <3>1, <1>0, HolderHolds
  <2>2. ASSUME NEW x \in Held(model, CityModelNode) PROVE x \in Open(model, {CityModelNode})
    BY <1>1, <1>10 DEF Open, Opens
  <2>3. QED
    BY <2>1, <2>2
<1>12. \A i \in DOMAIN new : Passed(model, new[i].node, new[i].with)
  <2>1. \A i \in DOMAIN new : new[i].node \in Held(model, CityModelNode)
    BY <1>9 DEF NodesOf
  <2>2. QED
    BY <2>1, <1>5, <1>9, <1>10 DEF Passed, Clean
<1>13. WalkedCalls(model, {CityModelNode}, new)
  BY <1>1, <1>9, <1>11, <1>12 DEF WalkedCalls
<1>14. Walked(model, {CityModelNode}, calls', from')
  BY <1>0, <1>7, <1>13 DEF Walked
<1>15. \A g \in model.geometries : srsName'[g] = model.srsName[g]
  <2>1. \A g \in model.geometries : srsName'[g] = srsName[g]
    BY <1>0, <1>1 DEF Move, Stays, IInv, TypeOK, Nodes
  <2>2. QED
    BY <2>1 DEF Walk
<1>16. {CityModelNode} \in SUBSET Nodes(model)
  BY <1>1
<1>17. QED
  BY <1>0, <1>14, <1>15, <1>16 DEF Walk

(* A call of an object or an implicit geometry.                            *)
LEMMA WalkOn ==
  ASSUME IInv, Walk, NEW kind \in {"object", "implicit"}, NextCall(kind), NEW new \in Seq(GoodCall),
         NEW t, t = TransformFor(srsName[Head(calls).node], Head(calls).with),
         NEW P \in BOOLEAN, P <=> Head(calls).node \in model.located \cup model.implicits,
         IF P /\ valid(t) THEN Move(Head(calls).node, t) ELSE Stays,
         Follows(new, PartsOf(model, Head(calls).node), t),
         calls' = new \o Tail(calls)
  PROVE  Walk'
<1> DEFINE o == Head(calls).node
<1>0. /\ phase = "transforming" /\ phase' = phase /\ gdal' = gdal /\ model' = model /\ calls # <<>>
      /\ model \in CityModels /\ calls \in Seq(GoodCall)
  BY GoodCalls DEF NextCall, IInv, TypeOK
<1>1. PICK V \in SUBSET Nodes(model) : Walked(model, V, calls, from)
  BY <1>0 DEF Walk
<1>2. /\ o \in model.objects \cup model.implicits
      /\ Head(calls).with \in GoodTransform
  BY NextCallGood DEF GoodCall, Call
<1>3. o \in Nodes(model) \ model.geometries /\ o # CityModelNode
  BY <1>0, <1>2, TreeAssumption DEF Nodes
<1>4. 1 \in DOMAIN calls /\ Head(calls) = calls[1]
  BY <1>0
<1>5. Passed(model, o, Head(calls).with) /\ o \in Open(model, V)
  BY <1>1, <1>4 DEF Walked, WalkedCalls, NodesOf
<1>6. o \notin V
  BY <1>5 DEF Open
<1>7. from[o] = <<>>
  BY <1>1, <1>3, <1>6 DEF Walked, WalkedNodes
<1>8. srsName[o] = model.srsName[o] /\ srsName[o] \in Name
  BY <1>3, <1>7, NamesRead DEF IInv, TypeOK
<1>9. Clean(Head(calls).with)
  BY <1>5 DEF Passed, Clean
<1>10. t \in GoodTransform
  BY <1>2, <1>8, TransformForGood
<1>11. t.system = AppliesIn(model)[o] /\ Clean(t)
  <2>1. /\ t.system = IF srsName[o] # NoName THEN SystemOf[srsName[o]] ELSE Head(calls).with.system
        /\ Clean(t)
    BY <1>2, <1>8, <1>9, TransformForSystem
  <2>2. QED
    BY <2>1, <1>0, <1>3, <1>5, <1>8, AppliesFromPassed
<1>12. WalkedNodes(model, V \cup {o}, from') /\ WalkedShapes(model, V \cup {o}, from')
  <2>1. from \in [Nodes(model) \cup Shapes(model) -> Seq(System)]
    BY DEF IInv, TypeOK
  <2>2. QED
    BY <1>0, <1>1, <1>3, <1>6, <1>10, <1>11, <2>1, NodeVisited DEF Walked
<1>13. NodesOf(new) = Held(model, o) /\ Distinct(new) /\ \A i \in DOMAIN new : new[i].with = t
  BY <1>0, <1>3, PartsFollowed
<1>14. \A i \in DOMAIN new : Passed(model, new[i].node, new[i].with)
  <2>1. \A i \in DOMAIN new : new[i].node \in Held(model, o)
    BY <1>13 DEF NodesOf
  <2>2. \A x \in Held(model, o) : Holder(model)[x] = o
    BY <1>0, <1>3, KindsHeld
  <2>3. QED
    BY <2>1, <2>2, <1>11, <1>13 DEF Passed, Clean
<1>15. NodesOf(new) = {x \in Held(model, o) : Opens(model, o)}
  BY <1>3, <1>13 DEF Opens
<1> HIDE DEF o
<1>16. WalkedCalls(model, V \cup {o}, new \o Tail(calls))
  BY <1>0, <1>1, <1>13, <1>14, <1>15, CallsAdvance DEF Walked, o
<1>17. Walked(model, V \cup {o}, calls', from')
  BY <1>12, <1>16 DEF Walked
<1>18. \A g \in model.geometries : srsName'[g] = model.srsName[g]
  <2>1. \A g \in model.geometries : srsName'[g] = srsName[g]
    BY <1>3 DEF Move, Stays, IInv, TypeOK, Nodes, o
  <2>2. QED
    BY <2>1 DEF Walk
<1>19. V \cup {o} \in SUBSET Nodes(model)
  BY <1>3
<1>20. QED
  BY <1>0, <1>17, <1>18, <1>19 DEF Walk

LEMMA WalkObject ==
  ASSUME IInv, Walk, TransformObject
  PROVE  Walk'
<1> DEFINE o == Head(calls).node
           t == TransformFor(srsName[o], Head(calls).with)
           a == Calls("object", model.children[o], t)
           b == Calls("implicit", model.implicitsOf[o], t)
           c == Calls("geometry", model.parts[o], t)
<1>0. /\ NextCall("object")
      /\ IF o \in model.located /\ valid(t) THEN Move(o, t) ELSE Stays
      /\ calls' = a \o b \o c \o Tail(calls)
      /\ model \in CityModels
  BY ZenonT(60) DEF TransformObject, IInv
<1>1. /\ o \in model.objects
      /\ Head(calls).with \in GoodTransform
      /\ Tail(calls) \in Seq(GoodCall)
  BY <1>0, NextCallGood, ZenonT(60) DEF GoodCall, Call
<1>2. o \in Nodes(model) /\ srsName[o] \in Name
  BY <1>1 DEF Nodes, IInv, TypeOK
<1>3. t \in GoodTransform
  BY <1>1, <1>2, TransformForGood
<1>4. /\ model.children[o] \in Seq(model.objects)
      /\ model.implicitsOf[o] \in Seq(model.implicits)
      /\ model.parts[o] \in Seq(model.geometries)
  BY <1>0, <1>1, ModelsAssumption, ZenonT(60)
<1>5. PartsOf(model, o) = (model.children[o] \o model.implicitsOf[o]) \o model.parts[o]
  BY <1>1, ZenonT(60) DEF PartsOf
<1> DEFINE N == Nodes(model)
<1>6. /\ model.children[o] \in Seq(N) /\ model.implicitsOf[o] \in Seq(N) /\ model.parts[o] \in Seq(N)
      /\ model.children[o] \o model.implicitsOf[o] \in Seq(N)
  <2>1. model.objects \subseteq N /\ model.implicits \subseteq N /\ model.geometries \subseteq N
    BY DEF Nodes
  <2> HIDE DEF N, o
  <2>2. /\ Seq(model.objects) \subseteq Seq(N) /\ Seq(model.implicits) \subseteq Seq(N)
        /\ Seq(model.geometries) \subseteq Seq(N)
    BY <2>1
  <2>3. model.children[o] \in Seq(N) /\ model.implicitsOf[o] \in Seq(N) /\ model.parts[o] \in Seq(N)
    BY <1>4, <2>2
  <2>4. QED
    BY <2>3
<1>7. /\ Follows(a, model.children[o], t) /\ Follows(b, model.implicitsOf[o], t)
      /\ Follows(c, model.parts[o], t)
  BY <1>4, CallsFollow
<1>8. a \in Seq(GoodCall) /\ b \in Seq(GoodCall) /\ c \in Seq(GoodCall)
  <2>1. /\ \A x \in model.objects : [kind |-> "object", node |-> x, with |-> t] \in Call
        /\ \A x \in model.implicits : [kind |-> "implicit", node |-> x, with |-> t] \in Call
        /\ \A x \in model.geometries : [kind |-> "geometry", node |-> x, with |-> t] \in Call
    BY <1>3 DEF Call, GoodTransform
  <2> HIDE DEF t
  <2>2. QED
    BY <2>1, <1>3, <1>4, CallsGood
<1>9. o \in model.located <=> o \in model.located \cup model.implicits
  BY <1>0, <1>1, TreeAssumption, ZenonT(60)
<1> HIDE DEF a, b, c, N, o
<1>10. a \o b \in Seq(GoodCall) /\ Follows(a \o b, model.children[o] \o model.implicitsOf[o], t)
  BY <1>6, <1>7, <1>8, FollowsConcat
<1>11. (a \o b) \o c \in Seq(GoodCall) /\ Follows((a \o b) \o c, PartsOf(model, o), t)
  <2> DEFINE ab == a \o b
             p  == model.children[o] \o model.implicitsOf[o]
             q  == model.parts[o]
  <2>1. /\ ab \in Seq(GoodCall) /\ Follows(ab, p, t) /\ p \in Seq(N)
        /\ c \in Seq(GoodCall) /\ Follows(c, q, t) /\ q \in Seq(N)
        /\ PartsOf(model, o) = p \o q
    BY <1>5, <1>6, <1>7, <1>8, <1>10
  <2> HIDE DEF ab, p, q
  <2>2. ab \o c \in Seq(GoodCall)
    BY <2>1
  <2>3. Follows(ab \o c, p \o q, t)
    BY <2>1, FollowsConcat, Zenon
  <2>4. QED
    BY <2>1, <2>2, <2>3 DEF ab
<1>12. (o \in model.located) \in BOOLEAN
  OBVIOUS
<1> HIDE DEF t
<1>13. t = TransformFor(srsName[Head(calls).node], Head(calls).with) /\ o = Head(calls).node
  BY DEF t, o
<1>14. calls' = ((a \o b) \o c) \o Tail(calls)
  BY <1>0
<1>15. QED
  BY <1>0, <1>9, <1>11, <1>12, <1>13, <1>14, WalkOn, ZenonT(60)

LEMMA WalkImplicit ==
  ASSUME IInv, Walk, TransformImplicit
  PROVE  Walk'
<1> DEFINE i == Head(calls).node
           t == TransformFor(srsName[i], Head(calls).with)
<1>0. /\ NextCall("implicit")
      /\ IF TRUE /\ valid(t) THEN Move(i, t) ELSE Stays
      /\ calls' = Tail(calls)
      /\ model \in CityModels
  BY DEF TransformImplicit, IInv
<1>1. i \in model.implicits /\ Tail(calls) \in Seq(GoodCall)
  BY <1>0, NextCallGood DEF GoodCall, Call
<1>2. i \notin {CityModelNode} \cup model.objects \cup model.geometries
  BY <1>0, <1>1, TreeAssumption
<1>3. PartsOf(model, i) = <<>>
  BY <1>2 DEF PartsOf
<1>4. Follows(<<>>, PartsOf(model, i), t) /\ <<>> \in Seq(GoodCall)
  BY <1>3 DEF Follows
<1>5. calls' = <<>> \o Tail(calls)
  BY <1>0, <1>1
<1>6. TRUE <=> i \in model.located \cup model.implicits
  BY <1>1
<1> HIDE DEF t, i
<1>7. t = TransformFor(srsName[Head(calls).node], Head(calls).with) /\ i = Head(calls).node
  BY DEF t, i
<1>8. QED
  BY <1>0, <1>4, <1>5, <1>6, <1>7, WalkOn

LEMMA WalkGeometry ==
  ASSUME IInv, Walk, TransformGeometry
  PROVE  Walk'
<1> DEFINE g == Head(calls).node
           t == GeometryTransform(srsName[g], Head(calls).with)
           new == {x \in model.shapes[g] : sourceURN[x] = NoName}
           push == IF valid(t) THEN Calls("geometry", model.parts[g], t) ELSE <<>>
<1>0. /\ NextCall("geometry")
      /\ phase = "transforming" /\ phase' = phase /\ gdal' = gdal /\ model' = model /\ calls # <<>>
      /\ srsName' = srsName
      /\ model \in CityModels /\ calls \in Seq(GoodCall)
  BY GoodCalls DEF TransformGeometry, NextCall, IInv, TypeOK
<1>1. PICK V \in SUBSET Nodes(model) : Walked(model, V, calls, from)
  BY <1>0 DEF Walk
<1>2. /\ g \in model.geometries
      /\ Head(calls).with \in GoodTransform
      /\ Tail(calls) \in Seq(GoodCall)
  BY <1>0, NextCallGood DEF GoodCall, Call
<1>3. g \in Nodes(model) /\ g \notin {CityModelNode} \cup model.objects
  BY <1>0, <1>2, TreeAssumption DEF Nodes
<1>4. 1 \in DOMAIN calls /\ Head(calls) = calls[1]
  BY <1>0
<1>5. Passed(model, g, Head(calls).with) /\ g \in Open(model, V)
  BY <1>1, <1>4 DEF Walked, WalkedCalls, NodesOf
<1>6. g \notin V
  BY <1>5 DEF Open
<1>7. srsName[g] = model.srsName[g] /\ srsName[g] \in Name
  BY <1>2, <1>3 DEF Walk, IInv, TypeOK
<1>8. t \in GoodTransform
  BY <1>2, <1>7, GeometryTransformGood
<1>9. t.system = AppliesIn(model)[g]
  <2>1. Clean(Head(calls).with)
    BY <1>5 DEF Passed, Clean
  <2>2. t.system = IF srsName[g] # NoName THEN SystemOf[srsName[g]] ELSE Head(calls).with.system
    BY <2>1, <1>2, <1>7, GeometryTransformSystem
  <2>3. QED
    BY <2>2, <1>0, <1>3, <1>5, <1>7, AppliesFromPassed
<1>10. calls' = push \o Tail(calls)
  <2>1. CASE valid(t)
    BY <2>1 DEF TransformGeometry
  <2>2. CASE ~valid(t)
    BY <2>2, <1>2 DEF TransformGeometry
  <2>3. QED
    BY <2>1, <2>2
<1>11. valid(t) <=> Opens(model, g)
  BY <1>2, <1>9 DEF valid, Opens
<1>12. /\ PartsOf(model, g) = model.parts[g] /\ model.parts[g] \in Seq(model.geometries)
  <2>1. model.parts[g] \in Seq(model.geometries)
    BY <1>0, <1>2, ModelsAssumption
  <2>2. PartsOf(model, g) = (<<>> \o <<>>) \o model.parts[g]
    BY <1>2, <1>3 DEF PartsOf
  <2>3. QED
    BY <2>1, <2>2
<1>13. push \in Seq(GoodCall)
  <2>1. \A x \in model.geometries : [kind |-> "geometry", node |-> x, with |-> t] \in Call
    BY <1>8 DEF Call, GoodTransform
  <2> HIDE DEF t, g
  <2>2. QED
    BY <2>1, <1>8, <1>12, CallsGood
<1>14. /\ NodesOf(push) = {x \in Held(model, g) : Opens(model, g)}
       /\ Distinct(push)
       /\ \A i \in DOMAIN push : push[i].with = t /\ valid(t)
  <2>1. CASE valid(t)
    <3>1. Follows(push, PartsOf(model, g), t)
      BY <2>1, <1>12, CallsFollow
    <3> HIDE DEF push, t, g
    <3>2. QED
      BY <3>1, <2>1, <1>0, <1>3, <1>11, <1>13, PartsFollowed
  <2>2. CASE ~valid(t)
    BY <2>2, <1>11 DEF NodesOf, Distinct
  <2>3. QED
    BY <2>1, <2>2
<1>15. \A i \in DOMAIN push : Passed(model, push[i].node, push[i].with)
  <2> HIDE DEF push, t, g
  <2>1. \A i \in DOMAIN push : push[i].node \in Held(model, g)
    BY <1>14 DEF NodesOf
  <2>2. \A x \in Held(model, g) : Holder(model)[x] = g
    BY <1>0, <1>3, KindsHeld
  <2>3. QED
    BY <2>1, <2>2, <1>9, <1>14 DEF Passed, valid
<1> HIDE DEF push, t, new
<1>16. WalkedCalls(model, V \cup {g}, push \o Tail(calls))
  BY <1>0, <1>1, <1>13, <1>14, <1>15, CallsAdvance DEF Walked
<1>17. /\ new \subseteq Shapes(model) /\ \A x \in Nodes(model) : x \notin new
       /\ new \subseteq model.shapes[g] /\ model.shapes[g] \subseteq Shapes(model)
  BY <1>0, <1>2, ModelsAssumption DEF new
<1>18. IF valid(t) THEN from' = [x \in DOMAIN from |-> IF x \in new THEN Append(from[x], t.system) ELSE from[x]]
       ELSE from' = from
  BY DEF TransformGeometry, t, new
<1>19. WalkedNodes(model, V \cup {g}, from')
  <2>1. \A x \in Nodes(model) : from'[x] = from[x]
    BY <1>17, <1>18 DEF IInv, TypeOK
  <2>2. \A x \in Nodes(model) \ model.geometries : x \in V \cup {g} <=> x \in V
    BY <1>2
  <2>3. QED
    BY <2>1, <2>2, <1>1 DEF Walked, WalkedNodes
<1> DEFINE W == V \cup {g}
<1>20. WalkedShapes(model, W, from')
  <2>1. SUFFICES ASSUME NEW x \in Shapes(model)
                 PROVE  IF HoldingIn(model, W, x) = {} THEN from'[x] = <<>>
                        ELSE \E h \in HoldingIn(model, W, x) : from'[x] = <<AppliesIn(model)[h]>>
    BY DEF WalkedShapes
  <2>2. HoldingIn(model, V, x) \subseteq HoldingIn(model, W, x)
    BY DEF HoldingIn
  <2>3. x \in DOMAIN from
    BY DEF IInv, TypeOK
  <2>4. IF HoldingIn(model, V, x) = {} THEN from[x] = <<>>
        ELSE \E h \in HoldingIn(model, V, x) : from[x] = <<AppliesIn(model)[h]>>
    BY <1>1 DEF Walked, WalkedShapes
  <2>5. CASE valid(t) /\ x \in model.shapes[g]
    <3>1. g \in HoldingIn(model, W, x)
      BY <2>5, <1>2, <1>9 DEF HoldingIn, valid
    <3>2. CASE x \in new
      <4>1. from[x] = <<>>
        BY <3>2, <2>1 DEF new, IInv, TransformedOnce
      <4>2. from'[x] = <<t.system>>
        BY <4>1, <3>2, <2>3, <2>5, <1>18
      <4>3. QED
        BY <4>2, <3>1, <1>9
    <3>3. CASE x \notin new
      <4>1. from'[x] = from[x]
        BY <3>3, <2>3, <2>5, <1>18
      <4>2. sourceURN[x] # NoName
        BY <3>3, <2>5 DEF new
      <4>3. from[x] = <<SystemOf[sourceURN[x]]>>
        BY <4>2, <2>1 DEF IInv, TransformedOnce
      <4>4. from[x] # <<>>
        BY <4>3
      <4>5. QED
        BY <4>1, <4>4, <2>2, <2>4
    <3>4. QED
      BY <3>2, <3>3
  <2>6. CASE ~(valid(t) /\ x \in model.shapes[g])
    <3>1. HoldingIn(model, W, x) = HoldingIn(model, V, x)
      BY <2>6, <1>9 DEF HoldingIn, valid
    <3>2. from'[x] = from[x]
      BY <2>3, <2>6, <1>17, <1>18
    <3>3. QED
      BY <3>1, <3>2, <2>4
  <2>7. QED
    BY <2>5, <2>6
<1>21. Walked(model, V \cup {g}, calls', from')
  BY <1>10, <1>16, <1>19, <1>20 DEF Walked
<1>22. V \cup {g} \in SUBSET Nodes(model)
  BY <1>3
<1> HIDE DEF g, W
<1>23. QED
  BY <1>0, <1>21, <1>22 DEF Walk

LEMMA InitWalk == Init => Walk
BY DEF Init, Walk, Nodes

LEMMA StepWalk ==
  ASSUME IInv, Walk, [Next]_vars
  PROVE  Walk'
<1>1. CASE Start
  BY <1>1, WalkStart
<1>2. CASE TransformObject
  BY <1>2, WalkObject
<1>3. CASE TransformImplicit
  BY <1>3, WalkImplicit
<1>4. CASE TransformGeometry
  BY <1>4, WalkGeometry
<1>5. CASE StartFails \/ StartWithoutGDAL
  BY <1>5 DEF StartFails, StartWithoutGDAL, Walk
<1>6. CASE End
  BY <1>6 DEF End, Walk
<1>7. CASE UNCHANGED vars
  BY <1>7 DEF vars, Walk
<1>8. QED
  BY <1>1, <1>2, <1>3, <1>4, <1>5, <1>6, <1>7 DEF Next

-----------------------------------------------------------------------------
(* When no call is left, everything that is reached has been visited.      *)

LEMMA AllVisited ==
  ASSUME NEW m \in CityModels, NEW V, WalkedCalls(m, V, <<>>), NEW x \in Nodes(m)
  PROVE  /\ x \notin m.geometries => x \in V
         /\ x \in m.geometries => (ReachedIn(m)[x] <=> x \in V /\ AppliesIn(m)[x] # Unknown)
<1> DEFINE S == {y \in Nodes(m) :
                   /\ y \notin m.geometries => y \in V
                   /\ y \in m.geometries => (ReachedIn(m)[y] <=> y \in V /\ AppliesIn(m)[y] # Unknown)}
<1>1. NodesOf(<<>>) = {} /\ Open(m, V) = {}
  BY DEF WalkedCalls, NodesOf
<1>2. CityModelNode \in S
  BY TreeAssumption DEF WalkedCalls, Nodes
<1>3. ASSUME NEW y \in Nodes(m) \ {CityModelNode}, Holder(m)[y] \in S
      PROVE  y \in S
  <2> DEFINE h == Holder(m)[y]
  <2>1. /\ h \in Nodes(m)
        /\ h \notin m.geometries => h \in V
        /\ h \in m.geometries => (ReachedIn(m)[h] <=> h \in V /\ AppliesIn(m)[h] # Unknown)
    BY <1>3
  <2>2. h \in m.geometries => y \in m.geometries
    BY HolderHolds, KindsHeld
  <2> HIDE DEF h
  <2>3. y \in V <=> h \in V /\ Opens(m, h)
    BY <1>1 DEF WalkedCalls, Open, h
  <2>4. CASE y \notin m.geometries
    BY <2>1, <2>2, <2>3, <2>4 DEF Opens
  <2>5. CASE y \in m.geometries
    <3>1. ReachedIn(m)[y] <=> /\ AppliesIn(m)[y] # Unknown
                              /\ h \in m.geometries => ReachedIn(m)[h]
      BY <2>5, ReachedFacts DEF h
    <3>2. QED
      BY <3>1, <2>1, <2>3, <2>5 DEF Opens
  <2>6. QED
    BY <2>4, <2>5
<1>4. S \in SUBSET Nodes(m)
  OBVIOUS
<1> HIDE DEF S
<1>5. S = Nodes(m)
  BY <1>2, <1>3, <1>4, ModelIsTree DEF TreeOf
<1>6. QED
  BY <1>5 DEF S

LEMMA WalkEnds == IInv /\ Walk => SourceApplies
<1> SUFFICES ASSUME IInv, Walk, phase = "done", gdal
             PROVE  /\ \A x \in Nodes(model) \ model.geometries :
                         from[x] = IF x \in model.located \cup model.implicits /\ Applies[x] # Unknown
                                   THEN <<Applies[x]>> ELSE <<>>
                    /\ \A x \in Shapes(model) :
                         IF Holding(x) = {} THEN from[x] = <<>>
                         ELSE \E g \in Holding(x) : from[x] = <<Applies[g]>>
  BY DEF SourceApplies
<1>1. model \in CityModels /\ calls = <<>>
  BY DEF IInv, Walk
<1>2. PICK V \in SUBSET Nodes(model) : Walked(model, V, <<>>, from)
  BY <1>1 DEF Walk
<1>3. \A x \in Nodes(model) :
        /\ x \notin model.geometries => x \in V
        /\ x \in model.geometries => (ReachedIn(model)[x] <=> x \in V /\ AppliesIn(model)[x] # Unknown)
  BY <1>1, <1>2, AllVisited DEF Walked
<1>4. \A x \in Nodes(model) \ model.geometries :
        from[x] = IF x \in model.located \cup model.implicits /\ Applies[x] # Unknown
                  THEN <<Applies[x]>> ELSE <<>>
  BY <1>2, <1>3, AppliesIs DEF Walked, WalkedNodes
<1>5. \A x \in Shapes(model) : Holding(x) = HoldingIn(model, V, x)
  <2>1. model.geometries \subseteq Nodes(model)
    BY DEF Nodes
  <2>2. \A g \in model.geometries : Reached[g] <=> g \in V /\ AppliesIn(model)[g] # Unknown
    BY <2>1, <1>3, ReachedIs
  <2>3. QED
    BY <2>2 DEF Holding, HoldingIn
<1>6. \A x \in Shapes(model) : IF Holding(x) = {} THEN from[x] = <<>>
                               ELSE \E g \in Holding(x) : from[x] = <<Applies[g]>>
  BY <1>2, <1>5, AppliesIs DEF Walked, WalkedShapes
<1>7. QED
  BY <1>4, <1>6

-----------------------------------------------------------------------------
LEMMA Invariance == Spec => []IInv /\ []Walk
<1>1. Init => IInv /\ Walk
  BY InitIInv, InitWalk
<1>2. IInv /\ Walk /\ [Next]_vars => IInv' /\ Walk'
  BY StepIInv, StepWalk
<1>3. QED
  BY <1>1, <1>2, PTL DEF Spec

(* The GeoTransforms of all calls are without a system or of the system of *)
(* their name, although the name stays when the system goes (setSourceSRS). *)
THEOREM TypeCorrect == Spec => []TypeOK
<1>1. IInv => TypeOK
  BY DEF IInv
<1>2. QED
  BY <1>1, Invariance, PTL

(* However many geometries share a polygon or line string, it is           *)
(* transformed once (m_transformedPolygonsSourceURNMap and its twin).      *)
THEOREM SharedTransformedOnce == Spec => []TransformedOnce
<1>1. IInv => TransformedOnce
  BY DEF IInv
<1>2. QED
  BY <1>1, Invariance, PTL

(* At any time an envelope or implicit geometry names the destination      *)
(* system exactly if it is in it (transformRecursive and its helper).      *)
THEOREM NamesAndCoordinatesMatch == Spec => []NamesMatchCoordinates
<1>1. IInv => NamesMatchCoordinates
  BY DEF IInv
<1>2. QED
  BY <1>1, Invariance, PTL

(* When the transformation is done, the coordinates of every part have     *)
(* been transformed from the system that applies to it in the document,    *)
(* those of shared polygons and line strings from that of a geometry that  *)
(* holds them, and those of no other part, although the names of systems   *)
(* that are not understood stay behind in the GeoTransform (setSourceSRS). *)
THEOREM SourceSystemsApply == Spec => []SourceApplies
<1>1. IInv /\ Walk => SourceApplies
  BY WalkEnds
<1>2. QED
  BY <1>1, Invariance, PTL
=============================================================================
