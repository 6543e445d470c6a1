--------------------------- MODULE OsgReader_proofs ---------------------------
(***************************************************************************)
(* Proofs about OsgReader: what the calls of readNode leave behind and     *)
(* what they draw, for any number of calls and any city models.            *)
(***************************************************************************)
EXTENDS OsgReader, SequenceLemmas

(* Where the streams write to, and what cout is restored to.               *)
StreamsKept ==
  /\ thrown.calls = 0 => IF phase = "idle" THEN cout = "console" ELSE coutsb = "console"
  /\ file \in BOOLEAN

(* The directory of the call that runs comes before those left behind.     *)
DirectoriesCounted ==
  /\ dataPath \in Seq({"directory"})
  /\ Len(dataPath) = thrown.files + (IF phase # "idle" /\ file THEN 1 ELSE 0)

(* There are material arrays only while a single object is made.           *)
ArraysOfSingle == (phase = "building" /\ Single) \/ ma = <<>>

IInv ==
  /\ phase \in {"idle", "loading", "building"}
  /\ thrown \in [calls : Nat, files : Nat]
  /\ StreamsKept
  /\ DirectoriesCounted
  /\ ArraysOfSingle

LEMMA InitIInv == Init => IInv
<1> SUFFICES ASSUME Init PROVE IInv
  OBVIOUS
<1>1. <<>> \in Seq({"directory"}) /\ Len(<<>>) = 0
  OBVIOUS
<1>2. thrown \in [calls : Nat, files : Nat] /\ thrown.calls = 0 /\ thrown.files = 0
  BY DEF Init
<1>3. DirectoriesCounted
  BY <1>1, <1>2 DEF Init, DirectoriesCounted
<1>4. QED
  BY <1>2, <1>3 DEF Init, IInv, StreamsKept, ArraysOfSingle

(* The end of a call that returns.                                         *)
LEMMA ReturnInv ==
  ASSUME IInv, phase # "idle", Return, ma' = <<>>, UNCHANGED thrown
  PROVE  IInv'
<1>1. phase' = "idle" /\ file' = file /\ cout' = coutsb
  BY DEF Return
<1>2. DirectoriesCounted'
  <2>1. CASE file
    <3>1. dataPath # <<>> /\ dataPath' = Tail(dataPath)
      BY <2>1 DEF Return, IInv, DirectoriesCounted
    <3>2. Len(dataPath') = Len(dataPath) - 1 /\ dataPath' \in Seq({"directory"})
      BY <3>1 DEF IInv, DirectoriesCounted
    <3>3. QED
      BY <1>1, <2>1, <3>2 DEF IInv, DirectoriesCounted
  <2>2. CASE ~file
    BY <1>1, <2>2 DEF Return, IInv, DirectoriesCounted
  <2>3. QED
    BY <2>1, <2>2
<1>3. StreamsKept'
  BY <1>1 DEF IInv, StreamsKept
<1>4. QED
  BY <1>1, <1>2, <1>3 DEF IInv, ArraysOfSingle

(* Steps in the middle of a call.                                          *)
LEMMA BuildingInv ==
  ASSUME IInv, UNCHANGED <<streams, options, thrown, phase>>,
         ma' # ma => phase = "building" /\ Single
  PROVE  IInv'
  BY DEF IInv, streams, StreamsKept, DirectoriesCounted, ArraysOfSingle, Single

LEMMA StepIInv ==
  ASSUME IInv, [Next]_vars
  PROVE  IInv'
<1>1. ASSUME NEW opts \in SUBSET Switches, NEW named \in BOOLEAN, readNode(opts, named)
      PROVE  IInv'
  <2>1. /\ phase = "idle" /\ phase' = "loading"
        /\ coutsb' = cout /\ file' = named
        /\ dataPath' = IF named THEN <<"directory">> \o dataPath ELSE dataPath
        /\ UNCHANGED <<ma, thrown>>
    BY <1>1 DEF readNode
  <2>2. DirectoriesCounted'
    <3>1. dataPath \in Seq({"directory"}) /\ Len(dataPath) = thrown.files
      BY <2>1 DEF IInv, DirectoriesCounted
    <3>2. CASE named
      <4>1. dataPath' = <<"directory">> \o dataPath
        BY <2>1, <3>2
      <4>2. Len(<<"directory">>) = 1 /\ <<"directory">> \in Seq({"directory"})
        OBVIOUS
      <4>3. Len(dataPath') = 1 + Len(dataPath) /\ dataPath' \in Seq({"directory"})
        BY <3>1, <4>1, <4>2
      <4>4. thrown.files \in Nat
        BY DEF IInv
      <4>5. QED
        BY <2>1, <3>1, <3>2, <4>3, <4>4 DEF DirectoriesCounted
    <3>3. CASE ~named
      BY <2>1, <3>1, <3>3 DEF IInv, DirectoriesCounted
    <3>4. QED
      BY <3>2, <3>3
  <2>3. ma = <<>>
    BY <2>1 DEF IInv, ArraysOfSingle
  <2>4. QED
    BY <2>1, <2>2, <2>3 DEF IInv, StreamsKept, ArraysOfSingle
<1>2. CASE LoadThrows
  <2>1. /\ phase = "loading" /\ phase' = "idle"
        /\ thrown' = [calls |-> thrown.calls + 1, files |-> thrown.files + (IF file THEN 1 ELSE 0)]
        /\ UNCHANGED <<streams, ma>>
    BY <1>2 DEF LoadThrows
  <2>2. thrown' \in [calls : Nat, files : Nat] /\ thrown'.calls # 0
    BY <2>1 DEF IInv
  <2>3. DirectoriesCounted'
    BY <2>1 DEF IInv, DirectoriesCounted, streams
  <2>4. QED
    BY <2>1, <2>2, <2>3 DEF IInv, StreamsKept, ArraysOfSingle, streams
<1>3. ASSUME NEW m \in CityModels, readCity(m)
      PROVE  IInv'
  <2>1. phase = "loading" /\ ma = <<>> /\ UNCHANGED <<options, thrown>>
    BY <1>3 DEF readCity, IInv, ArraysOfSingle
  <2>2. CASE m.roots = <<>>
    BY <1>3, <2>1, <2>2, ReturnInv DEF readCity
  <2>3. CASE m.roots # <<>>
    <3>1. phase' = "building" /\ UNCHANGED streams /\ (ma' = ma \/ Single)
      BY <1>3, <2>3 DEF readCity, Single
    <3>2. QED
      BY <2>1, <3>1 DEF IInv, streams, StreamsKept, DirectoriesCounted, ArraysOfSingle, Single
  <2>4. QED
    BY <2>2, <2>3
<1>4. CASE \/ CreateObject \/ CreateGeometry \/ SkipPolygon \/ AddPolygon \/ EndPolygons
           \/ SkipSinglePolygon
  <2>1. UNCHANGED <<streams, options, thrown, phase, ma>>
    BY <1>4, ZenonT(60) DEF CreateObject, CreateGeometry, SkipPolygon, AddPolygon, EndPolygons, NextPolygon,
                SkipSinglePolygon, NextSinglePolygon, NextCall
  <2>2. QED
    BY <2>1, BuildingInv, SMTT(60)
<1>5. CASE MissingTexture \/ AddSinglePolygon
  <2>1. UNCHANGED <<streams, options, thrown, phase>> /\ phase = "building" /\ Single
    BY <1>5 DEF MissingTexture, AddSinglePolygon, NextSinglePolygon, NextCall
  <2>2. QED
    BY <2>1, BuildingInv
<1>6. CASE Gather
  BY <1>6, ReturnInv DEF Gather
<1>7. CASE EndRead
  <2>1. ma' = <<>>
    BY <1>7 DEF EndRead, IInv, ArraysOfSingle
  <2>2. QED
    BY <1>7, <2>1, ReturnInv DEF EndRead
<1>8. CASE UNCHANGED vars
  BY <1>8, BuildingInv DEF vars
<1>9. QED
  BY <1>1, <1>2, <1>3, <1>4, <1>5, <1>6, <1>7, <1>8 DEF Next

(* However often readNode is called, on any documents and whether they are *)
(* read to the end or left by an exception, a call that returns leaves no  *)
(* material arrays and only the directories of the calls that did not      *)
(* return; without such calls the streams are restored.                    *)
THEOREM NothingIsLeft == Spec => []NothingLeft
<1>1. IInv /\ [Next]_vars => IInv'
  BY StepIInv
<1>2. IInv => NothingLeft
  BY DEF IInv, NothingLeft, StreamsKept, DirectoriesCounted, ArraysOfSingle
<1>3. QED
  BY <1>1, <1>2, InitIInv, PTL DEF Spec

-----------------------------------------------------------------------------
(* What is drawn.                                                          *)

Objs == DOMAIN model.children
Geos == DOMAIN model.polygons
Pols == DOMAIN model.triangles

Drawable == [object : Nat, vertices : Seq(Nat \X Nat), indices : Seq(Nat),
             texCoords : Seq(Nat \X Nat), of : Seq(Nat), texture : Files \cup {NoTexture},
             described : Nat]

(* A drawable has the triangles of the polygons that were put in it.       *)
PolygonCorners(m, p) == [i \in DOMAIN m.triangles[p] |-> <<p, m.triangles[p][i]>>]

Whole(m, d) ==
  /\ d \in Drawable
  /\ d.of \in Seq(DOMAIN m.triangles)
  /\ Range(d.indices) \subseteq 0..Len(d.vertices) - 1
  /\ Corners(d) = FlattenSeq([j \in DOMAIN d.of |-> PolygonCorners(m, d.of[j])])

OneTexture(m, d) == \A i, j \in DOMAIN d.of : m.texture[d.of[i]] = m.texture[d.of[j]]

LEMMA EmptyWhole ==
  ASSUME NEW m
  PROVE  /\ Whole(m, EmptyDrawable) /\ OneTexture(m, EmptyDrawable)
         /\ EmptyDrawable.of = <<>> /\ EmptyDrawable.vertices = <<>>
<1>1. EmptyDrawable \in Drawable
  <2>1. \A S : <<>> \in Seq(S)
    OBVIOUS
  <2>2. 0 \in Nat /\ NoTexture \in Files \cup {NoTexture}
    OBVIOUS
  <2>3. QED
    BY <2>1, <2>2 DEF EmptyDrawable, Drawable, Nobody
<1>2. /\ EmptyDrawable.of = <<>> /\ EmptyDrawable.indices = <<>>
      /\ EmptyDrawable.vertices = <<>>
  BY DEF EmptyDrawable
<1>3. Range(<<>>) = {}
  BY DEF Range
<1>4. Corners(EmptyDrawable) = <<>>
  BY <1>2 DEF Corners
<1>5. FlattenSeq([j \in DOMAIN EmptyDrawable.of |-> PolygonCorners(m, EmptyDrawable.of[j])]) = <<>>
  <2>1. [j \in DOMAIN EmptyDrawable.of |-> PolygonCorners(m, EmptyDrawable.of[j])] = <<>>
    BY <1>2
  <2>2. QED
    BY <2>1, FlattenEmpty
<1>6. EmptyDrawable.of \in Seq(DOMAIN m.triangles)
  BY <1>2
<1>7. QED
  BY <1>1, <1>2, <1>3, <1>4, <1>5, <1>6 DEF Whole, OneTexture

(* The polygons of a city model.                                           *)
LEMMA PolygonFacts ==
  ASSUME WellFormed(model), NEW p \in Pols
  PROVE  /\ p \in Nat
         /\ model.triangles[p] \in Seq(Nat)
         /\ model.size[p] \in Nat
         /\ Range(model.triangles[p]) \subseteq 0..model.size[p] - 1
         /\ model.texture[p] \in Url \cup {NoTexture}
         /\ VertexList(p) \in Seq(Nat \X Nat)
         /\ Len(VertexList(p)) = model.size[p]
         /\ PolygonCorners(model, p) \in Seq(Nat \X Nat)
<1>1. /\ model.triangles \in Seq(Seq(Nat))
      /\ model.size[p] \in Nat
      /\ Range(model.triangles[p]) \subseteq 0..model.size[p] - 1
      /\ model.texture[p] \in Url \cup {NoTexture}
  BY DEF WellFormed, Pols
<1>2. p \in Nat /\ model.triangles[p] \in Seq(Nat)
  BY <1>1, ElementOfSeq, LenProperties DEF Pols
<1>3. VertexList(p) \in Seq(Nat \X Nat) /\ Len(VertexList(p)) = model.size[p]
  <2> DEFINE n == model.size[p]
             vl == [k \in 1..n |-> <<p, k - 1>>]
             V == Nat \X Nat
  <2>1. n \in Nat /\ \A k \in 1..n : k - 1 \in Nat
    BY <1>1
  <2>2. vl \in [1..n -> V]
    BY <1>2, <2>1
  <2>3. VertexList(p) = vl
    BY DEF VertexList
  <2> HIDE DEF n, vl, V
  <2>4. vl \in Seq(V) /\ Len(vl) = n
    BY <2>1, <2>2
  <2>5. QED
    BY <2>3, <2>4 DEF n, V
<1>4. PolygonCorners(model, p) \in Seq(Nat \X Nat)
  <2> DEFINE t == model.triangles[p]
  <2>0. t \in Seq(Nat)
    BY <1>2
  <2> HIDE DEF t
  <2>1. Len(t) \in Nat /\ DOMAIN t = 1..Len(t) /\ \A i \in 1..Len(t) : t[i] \in Nat
    BY <2>0, LenProperties, ElementOfSeq
  <2>2. [i \in DOMAIN t |-> <<p, t[i]>>] \in [1..Len(t) -> Nat \X Nat]
    BY <1>2, <2>1
  <2>3. QED
    BY <2>1, <2>2 DEF PolygonCorners, t
<1>5. QED
  BY <1>1, <1>2, <1>3, <1>4

(* One more polygon, with its vertices after those that are there.         *)
LEMMA WholeWithPolygon ==
  ASSUME WellFormed(model), NEW d, Whole(model, d), NEW p \in Pols
  PROVE  /\ Whole(model, WithPolygon(d, p))
         /\ WithPolygon(d, p).of = Append(d.of, p)
         /\ WithPolygon(d, p).texture = d.texture
         /\ WithPolygon(d, p).vertices = d.vertices \o VertexList(p)
<1> DEFINE V == Nat \X Nat
           t == model.triangles[p]
           vl == VertexList(p)
           L == Len(d.vertices)
           n == Len(d.indices)
           sh == [i \in DOMAIN t |-> t[i] + L]
           e == WithPolygon(d, p)
<1>1. /\ p \in Nat /\ t \in Seq(Nat) /\ vl \in Seq(V) /\ PolygonCorners(model, p) \in Seq(V)
      /\ Range(t) \subseteq 0..Len(vl) - 1 /\ Len(vl) \in Nat
  BY PolygonFacts
<1>2. /\ d.vertices \in Seq(V) /\ d.indices \in Seq(Nat) /\ d.texCoords \in Seq(V)
      /\ d.of \in Seq(Nat) /\ d.of \in Seq(Pols)
      /\ L \in Nat /\ n \in Nat
  <2>1. d.vertices \in Seq(V) /\ d.indices \in Seq(Nat)
    BY DEF Whole, Drawable
  <2>2. d.of \in Seq(Pols)
    BY DEF Whole, Pols
  <2>3. QED
    BY <2>1, <2>2, LenProperties DEF Whole, Drawable
<1>3. /\ e.indices = d.indices \o sh
      /\ e.vertices = d.vertices \o vl
      /\ e.texCoords = d.texCoords \o (IF p \in model.frontCoords THEN vl ELSE <<>>)
      /\ e.of = Append(d.of, p)
      /\ e.texture = d.texture /\ e.object = d.object /\ e.described = d.described
      /\ e = [object |-> e.object, vertices |-> e.vertices, indices |-> e.indices,
              texCoords |-> e.texCoords, of |-> e.of, texture |-> e.texture,
              described |-> e.described]
  <2> DEFINE x == d.indices \o sh
             y == d.vertices \o vl
             z == d.texCoords \o (IF p \in model.frontCoords THEN vl ELSE <<>>)
             o == Append(d.of, p)
  <2>1. e = [d EXCEPT !.indices = x, !.vertices = y, !.texCoords = z, !.of = o]
    BY DEF WithPolygon
  <2>2. d \in Drawable
    BY DEF Whole
  <2> HIDE DEF e, x, y, z, o
  <2>3. e = [object |-> d.object, vertices |-> y, indices |-> x, texCoords |-> z,
             of |-> o, texture |-> d.texture, described |-> d.described]
    BY <2>1, <2>2 DEF Drawable
  <2>4. QED
    BY <2>3 DEF x, y, z, o
<1>4. Len(t) \in Nat /\ DOMAIN t = 1..Len(t) /\ \A i \in 1..Len(t) : t[i] \in Nat
  BY <1>1, LenProperties, ElementOfSeq
<1>5. sh \in Seq(Nat) /\ Len(sh) = Len(t) /\ \A i \in 1..Len(t) : sh[i] = t[i] + L
  <2> HIDE DEF t, L
  <2>1. sh \in [1..Len(t) -> Nat]
    BY <1>2, <1>4
  <2>2. QED
    BY <1>4, <2>1
<1> HIDE DEF e, sh, V
<1>6. e \in Drawable
  <2>1. /\ e.indices \in Seq(Nat) /\ e.vertices \in Seq(V) /\ e.of \in Seq(Nat)
        /\ e.texCoords \in Seq(V)
    <3> HIDE DEF t, vl, L, n
    <3>1. e.indices \in Seq(Nat) /\ e.vertices \in Seq(V)
      BY <1>1, <1>2, <1>3, <1>5, ConcatProperties
    <3>2. e.of \in Seq(Nat)
      BY <1>1, <1>2, <1>3, AppendProperties
    <3>3. (IF p \in model.frontCoords THEN vl ELSE <<>>) \in Seq(V)
      BY <1>1
    <3>4. QED
      BY <3>1, <3>2, <3>3, <1>2, <1>3, ConcatProperties
  <2>2. /\ e.texture \in Files \cup {NoTexture} /\ e.object \in Nat /\ e.described \in Nat
    BY <1>3 DEF Whole, Drawable
  <2>3. QED
    BY <1>3, <2>1, <2>2 DEF Drawable, V
<1>7. e.of \in Seq(Pols)
  BY <1>2, <1>3, AppendProperties
<1>8. /\ Len(e.indices) = n + Len(t) /\ DOMAIN e.indices = 1..(n + Len(t))
      /\ \A i \in 1..n : e.indices[i] = d.indices[i]
      /\ \A i \in 1..Len(t) : e.indices[n + i] = t[i] + L
  <2> HIDE DEF t, L
  <2>1. e.indices = d.indices \o sh /\ d.indices \in Seq(Nat) /\ sh \in Seq(Nat)
    BY <1>2, <1>3, <1>5
  <2>2. /\ Len(e.indices) = n + Len(sh) /\ DOMAIN e.indices = 1..(n + Len(sh))
        /\ \A i \in 1..n : e.indices[i] = d.indices[i]
        /\ \A i \in 1..Len(sh) : e.indices[n + i] = sh[i]
    BY <2>1, ConcatFacts
  <2> HIDE DEF n
  <2>3. QED
    BY <1>5, <2>2
<1>9. /\ Len(e.vertices) = L + Len(vl)
      /\ \A i \in 1..L : e.vertices[i] = d.vertices[i]
      /\ \A i \in 1..Len(vl) : e.vertices[L + i] = vl[i]
  <2> HIDE DEF vl
  <2>1. e.vertices = d.vertices \o vl /\ d.vertices \in Seq(V) /\ vl \in Seq(V)
    BY <1>1, <1>2, <1>3
  <2>2. QED
    BY <2>1, ConcatFacts
<1>10. DOMAIN d.indices = 1..n /\ \A i \in 1..n : d.indices[i] \in 0..L - 1
  <2>1. DOMAIN d.indices = 1..n
    BY <1>2, LenProperties
  <2>2. QED
    BY <2>1 DEF Whole, Range
<1>11. \A i \in 1..Len(t) : t[i] \in 0..Len(vl) - 1
  BY <1>1, <1>4 DEF Range
<1> HIDE DEF t, L, n, vl
<1>12. Range(e.indices) \subseteq 0..Len(e.vertices) - 1
  <2>1. ASSUME NEW i \in 1..(n + Len(t))
        PROVE  e.indices[i] \in 0..(L + Len(vl)) - 1
    <3>1. CASE i \in 1..n
      <4>1. d.indices[i] \in 0..L - 1 /\ e.indices[i] = d.indices[i]
        BY <3>1, <1>8, <1>10
      <4>2. QED
        BY <4>1, <1>1, <1>2
    <3>2. CASE i \notin 1..n
      <4>1. i - n \in 1..Len(t) /\ n + (i - n) = i
        BY <3>2, <1>2, <1>4
      <4>2. e.indices[i] = t[i - n] + L
        BY <4>1, <1>8
      <4>3. t[i - n] \in 0..Len(vl) - 1
        BY <4>1, <1>11
      <4>4. \A x \in 0..Len(vl) - 1 : x + L \in 0..(L + Len(vl)) - 1
        BY <1>1, <1>2
      <4>5. QED
        BY <4>2, <4>3, <4>4
    <3>3. QED
      BY <3>1, <3>2
  <2>2. QED
    BY <2>1, <1>8, <1>9 DEF Range
<1>13. Corners(e) = Corners(d) \o PolygonCorners(model, p)
  <2>1. /\ Corners(d) \in Seq(V) /\ Len(Corners(d)) = n
        /\ \A i \in 1..n : Corners(d)[i] = d.vertices[d.indices[i] + 1]
    <3>1. \A i \in 1..n : d.indices[i] + 1 \in 1..L
      BY <1>2, <1>10
    <3>2. \A i \in 1..n : d.vertices[d.indices[i] + 1] \in V
      BY <3>1, <1>2, ElementOfSeq DEF L
    <3>3. [i \in 1..n |-> d.vertices[d.indices[i] + 1]] \in [1..n -> V]
      BY <3>2
    <3>4. Corners(d) = [i \in 1..n |-> d.vertices[d.indices[i] + 1]]
      BY <1>10 DEF Corners
    <3>5. QED
      BY <1>2, <3>3, <3>4
  <2>2. /\ Len(PolygonCorners(model, p)) = Len(t)
        /\ \A i \in 1..Len(t) : PolygonCorners(model, p)[i] = <<p, t[i]>>
    <3>1. PolygonCorners(model, p) = [i \in 1..Len(t) |-> <<p, t[i]>>]
      BY <1>4 DEF PolygonCorners, t
    <3>2. QED
      BY <1>1, <1>4, <3>1, LenProperties
  <2>3. /\ Corners(e) = [i \in 1..(n + Len(t)) |-> e.vertices[e.indices[i] + 1]]
    BY <1>8 DEF Corners
  <2>4. ASSUME NEW i \in 1..(n + Len(t))
        PROVE  e.vertices[e.indices[i] + 1] =
                 IF i <= n THEN Corners(d)[i] ELSE PolygonCorners(model, p)[i - n]
    <3>1. CASE i <= n
      <4>1. i \in 1..n
        BY <3>1, <1>2, <1>4
      <4>2. d.indices[i] + 1 \in 1..L /\ e.indices[i] = d.indices[i]
        <5>1. \A x \in 0..L - 1 : x + 1 \in 1..L
          BY <1>2
        <5>2. d.indices[i] \in 0..L - 1
          BY <4>1, <1>10
        <5>3. QED
          BY <4>1, <5>1, <5>2, <1>8
      <4>3. e.vertices[e.indices[i] + 1] = d.vertices[d.indices[i] + 1]
        BY <4>2, <1>9
      <4>4. QED
        BY <3>1, <4>1, <4>3, <2>1
    <3>2. CASE ~(i <= n)
      <4>1. i - n \in 1..Len(t) /\ n + (i - n) = i
        BY <3>2, <1>2, <1>4
      <4>2. e.indices[i] = t[i - n] + L
        BY <4>1, <1>8
      <4>3. t[i - n] \in 0..Len(vl) - 1 /\ t[i - n] + 1 \in 1..Len(vl)
        BY <4>1, <1>1, <1>11
      <4>4. e.indices[i] + 1 = L + (t[i - n] + 1)
        BY <4>2, <4>3, <1>2
      <4>5. e.vertices[e.indices[i] + 1] = vl[t[i - n] + 1]
        BY <4>3, <4>4, <1>9
      <4>6. vl[t[i - n] + 1] = <<p, t[i - n]>>
        <5>1. Len(vl) = model.size[p]
          BY PolygonFacts DEF vl
        <5>2. vl[t[i - n] + 1] = <<p, (t[i - n] + 1) - 1>>
          BY <4>3, <5>1 DEF vl, VertexList
        <5>3. (t[i - n] + 1) - 1 = t[i - n]
          BY <4>3
        <5>4. QED
          BY <5>2, <5>3
      <4>7. QED
        BY <3>2, <4>1, <4>5, <4>6, <2>2
    <3>3. QED
      BY <3>1, <3>2
  <2> DEFINE a == Corners(d)
             b == PolygonCorners(model, p)
             c == Corners(e)
  <2>5. a \in Seq(V) /\ b \in Seq(V) /\ Len(a) = n /\ Len(b) = Len(t)
    BY <1>1, <2>1, <2>2
  <2>6. c = [i \in 1..(n + Len(t)) |-> IF i <= n THEN a[i] ELSE b[i - n]]
    BY <2>3, <2>4
  <2> HIDE DEF a, b, c
  <2>7. c = a \o b
    <3>1. a \o b = [i \in 1..(Len(a) + Len(b)) |-> IF i <= Len(a) THEN a[i] ELSE b[i - Len(a)]]
      <4>1. a \in Seq(V) /\ b \in Seq(V)
        BY <2>5
      <4>2. QED
        BY <4>1, ConcatIs, Zenon
    <3>2. Len(a) = n /\ Len(b) = Len(t)
      BY <2>5
    <3> DEFINE k == Len(t)
    <3>3. a \o b = [i \in 1..(n + k) |-> IF i <= n THEN a[i] ELSE b[i - n]]
      BY <3>1, <3>2
    <3>4. QED
      BY <2>6, <3>3
  <2>8. QED
    BY <2>7 DEF a, b, c
<1>14. Corners(e) = FlattenSeq([j \in DOMAIN e.of |-> PolygonCorners(model, e.of[j])])
  <2> DEFINE f == [q \in Pols |-> PolygonCorners(model, q)]
             Q == Seq(V)
             F == [j \in DOMAIN d.of |-> f[d.of[j]]]
  <2>1. f \in [Pols -> Q]
    BY PolygonFacts DEF V
  <2>2. /\ F \in Seq(Q)
        /\ [j \in DOMAIN Append(d.of, p) |-> f[Append(d.of, p)[j]]] = Append(F, f[p])
    <3>1. d.of \in Seq(Pols)
      BY <1>2
    <3> HIDE DEF f, Q
    <3>2. QED
      BY <2>1, <3>1, MapAppend
  <2>3. F = [j \in DOMAIN d.of |-> PolygonCorners(model, d.of[j])]
    <3>1. \A j \in DOMAIN d.of : d.of[j] \in Pols
      BY <1>2
    <3>2. QED
      BY <3>1
  <2>4. [j \in DOMAIN e.of |-> f[e.of[j]]] = [j \in DOMAIN e.of |-> PolygonCorners(model, e.of[j])]
    <3>1. \A j \in DOMAIN e.of : e.of[j] \in Pols
      BY <1>7
    <3>2. QED
      BY <3>1
  <2>5. FlattenSeq(Append(F, f[p])) = FlattenSeq(F) \o f[p]
    <3> HIDE DEF f, F
    <3>1. f[p] \in Seq(V) /\ F \in Seq(Seq(V))
      BY <2>1, <2>2 DEF Q
    <3>2. QED
      BY <3>1, FlattenAppend
  <2>6. Corners(d) = FlattenSeq(F)
    BY <2>3 DEF Whole
  <2>7. f[p] = PolygonCorners(model, p)
    OBVIOUS
  <2> HIDE DEF f, F
  <2>8. QED
    BY <2>2, <2>4, <2>5, <2>6, <2>7, <1>3, <1>13
<1>15. QED
  BY <1>3, <1>6, <1>7, <1>12, <1>14 DEF Whole, Pols, e, vl

(* The calls that can be pending.                                          *)
At == Nat \cup {HighestLod(o) : o \in Objs}

Calls ==
  [kind : {"object"}, node : Objs, at : At, of : Nat]
  \cup [kind : {"geometry"}, node : Geos, at : At, of : Nat]
  \cup [kind : {"polygons"}, node : {g \in Geos : model.polygons[g] # <<>>}, at : Nat \ {0},
        of : Nat]

PendingOf ==
  phase = "building" => WellFormed(model) /\ calls \in Seq(Calls)

(* There are polygons in the batch only while createOsgGeometry... is at   *)
(* those of one geometry, and they have the texture that texName names.    *)
BatchOpen ==
  batch # EmptyDrawable =>
    phase = "building" /\ ~Single /\ calls # <<>> /\ Head(calls).kind = "polygons"

BatchTextured ==
  /\ texName \in Url \cup {Sentinel, None}
  /\ \A i \in DOMAIN batch.of : TextureName(batch.of[i]) = texName

(* The polygons in a material array have the texture that is its key.      *)
TexturedBy(m, d, key) ==
  \A i \in DOMAIN d.of : m.texture[d.of[i]] = IF key \in Untextured THEN NoTexture ELSE key

ArraysTextured ==
  /\ IsFiniteSet(DOMAIN ma)
  /\ DOMAIN ma \subseteq Untextured \cup Url
  /\ \A key \in DOMAIN ma : Whole(model, ma[key]) /\ TexturedBy(model, ma[key], key)

DrawablesTextured ==
  /\ drawables \in Seq(Drawable)
  /\ \A i \in DOMAIN drawables : Whole(model, drawables[i]) /\ OneTexture(model, drawables[i])
  /\ phase = "loading" => drawables = <<>>

Counted ==
  /\ cout \in {"console", "notify"} /\ coutsb \in {"console", "notify"}
  /\ options \subseteq Switches
  /\ textureMap \subseteq Files
  /\ reads \in 0..MaxReads

SceneInv ==
  IInv /\ Counted /\ PendingOf /\ BatchOpen /\ Whole(model, batch) /\ BatchTextured
    /\ ArraysTextured /\ DrawablesTextured

LEMMA InitScene == Init => SceneInv
<1> SUFFICES ASSUME Init PROVE SceneInv
  OBVIOUS
<1>1. IInv
  BY InitIInv
<1>2. Counted
  BY ReadsAssumption DEF Counted, Init
<1>3. PendingOf /\ BatchOpen
  BY DEF PendingOf, BatchOpen, Init
<1>4. Whole(model, batch) /\ batch.of = <<>>
  BY EmptyWhole DEF Init
<1>5. BatchTextured
  BY <1>4 DEF BatchTextured, Init
<1>6. ArraysTextured
  <2>1. DOMAIN ma = {}
    BY DEF Init
  <2>2. QED
    BY <2>1, FS_EmptySet DEF ArraysTextured
<1>7. DrawablesTextured
  BY DEF DrawablesTextured, Init
<1>8. QED
  BY <1>1, <1>2, <1>3, <1>4, <1>5, <1>6, <1>7 DEF SceneInv

(* The call that comes next, of a model that is being drawn.               *)
LEMMA HeadFacts ==
  ASSUME SceneInv, NEW kind, NextCall(kind)
  PROVE  /\ WellFormed(model) /\ calls \in Seq(Calls) /\ calls # <<>>
         /\ Head(calls) \in Calls /\ Tail(calls) \in Seq(Calls)
         /\ Head(calls).kind = kind /\ Head(calls).of \in Nat
         /\ kind = "object" => Head(calls).node \in Objs /\ Head(calls).at \in At
         /\ kind = "geometry" => Head(calls).node \in Geos
         /\ kind = "polygons" => /\ Head(calls).node \in Geos
                                 /\ model.polygons[Head(calls).node] # <<>>
                                 /\ Head(calls).at \in Nat \ {0}
         /\ UNCHANGED <<streams, model, options, reads, thrown, phase>>
         /\ phase = "building"
<1>1. /\ calls # <<>> /\ Head(calls).kind = kind /\ phase = "building"
      /\ UNCHANGED <<streams, model, options, reads, thrown, phase>>
  BY DEF NextCall
<1>2. WellFormed(model) /\ calls \in Seq(Calls)
  BY <1>1 DEF SceneInv, PendingOf
<1>3. Head(calls) \in Calls /\ Tail(calls) \in Seq(Calls)
  <2> HIDE DEF Calls
  <2>1. QED
    BY <1>1, <1>2, HeadTailProperties
<1>4. QED
  BY <1>1, <1>2, <1>3 DEF Calls

(* A polygon of a geometry.                                                *)
LEMMA PolygonOf ==
  ASSUME WellFormed(model), NEW g \in Geos, NEW j \in DOMAIN model.polygons[g]
  PROVE  model.polygons[g][j] \in Pols
<1> DEFINE P == Pols
           Q == Seq(P)
<1>1. model.polygons \in Seq(Q)
  BY DEF WellFormed, Pols
<1> HIDE DEF Q
<1>2. model.polygons[g] \in Q
  BY <1>1, ElementOfSeq, LenProperties DEF Geos
<1> HIDE DEF P
<1>3. model.polygons[g][j] \in P
  BY <1>2, ElementOfSeq, LenProperties DEF Q
<1>4. QED
  BY <1>3 DEF P

(* Calls put before the others.                                            *)
LEMMA CallsFor ==
  ASSUME WellFormed(model), NEW o \in Objs, NEW n \in Nat, NEW l \in At
  PROVE  /\ \A gs \in Seq(Geos) : Geometries(gs, n) \in Seq(Calls)
         /\ \A os \in Seq(Objs) : Objects(os, l) \in Seq(Calls)
         /\ Selected(o, l) \in Seq(Geos)
         /\ model.children[o] \in Seq(Objs)
<1>1. ASSUME NEW gs \in Seq(Geos)
      PROVE  Geometries(gs, n) \in Seq(Calls)
  <2>1. Len(gs) \in Nat /\ DOMAIN gs = 1..Len(gs) /\ \A i \in 1..Len(gs) : gs[i] \in Geos
    BY LenProperties, ElementOfSeq
  <2>2. \A i \in 1..Len(gs) : Geometry(gs[i], n) \in Calls
    BY <2>1 DEF Geometry, Calls, At
  <2> HIDE DEF Calls
  <2>3. Geometries(gs, n) \in [1..Len(gs) -> Calls]
    BY <2>1, <2>2 DEF Geometries
  <2>4. QED
    BY <2>1, <2>3
<1>2. ASSUME NEW os \in Seq(Objs)
      PROVE  Objects(os, l) \in Seq(Calls)
  <2>1. Len(os) \in Nat /\ DOMAIN os = 1..Len(os) /\ \A i \in 1..Len(os) : os[i] \in Objs
    BY LenProperties, ElementOfSeq
  <2>2. Objs \subseteq Nat
    BY LenProperties DEF WellFormed, Objs
  <2>3. \A i \in 1..Len(os) : Object(os[i], l) \in Calls
    BY <2>1, <2>2 DEF Object, Calls
  <2> HIDE DEF Calls
  <2>4. Objects(os, l) \in [1..Len(os) -> Calls]
    BY <2>1, <2>3 DEF Objects
  <2>5. QED
    BY <2>1, <2>4
<1>3. Selected(o, l) \in Seq(Geos)
  <2> DEFINE gs == model.geometries[o]
             drawn(g) == "useMaxLODOnly" \in options =>
                           model.lod[g] >= HighestLod(o) /\ model.lod[g] >= l
             F == [i \in DOMAIN gs |-> IF drawn(gs[i]) THEN <<gs[i]>> ELSE <<>>]
             G == Geos
             Q == Seq(G)
  <2>1. gs \in Seq(G)
    BY DEF WellFormed, Objs, Geos
  <2>2. Selected(o, l) = FlattenSeq(F)
    BY DEF Selected
  <2> HIDE DEF gs, drawn, G
  <2>3. Len(gs) \in Nat /\ DOMAIN gs = 1..Len(gs) /\ \A i \in 1..Len(gs) : gs[i] \in G
    BY <2>1, LenProperties, ElementOfSeq
  <2>4. \A x \in G : <<x>> \in Q
    OBVIOUS
  <2>5. <<>> \in Q
    OBVIOUS
  <2> HIDE DEF Q
  <2>6. F \in [1..Len(gs) -> Q]
    BY <2>3, <2>4, <2>5
  <2>7. F \in Seq(Q)
    <3> HIDE DEF F
    <3>1. QED
      BY <2>3, <2>6
  <2> HIDE DEF F
  <2>8. FlattenSeq(F) \in Seq(G)
    BY <2>7, FlattenTyped DEF Q
  <2>9. QED
    BY <2>2, <2>8 DEF G
<1>4. model.children[o] \in Seq(Objs)
  <2> DEFINE Q == Seq(Objs)
  <2>1. model.children \in Seq(Q)
    BY DEF WellFormed, Objs
  <2> HIDE DEF Q
  <2>2. model.children[o] \in Q
    BY <2>1, ElementOfSeq, LenProperties DEF Objs
  <2>3. QED
    BY <2>2 DEF Q
<1>5. QED
  BY <1>1, <1>2, <1>3, <1>4


LEMMA BatchKept ==
  ASSUME Whole(model, batch), BatchTextured, UNCHANGED <<batch, texName, model>>
  PROVE  Whole(model, batch)' /\ BatchTextured'
<1>1. Whole(model', batch')
  OBVIOUS
<1>2. QED
  BY <1>1 DEF BatchTextured, TextureName

LEMMA ArraysKept ==
  ASSUME ArraysTextured, UNCHANGED <<ma, model>>
  PROVE  ArraysTextured'
<1>1. \A d, key : Whole(model', d) = Whole(model, d) /\ TexturedBy(model', d, key) = TexturedBy(model, d, key)
  OBVIOUS
<1>2. QED
  BY <1>1 DEF ArraysTextured

LEMMA DrawablesKept ==
  ASSUME DrawablesTextured, UNCHANGED <<drawables, model>>, phase' # "loading"
  PROVE  DrawablesTextured'
<1>1. \A d : Whole(model', d) = Whole(model, d) /\ OneTexture(model', d) = OneTexture(model, d)
  OBVIOUS
<1>2. QED
  BY <1>1 DEF DrawablesTextured

(* A step within a call: what is to be looked at again.                    *)
LEMMA SceneFrame ==
  ASSUME SceneInv, IInv', phase = "building",
         UNCHANGED <<streams, options, reads, model, phase>>,
         textureMap' \subseteq Files,
         calls' \in Seq(Calls),
         BatchOpen', Whole(model, batch)', BatchTextured', ArraysTextured', DrawablesTextured'
  PROVE  SceneInv'
<1>1. Counted'
  BY DEF SceneInv, Counted, streams
<1>2. WellFormed(model) /\ WellFormed(model')
  BY DEF SceneInv, PendingOf
<1>3. Calls' = Calls
  BY DEF Calls, At, Objs, Geos, HighestLod
<1>4. PendingOf'
  BY <1>2, <1>3 DEF PendingOf
<1>5. QED
  BY <1>1, <1>4 DEF SceneInv

LEMMA CreateObjectScene ==
  ASSUME SceneInv, IInv', CreateObject
  PROVE  SceneInv'
<1> DEFINE o == Head(calls).node
           gs == Selected(o, Head(calls).at)
           cs == IF Single \/ gs = <<>> THEN Objects(model.children[o], HighestLod(o)) ELSE <<>>
<1>1. NextCall("object") /\ calls' = Geometries(gs, o) \o cs \o Tail(calls)
  BY SMTT(60) DEF CreateObject
<1>2. /\ WellFormed(model) /\ Tail(calls) \in Seq(Calls) /\ Head(calls).kind = "object"
      /\ Head(calls).node \in Objs /\ Head(calls).at \in At
      /\ UNCHANGED <<streams, model, options, reads, thrown, phase>> /\ phase = "building"
  BY <1>1, HeadFacts
<1>3. o \in Nat /\ HighestLod(o) \in At
  <2>1. o \in DOMAIN model.children
    BY <1>2 DEF Objs
  <2>2. DOMAIN model.children = 1..Len(model.children) /\ Len(model.children) \in Nat
    BY <1>2, LenProperties DEF WellFormed
  <2> HIDE DEF o
  <2>3. o \in Nat
    BY <2>1, <2>2
  <2>4. HighestLod(o) \in At
    BY <2>1 DEF At, Objs
  <2>5. QED
    BY <2>3, <2>4
<1> HIDE DEF o
<1>4. gs \in Seq(Geos) /\ model.children[o] \in Seq(Objs)
  BY <1>2, <1>3, CallsFor DEF o
<1>5. Geometries(gs, o) \in Seq(Calls) /\ Objects(model.children[o], HighestLod(o)) \in Seq(Calls)
  <2> HIDE DEF gs
  <2>1. o \in Objs
    BY <1>2 DEF o
  <2>2. QED
    BY <1>2, <1>3, <1>4, <2>1, CallsFor
<1>6. calls' \in Seq(Calls)
  <2> DEFINE C == Calls
  <2>1. Geometries(gs, o) \in Seq(C) /\ cs \in Seq(C) /\ Tail(calls) \in Seq(C)
    BY <1>2, <1>5
  <2> HIDE DEF C, cs, gs
  <2>2. calls' \in Seq(C)
    BY <1>1, <2>1, ConcatProperties, SMTT(60)
  <2>3. QED
    BY <2>2 DEF C
<1>7. UNCHANGED <<ma, textureMap, batch, texName, drawables>> /\ textureMap' \subseteq Files
  BY DEF CreateObject, SceneInv, Counted
<1>8. BatchOpen'
  BY <1>2, <1>7 DEF SceneInv, BatchOpen
<1>9. Whole(model, batch)' /\ BatchTextured' /\ ArraysTextured' /\ DrawablesTextured'
  BY <1>2, <1>7, BatchKept, ArraysKept, DrawablesKept DEF SceneInv
<1>10. QED
  BY <1>2, <1>6, <1>7, <1>8, <1>9, SceneFrame, SMTT(60)

(* The parts of a geometry.                                                *)
LEMMA PartsCalls ==
  ASSUME WellFormed(model), NEW g \in Geos, NEW n \in Nat
  PROVE  Geometries(model.parts[g], n) \in Seq(Calls)
<1> DEFINE gs == model.parts[g]
<1>0. gs \in Seq(Geos)
  BY DEF WellFormed, Geos
<1> HIDE DEF gs
<1>1. Len(gs) \in Nat /\ DOMAIN gs = 1..Len(gs) /\ \A i \in 1..Len(gs) : gs[i] \in Geos
  BY <1>0, LenProperties, ElementOfSeq
<1>2. \A i \in 1..Len(gs) : Geometry(gs[i], n) \in Calls
  BY <1>1 DEF Geometry, Calls, At
<1> HIDE DEF Calls
<1>3. Geometries(gs, n) \in [1..Len(gs) -> Calls]
  BY <1>1, <1>2 DEF Geometries
<1>4. Geometries(gs, n) \in Seq(Calls)
  BY <1>1, <1>3
<1>5. QED
  BY <1>4 DEF gs

LEMMA CreateGeometryScene ==
  ASSUME SceneInv, IInv', CreateGeometry
  PROVE  SceneInv'
<1> DEFINE c == Head(calls)
           first == IF model.polygons[c.node] # <<>> THEN <<Polygons(c.node, c.of, 1)>>
                    ELSE Geometries(model.parts[c.node], c.of)
<1>1. /\ NextCall("geometry") /\ calls' = first \o Tail(calls)
      /\ batch' = EmptyDrawable /\ texName' = Sentinel
      /\ UNCHANGED <<ma, textureMap, drawables>>
  BY SMTT(60) DEF CreateGeometry
<1>2. /\ WellFormed(model) /\ Tail(calls) \in Seq(Calls)
      /\ c.node \in Geos /\ c.of \in Nat
      /\ UNCHANGED <<streams, model, options, reads, thrown, phase>> /\ phase = "building"
  BY <1>1, HeadFacts
<1> HIDE DEF c
<1>3. first \in Seq(Calls)
  <2>1. CASE model.polygons[c.node] # <<>>
    <3>1. Polygons(c.node, c.of, 1) \in Calls
      BY <1>2, <2>1 DEF Polygons, Calls
    <3> HIDE DEF Calls
    <3>2. QED
      BY <3>1, <2>1
  <2>2. CASE model.polygons[c.node] = <<>>
    BY <1>2, <2>2, PartsCalls
  <2>3. QED
    BY <2>1, <2>2
<1>4. calls' \in Seq(Calls)
  <2> HIDE DEF first, Calls
  <2>1. QED
    BY <1>1, <1>2, <1>3, ConcatProperties
<1>5. textureMap' \subseteq Files
  BY <1>1 DEF SceneInv, Counted
<1>6. Whole(model, batch)' /\ batch'.of = <<>>
  BY <1>1, EmptyWhole
<1>7. BatchOpen' /\ BatchTextured'
  BY <1>1, <1>6 DEF BatchOpen, BatchTextured
<1>8. ArraysTextured' /\ DrawablesTextured'
  BY <1>1, <1>2, ArraysKept, DrawablesKept DEF SceneInv
<1>9. QED
  BY <1>2, <1>4, <1>5, <1>6, <1>7, <1>8, SceneFrame, SMTT(60)

(* One more polygon of the geometry.                                       *)
LEMMA AdvanceFacts ==
  ASSUME SceneInv, NextCall("polygons"), Advance
  PROVE  /\ calls' \in Seq(Calls) /\ calls' # <<>> /\ Head(calls').kind = "polygons"
<1> DEFINE c == [Head(calls) EXCEPT !.at = @ + 1]
<1>1. /\ Head(calls) \in Calls /\ Tail(calls) \in Seq(Calls) /\ Head(calls).kind = "polygons"
      /\ calls' = <<c>> \o Tail(calls)
  BY HeadFacts DEF Advance
<1>2. c \in Calls /\ c.kind = "polygons"
  <2> DEFINE N == {g \in Geos : model.polygons[g] # <<>>}
             R == [kind : {"polygons"}, node : N, at : Nat \ {0}, of : Nat]
  <2>1. Head(calls) \in R
    BY <1>1 DEF Calls
  <2> HIDE DEF N
  <2>2. \A h \in R : [h EXCEPT !.at = @ + 1] \in R /\ [h EXCEPT !.at = @ + 1].kind = "polygons"
    <3>1. \A n \in Nat \ {0} : n + 1 \in Nat \ {0}
      OBVIOUS
    <3>2. QED
      BY <3>1
  <2>3. c \in R /\ c.kind = "polygons"
    BY <2>1, <2>2
  <2>4. QED
    BY <2>3 DEF Calls, N
<1> HIDE DEF c, Calls
<1>3. <<c>> \in Seq(Calls) /\ Len(<<c>>) = 1 /\ <<c>>[1] = c
  BY <1>2
<1>4. /\ calls' \in Seq(Calls) /\ Len(calls') = 1 + Len(Tail(calls)) /\ calls'[1] = c
      /\ Len(Tail(calls)) \in Nat
  <2> DEFINE a == <<c>>
             b == Tail(calls)
  <2>1. a \in Seq(Calls) /\ b \in Seq(Calls) /\ Len(a) = 1 /\ a[1] = c /\ calls' = a \o b
    BY <1>1, <1>3
  <2> HIDE DEF a, b
  <2>2. /\ a \o b \in Seq(Calls) /\ Len(a \o b) = Len(a) + Len(b)
        /\ \A i \in 1..Len(a) : (a \o b)[i] = a[i]
        /\ Len(b) \in Nat
    BY <2>1, ConcatFacts
  <2>3. 1 \in 1..Len(a)
    BY <2>1
  <2>4. QED
    BY <2>1, <2>2, <2>3 DEF b
<1>5. calls' # <<>> /\ Head(calls') = c
  <2>1. Len(calls') # 0
    BY <1>4
  <2>2. calls' # <<>>
    BY <2>1
  <2>3. QED
    BY <1>4, <2>2, HeadTailProperties
<1>6. QED
  BY <1>2, <1>4, <1>5


LEMMA SkipPolygonScene ==
  ASSUME SceneInv, IInv', SkipPolygon
  PROVE  SceneInv'
<1>1. /\ NextCall("polygons") /\ ~Single /\ Advance
      /\ UNCHANGED <<ma, textureMap, batch, texName, drawables>>
  BY DEF SkipPolygon, NextPolygon
<1>2. UNCHANGED <<streams, model, options, reads, thrown, phase>> /\ phase = "building"
  BY <1>1, HeadFacts
<1>3. calls' \in Seq(Calls) /\ calls' # <<>> /\ Head(calls').kind = "polygons"
  BY <1>1, AdvanceFacts
<1>4. BatchOpen'
  BY <1>1, <1>2, <1>3 DEF BatchOpen, Single
<1>5. textureMap' \subseteq Files
  BY <1>1 DEF SceneInv, Counted
<1>6. Whole(model, batch)' /\ BatchTextured' /\ ArraysTextured' /\ DrawablesTextured'
  BY <1>1, <1>2, BatchKept, ArraysKept, DrawablesKept DEF SceneInv
<1>7. QED
  BY <1>2, <1>3, <1>4, <1>5, <1>6, SceneFrame

(* A drawable with the same triangles.                                     *)
LEMMA SameTriangles ==
  ASSUME NEW m, NEW d, Whole(m, d), NEW e \in Drawable,
         e.of = d.of, e.indices = d.indices, e.vertices = d.vertices
  PROVE  /\ Whole(m, e)
         /\ OneTexture(m, d) => OneTexture(m, e)
         /\ \A key : TexturedBy(m, d, key) => TexturedBy(m, e, key)
<1>1. Corners(e) = Corners(d)
  BY DEF Corners
<1>2. Whole(m, e)
  BY <1>1 DEF Whole
<1>3. QED
  BY <1>2 DEF OneTexture, TexturedBy

LEMMA FinishedFacts ==
  ASSUME NEW d, Whole(model, d), NEW o \in Nat, NEW p \in Nat, textureMap \subseteq Files
  PROVE  /\ Whole(model, Finished(d, o, p)) /\ Finished(d, o, p) \in Drawable
         /\ OneTexture(model, d) => OneTexture(model, Finished(d, o, p))
         /\ Loaded(p) \subseteq Files
<1> DEFINE t == IF model.texture[p] # NoTexture /\ Loads(model.texture[p])
                THEN model.texture[p] ELSE NoTexture
           e == Finished(d, o, p)
<1>1. t \in Files \cup {NoTexture} /\ Loaded(p) \subseteq Files
  BY DEF Loads, Loaded
<1>2. e = [d EXCEPT !.object = o, !.described = p, !.texture = t]
  BY DEF Finished
<1>3. d \in Drawable
  BY DEF Whole
<1> HIDE DEF t, e
<1>4. e \in Drawable /\ e.of = d.of /\ e.indices = d.indices /\ e.vertices = d.vertices
  <2>1. e = [object |-> o, vertices |-> d.vertices, indices |-> d.indices,
             texCoords |-> d.texCoords, of |-> d.of, texture |-> t, described |-> p]
    BY <1>2, <1>3 DEF Drawable
  <2>2. /\ d.vertices \in Seq(Nat \X Nat) /\ d.indices \in Seq(Nat)
        /\ d.texCoords \in Seq(Nat \X Nat) /\ d.of \in Seq(Nat)
    BY <1>3 DEF Drawable
  <2>3. QED
    BY <1>1, <2>1, <2>2 DEF Drawable
<1>5. Whole(model, e) /\ (OneTexture(model, d) => OneTexture(model, e))
  BY <1>4, SameTriangles
<1>6. QED
  BY <1>1, <1>4, <1>5, SameTriangles DEF e

(* The batch has one texture.                                              *)
LEMMA BatchOneTexture ==
  ASSUME WellFormed(model), Whole(model, batch), BatchTextured
  PROVE  OneTexture(model, batch)
<1>1. \A i \in DOMAIN batch.of : batch.of[i] \in Pols /\ TextureName(batch.of[i]) = texName
  BY ElementOfSeq, LenProperties DEF Whole, Pols, BatchTextured
<1>2. \A p \in Pols : model.texture[p] \in Url \cup {NoTexture}
  BY DEF WellFormed, Pols
<1>3. None \notin Url
  BY UrlAssumption DEF None
<1>4. \A p, q \in Pols : TextureName(p) = TextureName(q) => model.texture[p] = model.texture[q]
  BY <1>2, <1>3 DEF TextureName
<1>5. QED
  BY <1>1, <1>4 DEF OneTexture

(* One more drawable of the scene.                                         *)
LEMMA DrawableAdded ==
  ASSUME DrawablesTextured, UNCHANGED model, phase' # "loading",
         NEW d \in Drawable, Whole(model, d), OneTexture(model, d),
         drawables' = Append(drawables, d)
  PROVE  DrawablesTextured'
<1>1. drawables \in Seq(Drawable)
  BY DEF DrawablesTextured
<1>2. /\ drawables' \in Seq(Drawable)
      /\ \A i \in DOMAIN drawables' :
           drawables'[i] = d \/ (i \in DOMAIN drawables /\ drawables'[i] = drawables[i])
  BY <1>1, AppendElements
<1>3. \A i \in DOMAIN drawables' : Whole(model, drawables'[i]) /\ OneTexture(model, drawables'[i])
  BY <1>2 DEF DrawablesTextured
<1>4. QED
  BY <1>2, <1>3 DEF DrawablesTextured

LEMMA AddPolygonScene ==
  ASSUME SceneInv, IInv', AddPolygon
  PROVE  SceneInv'
<1> DEFINE p == ThisPolygon
           o == Head(calls).of
           b == IF TextureChanges(p) THEN EmptyDrawable ELSE batch
<1>1. /\ NextCall("polygons") /\ ~Single /\ Advance
      /\ Head(calls).at \in DOMAIN model.polygons[Head(calls).node]
      /\ batch' = WithPolygon(b, p) /\ texName' = TextureName(p)
      /\ UNCHANGED ma
      /\ TextureChanges(p) => drawables' = Append(drawables, Finished(batch, o, p)) /\ textureMap' = Loaded(p)
      /\ ~TextureChanges(p) => UNCHANGED <<drawables, textureMap>>
  BY DEF AddPolygon, NextPolygon
<1>2. /\ UNCHANGED <<streams, model, options, reads, thrown, phase>> /\ phase = "building"
      /\ WellFormed(model) /\ o \in Nat /\ Head(calls).node \in Geos
  BY <1>1, HeadFacts
<1>3. calls' \in Seq(Calls) /\ calls' # <<>> /\ Head(calls').kind = "polygons"
  BY <1>1, AdvanceFacts
<1>4. p \in Pols /\ p \in Nat /\ model.texture[p] \in Url \cup {NoTexture}
  <2>1. p \in Pols
    BY <1>1, <1>2, PolygonOf DEF ThisPolygon
  <2>2. QED
    BY <1>2, <2>1, PolygonFacts, SMTT(60)
<1>5. /\ Whole(model, batch) /\ BatchTextured /\ DrawablesTextured /\ ArraysTextured
      /\ textureMap \subseteq Files
  BY DEF SceneInv, Counted
<1> HIDE DEF p, o
<1>6. BatchOpen'
  BY <1>1, <1>2, <1>3 DEF BatchOpen, Single
<1>7. Whole(model, b)
  BY <1>5, EmptyWhole
<1>8. Whole(model, batch') /\ batch'.of = Append(b.of, p)
  <2> HIDE DEF b
  <2>1. QED
    BY <1>1, <1>2, <1>4, <1>7, WholeWithPolygon
<1>9. Whole(model, batch)'
  BY <1>2, <1>8
<1>10. \A i \in DOMAIN b.of : TextureName(b.of[i]) = TextureName(p)
  <2>1. CASE TextureChanges(p)
    <3>1. b.of = <<>>
      BY <2>1, EmptyWhole
    <3>2. QED
      BY <3>1
  <2>2. CASE ~TextureChanges(p)
    <3>1. b = batch
      BY <2>2
    <3>2. /\ texName = Sentinel \/ texName = TextureName(p)
      BY <2>2, <1>4 DEF TextureChanges, TextureName
    <3>3. texName = Sentinel => batch.of = <<>>
      <4>1. \A i \in DOMAIN batch.of : batch.of[i] \in Pols /\ TextureName(batch.of[i]) = texName
        BY <1>5, ElementOfSeq, LenProperties DEF Whole, Pols, BatchTextured
      <4>2. \A q \in Pols : TextureName(q) # Sentinel
        BY <1>2, UrlAssumption DEF WellFormed, Pols, TextureName, Sentinel, None
      <4>3. texName = Sentinel => DOMAIN batch.of = {}
        BY <4>1, <4>2
      <4>4. batch.of \in Seq(Nat)
        BY <1>5 DEF Whole, Drawable
      <4>5. \A s \in Seq(Nat) : DOMAIN s = {} => s = <<>>
        <5>1. \A s \in Seq(Nat) : Len(s) \in Nat /\ DOMAIN s = 1..Len(s) /\ (Len(s) # 0 => 1 \in 1..Len(s))
          BY LenProperties
        <5>2. QED
          BY <5>1, EmptySeq
      <4>6. QED
        BY <4>3, <4>4, <4>5
    <3>4. QED
      BY <1>5, <3>1, <3>2, <3>3 DEF BatchTextured
  <2>3. QED
    BY <2>1, <2>2
<1>11. BatchTextured'
  <2>1. texName' \in Url \cup {Sentinel, None}
    BY <1>1, <1>4 DEF TextureName
  <2>2. b.of \in Seq(Nat)
    BY <1>7 DEF Whole, Drawable
  <2> HIDE DEF b
  <2>3. \A i \in DOMAIN batch'.of : batch'.of[i] = p \/ (i \in DOMAIN b.of /\ batch'.of[i] = b.of[i])
    BY <1>4, <1>8, <2>2, AppendElements
  <2>4. \A i \in DOMAIN batch'.of : TextureName(batch'.of[i]) = TextureName(p)
    BY <2>3, <1>10
  <2>5. QED
    BY <1>1, <1>2, <2>1, <2>4 DEF BatchTextured, TextureName
<1>12. DrawablesTextured' /\ textureMap' \subseteq Files
  <2>1. CASE TextureChanges(p)
    <3>1. /\ Whole(model, Finished(batch, o, p)) /\ Finished(batch, o, p) \in Drawable
          /\ OneTexture(model, batch) => OneTexture(model, Finished(batch, o, p))
          /\ Loaded(p) \subseteq Files
      BY <1>2, <1>4, <1>5, FinishedFacts DEF o
    <3>2. OneTexture(model, batch)
      BY <1>2, <1>5, BatchOneTexture
    <3>3. drawables' = Append(drawables, Finished(batch, o, p)) /\ textureMap' = Loaded(p)
      BY <1>1, <2>1
    <3>4. QED
      BY <1>2, <1>5, <3>1, <3>2, <3>3, DrawableAdded
  <2>2. CASE ~TextureChanges(p)
    BY <1>1, <1>2, <1>5, <2>2, DrawablesKept
  <2>3. QED
    BY <2>1, <2>2
<1>13. ArraysTextured'
  BY <1>1, <1>2, <1>5, ArraysKept
<1>14. QED
  BY <1>2, <1>3, <1>6, <1>9, <1>11, <1>12, <1>13, SceneFrame

LEMMA EndPolygonsScene ==
  ASSUME SceneInv, IInv', EndPolygons
  PROVE  SceneInv'
<1> DEFINE c == Head(calls)
           ps == model.polygons[c.node]
           p == Last(ps)
<1>1. /\ NextCall("polygons")
      /\ batch.vertices # <<>> =>
           drawables' = Append(drawables, Finished(batch, c.of, p)) /\ textureMap' = Loaded(p)
      /\ batch.vertices = <<>> => UNCHANGED <<drawables, textureMap>>
      /\ calls' = Geometries(model.parts[c.node], c.of) \o Tail(calls)
      /\ batch' = EmptyDrawable
      /\ UNCHANGED <<ma, texName>>
  BY DEF EndPolygons
<1>2. /\ UNCHANGED <<streams, model, options, reads, thrown, phase>> /\ phase = "building"
      /\ WellFormed(model) /\ c.of \in Nat /\ c.node \in Geos /\ ps # <<>>
      /\ Tail(calls) \in Seq(Calls)
  BY <1>1, HeadFacts
<1>3. p \in Nat
  <2> DEFINE Q == Seq(Pols)
  <2>1. model.polygons \in Seq(Q)
    BY <1>2 DEF WellFormed, Pols
  <2> HIDE DEF Q
  <2>2. ps \in Q
    BY <1>2, <2>1, ElementOfSeq, LenProperties DEF Geos
  <2>3. Pols \subseteq Nat
    BY <1>2, LenProperties DEF WellFormed, Pols
  <2> HIDE DEF ps
  <2>4. p \in Pols
    BY <1>2, <2>2, FrontLast DEF Q
  <2>5. QED
    BY <2>3, <2>4
<1> HIDE DEF p, ps, c
<1>4. /\ Whole(model, batch) /\ BatchTextured /\ DrawablesTextured /\ ArraysTextured
      /\ textureMap \subseteq Files
  BY DEF SceneInv, Counted
<1>5. calls' \in Seq(Calls)
  <2>1. Geometries(model.parts[c.node], c.of) \in Seq(Calls)
    BY <1>2, PartsCalls
  <2> HIDE DEF Calls
  <2>2. QED
    BY <1>1, <1>2, <2>1, ConcatProperties
<1>6. Whole(model, batch)' /\ batch'.of = <<>>
  BY <1>1, EmptyWhole
<1>7. BatchOpen' /\ BatchTextured'
  BY <1>1, <1>4, <1>6 DEF BatchOpen, BatchTextured
<1>8. DrawablesTextured' /\ textureMap' \subseteq Files
  <2>1. CASE batch.vertices # <<>>
    <3>1. /\ Whole(model, Finished(batch, c.of, p)) /\ Finished(batch, c.of, p) \in Drawable
          /\ OneTexture(model, batch) => OneTexture(model, Finished(batch, c.of, p))
          /\ Loaded(p) \subseteq Files
      BY <1>2, <1>3, <1>4, FinishedFacts
    <3>2. OneTexture(model, batch)
      BY <1>2, <1>4, BatchOneTexture
    <3>3. QED
      BY <1>1, <1>2, <1>4, <2>1, <3>1, <3>2, DrawableAdded
  <2>2. CASE batch.vertices = <<>>
    BY <1>1, <1>2, <1>4, <2>2, DrawablesKept
  <2>3. QED
    BY <2>1, <2>2
<1>9. ArraysTextured'
  BY <1>1, <1>2, <1>4, ArraysKept
<1>10. QED
  BY <1>2, <1>5, <1>6, <1>7, <1>8, <1>9, SceneFrame


(* The batch is not used for a single object.                              *)
LEMMA SingleFacts ==
  ASSUME SceneInv, NextSinglePolygon
  PROVE  /\ NextCall("polygons") /\ Single /\ UNCHANGED <<batch, texName, drawables>>
         /\ UNCHANGED <<streams, model, options, reads, thrown, phase>> /\ phase = "building"
         /\ WellFormed(model) /\ Tail(calls) \in Seq(Calls)
         /\ ThisPolygon \in Pols
         /\ model.texture[ThisPolygon] \in Url \cup {NoTexture}
         /\ BatchOpen' /\ Whole(model, batch)' /\ BatchTextured' /\ DrawablesTextured'
<1>1. /\ NextCall("polygons") /\ Single
      /\ Head(calls).at \in DOMAIN model.polygons[Head(calls).node]
      /\ UNCHANGED <<batch, texName, drawables>>
  BY DEF NextSinglePolygon
<1>2. /\ UNCHANGED <<streams, model, options, reads, thrown, phase>> /\ phase = "building"
      /\ WellFormed(model) /\ Tail(calls) \in Seq(Calls) /\ Head(calls).node \in Geos
  BY <1>1, HeadFacts
<1>3. ThisPolygon \in Pols
  BY <1>1, <1>2, PolygonOf DEF ThisPolygon
<1>4. model.texture[ThisPolygon] \in Url \cup {NoTexture}
  BY <1>2, <1>3, PolygonFacts
<1>5. BatchOpen'
  BY <1>1 DEF SceneInv, BatchOpen
<1>6. Whole(model, batch)' /\ BatchTextured' /\ DrawablesTextured'
  BY <1>1, <1>2, BatchKept, DrawablesKept DEF SceneInv
<1>7. QED
  BY <1>1, <1>2, <1>3, <1>4, <1>5, <1>6

LEMMA SkipSinglePolygonScene ==
  ASSUME SceneInv, IInv', SkipSinglePolygon
  PROVE  SceneInv'
<1>1. NextSinglePolygon /\ Advance /\ UNCHANGED <<ma, textureMap>>
  BY DEF SkipSinglePolygon
<1>2. /\ NextCall("polygons")
      /\ UNCHANGED <<streams, model, options, reads, thrown, phase>> /\ phase = "building"
      /\ BatchOpen' /\ Whole(model, batch)' /\ BatchTextured' /\ DrawablesTextured'
  BY <1>1, SingleFacts
<1>3. calls' \in Seq(Calls)
  BY <1>1, <1>2, AdvanceFacts
<1>4. textureMap' \subseteq Files
  BY <1>1 DEF SceneInv, Counted
<1>5. ArraysTextured'
  BY <1>1, <1>2, ArraysKept DEF SceneInv
<1>6. QED
  BY <1>2, <1>3, <1>4, <1>5, SceneFrame

(* The array for a texture.                                                *)
LEMMA NewArrayFacts ==
  ASSUME SceneInv, NEW url \in Url
  PROVE  LET arrays == NewArray(url)
         IN /\ DOMAIN arrays = DOMAIN ma \cup {url}
            /\ IsFiniteSet(DOMAIN arrays) /\ DOMAIN arrays \subseteq Untextured \cup Url
            /\ \A key \in DOMAIN arrays :
                 Whole(model, arrays[key]) /\ TexturedBy(model, arrays[key], key)
<1> DEFINE t == IF Loads(url) THEN url ELSE NoTexture
           array == [EmptyDrawable EXCEPT !.texture = t]
<1>1. /\ IsFiniteSet(DOMAIN ma) /\ DOMAIN ma \subseteq Untextured \cup Url
      /\ \A key \in DOMAIN ma : Whole(model, ma[key]) /\ TexturedBy(model, ma[key], key)
      /\ textureMap \subseteq Files
  BY DEF SceneInv, ArraysTextured, Counted
<1>2. t \in Files \cup {NoTexture}
  BY <1>1 DEF Loads
<1>3. NewArray(url) = [key \in DOMAIN ma \cup {url} |-> IF key \in DOMAIN ma THEN ma[key] ELSE array]
  BY DEF NewArray
<1>4. /\ EmptyDrawable \in Drawable /\ Whole(model, EmptyDrawable)
      /\ EmptyDrawable.of = <<>>
  BY EmptyWhole DEF Whole
<1> HIDE DEF t
<1>5. /\ array \in Drawable /\ array.of = EmptyDrawable.of
      /\ array.indices = EmptyDrawable.indices /\ array.vertices = EmptyDrawable.vertices
  BY <1>2, <1>4 DEF Drawable
<1> HIDE DEF array
<1>6. Whole(model, array)
  BY <1>4, <1>5, SameTriangles
<1>7. \A key : TexturedBy(model, array, key)
  BY <1>4, <1>5 DEF TexturedBy
<1>8. IsFiniteSet(DOMAIN ma \cup {url})
  BY <1>1, FS_AddElement
<1>9. QED
  BY <1>1, <1>3, <1>6, <1>7, <1>8

LEMMA MissingTextureScene ==
  ASSUME SceneInv, IInv', MissingTexture
  PROVE  SceneInv'
<1>1. /\ NextSinglePolygon /\ calls' = Tail(calls) /\ UNCHANGED textureMap
      /\ model.texture[ThisPolygon] # NoTexture
      /\ ma' = NewArray(model.texture[ThisPolygon])
  BY DEF MissingTexture
<1>2. /\ UNCHANGED <<streams, model, options, reads, thrown, phase>> /\ phase = "building"
      /\ BatchOpen' /\ Whole(model, batch)' /\ BatchTextured' /\ DrawablesTextured'
      /\ Tail(calls) \in Seq(Calls)
      /\ model.texture[ThisPolygon] \in Url \cup {NoTexture}
  BY <1>1, SingleFacts
<1> DEFINE url == model.texture[ThisPolygon]
<1>3. url \in Url
  BY <1>1, <1>2
<1> HIDE DEF url
<1>4. ArraysTextured'
  <2>1. ma' = NewArray(url)
    BY <1>1 DEF url
  <2>2. /\ IsFiniteSet(DOMAIN ma') /\ DOMAIN ma' \subseteq Untextured \cup Url
        /\ \A key \in DOMAIN ma' : Whole(model, ma'[key]) /\ TexturedBy(model, ma'[key], key)
    BY <1>3, <2>1, NewArrayFacts
  <2>3. QED
    BY <1>2, <2>2 DEF ArraysTextured
<1>5. textureMap' \subseteq Files
  BY <1>1 DEF SceneInv, Counted
<1>6. QED
  BY <1>1, <1>2, <1>4, <1>5, SceneFrame

LEMMA AddSinglePolygonScene ==
  ASSUME SceneInv, IInv', AddSinglePolygon
  PROVE  SceneInv'
<1> DEFINE p == ThisPolygon
           k == Key(p)
           arrays == IF k \in DOMAIN ma THEN ma ELSE NewArray(k)
           w == WithPolygon(arrays[k], p)
           tc == IF model.texture[p] = NoTexture THEN arrays[k].texCoords ELSE w.texCoords
           e == [w EXCEPT !.texCoords = tc]
<1>1. /\ NextSinglePolygon /\ Advance /\ HasKey(p)
      /\ k \in DOMAIN ma \/ (model.texture[p] # NoTexture /\ Loads(model.texture[p]))
      /\ textureMap' = IF k \in DOMAIN ma THEN textureMap ELSE Loaded(p)
  BY DEF AddSinglePolygon
<1>2. ma' = [arrays EXCEPT ![k] = e]
  BY DEF AddSinglePolygon, WithSinglePolygon
<1>3. /\ UNCHANGED <<streams, model, options, reads, thrown, phase>> /\ phase = "building"
      /\ BatchOpen' /\ Whole(model, batch)' /\ BatchTextured' /\ DrawablesTextured'
      /\ NextCall("polygons") /\ WellFormed(model)
      /\ p \in Pols /\ model.texture[p] \in Url \cup {NoTexture}
  BY <1>1, SingleFacts
<1>4. calls' \in Seq(Calls)
  BY <1>1, <1>3, AdvanceFacts
<1>5. ArraysTextured /\ textureMap \subseteq Files
  BY DEF SceneInv, Counted
<1>6. textureMap' \subseteq Files
  BY <1>1, <1>5 DEF Loaded, Loads
<1> HIDE DEF p
<1>7. k \notin DOMAIN ma => k \in Url
  BY <1>1, <1>3 DEF Key
<1>8. model.texture[p] = IF k \in Untextured THEN NoTexture ELSE k
  BY <1>1, <1>3, UrlAssumption DEF Key, HasKey
<1> HIDE DEF k
<1>9. /\ IsFiniteSet(DOMAIN arrays) /\ DOMAIN arrays \subseteq Untextured \cup Url
      /\ k \in DOMAIN arrays
      /\ \A key \in DOMAIN arrays :
           Whole(model, arrays[key]) /\ TexturedBy(model, arrays[key], key)
  <2>1. CASE k \in DOMAIN ma
    BY <1>5, <2>1 DEF ArraysTextured
  <2>2. CASE k \notin DOMAIN ma
    BY <1>7, <2>2, NewArrayFacts
  <2>3. QED
    BY <2>1, <2>2
<1> HIDE DEF arrays
<1>10. /\ Whole(model, w) /\ w.of = Append(arrays[k].of, p)
       /\ w \in Drawable /\ arrays[k] \in Drawable
  <2>1. Whole(model, arrays[k])
    BY <1>9
  <2>2. Whole(model, w) /\ w.of = Append(arrays[k].of, p)
    BY <1>3, <2>1, WholeWithPolygon
  <2>3. QED
    BY <2>1, <2>2 DEF Whole
<1> HIDE DEF w
<1>11. tc \in Seq(Nat \X Nat)
  BY <1>10 DEF Drawable
<1> HIDE DEF tc
<1>12. e \in Drawable /\ e.of = w.of /\ e.indices = w.indices /\ e.vertices = w.vertices
  BY <1>10, <1>11 DEF Drawable
<1> HIDE DEF e
<1>13. Whole(model, e)
  BY <1>10, <1>12, SameTriangles
<1>14. TexturedBy(model, e, k)
  <2> DEFINE s == arrays[k].of
  <2>1. s \in Seq(Nat) /\ p \in Nat
    BY <1>3, <1>10, PolygonFacts DEF Drawable
  <2>2. TexturedBy(model, arrays[k], k)
    BY <1>9
  <2>3. e.of = Append(s, p)
    BY <1>10, <1>12
  <2>4. \A i \in DOMAIN e.of : e.of[i] = p \/ (i \in DOMAIN s /\ e.of[i] = s[i])
    <3> HIDE DEF s
    <3>1. QED
      BY <2>1, <2>3, AppendElements
  <2>5. QED
    BY <1>8, <2>2, <2>4 DEF TexturedBy
<1>15. ArraysTextured'
  <2>1. /\ DOMAIN ma' = DOMAIN arrays
        /\ \A key \in DOMAIN arrays : ma'[key] = IF key = k THEN e ELSE arrays[key]
    BY <1>2
  <2>2. \A key \in DOMAIN ma' : Whole(model, ma'[key]) /\ TexturedBy(model, ma'[key], key)
    BY <1>9, <1>13, <1>14, <2>1
  <2>3. QED
    BY <1>3, <1>9, <2>1, <2>2 DEF ArraysTextured
<1>16. QED
  BY <1>3, <1>4, <1>6, <1>15, SceneFrame

(* The end of a call.                                                      *)
LEMMA ReturnScene ==
  ASSUME SceneInv, IInv', Return, calls = <<>>,
         UNCHANGED <<model, options, textureMap, calls, batch, texName, reads, thrown>>,
         ArraysTextured', DrawablesTextured'
  PROVE  SceneInv'
<1>1. phase' = "idle" /\ cout' = coutsb /\ coutsb' = coutsb
  BY DEF Return
<1>2. batch = EmptyDrawable
  BY DEF SceneInv, BatchOpen
<1>3. Counted'
  BY <1>1 DEF SceneInv, Counted
<1>4. Whole(model, batch)' /\ BatchTextured'
  BY BatchKept DEF SceneInv
<1>5. PendingOf' /\ BatchOpen'
  BY <1>1, <1>2 DEF PendingOf, BatchOpen
<1>6. QED
  BY <1>3, <1>4, <1>5 DEF SceneInv

LEMMA NoArrays ==
  ASSUME ma' = <<>>
  PROVE  ArraysTextured'
<1>1. DOMAIN ma' = {}
  OBVIOUS
<1>2. QED
  BY <1>1, FS_EmptySet DEF ArraysTextured

LEMMA GatherScene ==
  ASSUME SceneInv, IInv', Gather
  PROVE  SceneInv'
<1> DEFINE S == {key \in DOMAIN ma : ma[key].vertices # <<>>}
           keys == SetToSeq(S)
<1>1. /\ calls = <<>> /\ drawables' = [i \in DOMAIN keys |-> Arrayed(keys[i])] /\ ma' = <<>>
      /\ Return
      /\ UNCHANGED <<model, options, textureMap, calls, batch, texName, reads, thrown>>
  BY DEF Gather
<1>2. ArraysTextured
  BY DEF SceneInv
<1>3. S \subseteq DOMAIN ma /\ IsFiniteSet(S)
  BY <1>2, FS_Subset DEF ArraysTextured
<1> HIDE DEF S
<1>4. keys \in Seq(S)
  BY <1>3, SetToSeqType
<1> HIDE DEF keys
<1>5. Len(keys) \in Nat /\ DOMAIN keys = 1..Len(keys) /\ \A i \in 1..Len(keys) : keys[i] \in DOMAIN ma
  BY <1>3, <1>4, LenProperties, ElementOfSeq
<1>6. ASSUME NEW key \in DOMAIN ma
      PROVE  /\ Arrayed(key) \in Drawable /\ Whole(model, Arrayed(key))
             /\ OneTexture(model, Arrayed(key))
  <2> DEFINE d == ma[key]
             t == IF d.texCoords = <<>> THEN NoTexture ELSE d.texture
             e == [d EXCEPT !.texture = t]
  <2>1. Whole(model, d) /\ TexturedBy(model, d, key)
    BY <1>2 DEF ArraysTextured
  <2>2. Arrayed(key) = e
    BY DEF Arrayed
  <2>3. d \in Drawable
    BY <2>1 DEF Whole
  <2> HIDE DEF d
  <2>4. t \in Files \cup {NoTexture}
    BY <2>3 DEF Drawable
  <2> HIDE DEF t
  <2>5. e \in Drawable /\ e.of = d.of /\ e.indices = d.indices /\ e.vertices = d.vertices
    BY <2>3, <2>4 DEF Drawable
  <2>6. OneTexture(model, d)
    BY <2>1 DEF TexturedBy, OneTexture
  <2> HIDE DEF e
  <2>7. QED
    BY <2>1, <2>2, <2>5, <2>6, SameTriangles
<1>7. drawables' \in Seq(Drawable)
  <2> DEFINE n == Len(keys)
  <2>1. drawables' = [i \in 1..n |-> Arrayed(keys[i])] /\ n \in Nat
    BY <1>1, <1>5
  <2>2. \A i \in 1..n : Arrayed(keys[i]) \in Drawable
    BY <1>5, <1>6
  <2> HIDE DEF n
  <2>3. drawables' \in [1..n -> Drawable]
    BY <2>1, <2>2
  <2>4. QED
    BY <2>1, <2>3
<1>8. DrawablesTextured'
  <2>1. \A i \in DOMAIN drawables' : Whole(model, drawables'[i]) /\ OneTexture(model, drawables'[i])
    BY <1>1, <1>5, <1>6
  <2>2. phase' = "idle" /\ model' = model
    BY <1>1 DEF Return
  <2>3. QED
    BY <1>7, <2>1, <2>2 DEF DrawablesTextured
<1>9. QED
  BY <1>1, <1>8, NoArrays, ReturnScene

LEMMA EndReadScene ==
  ASSUME SceneInv, IInv', EndRead
  PROVE  SceneInv'
<1>1. /\ calls = <<>> /\ Return /\ UNCHANGED <<ma, drawables>>
      /\ UNCHANGED <<model, options, textureMap, calls, batch, texName, reads, thrown>>
  BY DEF EndRead
<1>2. phase' = "idle"
  BY <1>1 DEF Return
<1>3. ArraysTextured' /\ DrawablesTextured'
  BY <1>1, <1>2, ArraysKept, DrawablesKept DEF SceneInv
<1>4. QED
  BY <1>1, <1>3, ReturnScene

LEMMA ReadNodeScene ==
  ASSUME SceneInv, IInv', NEW opts \in SUBSET Switches, NEW named \in BOOLEAN,
         readNode(opts, named)
  PROVE  SceneInv'
<1>1. /\ phase = "idle" /\ phase' = "loading" /\ reads < MaxReads /\ reads' = reads + 1
      /\ options' = opts /\ textureMap' = {} /\ coutsb' = cout /\ cout' = "notify"
      /\ drawables' = <<>>
      /\ UNCHANGED <<ma, model, calls, batch, texName>>
  BY DEF readNode
<1>2. Counted'
  BY <1>1, ReadsAssumption DEF SceneInv, Counted
<1>3. batch = EmptyDrawable
  BY <1>1 DEF SceneInv, BatchOpen
<1>4. PendingOf' /\ BatchOpen'
  BY <1>1, <1>3 DEF PendingOf, BatchOpen
<1>5. Whole(model, batch)' /\ BatchTextured' /\ ArraysTextured'
  BY <1>1, BatchKept, ArraysKept DEF SceneInv
<1>6. DrawablesTextured'
  BY <1>1 DEF DrawablesTextured
<1>7. QED
  BY <1>2, <1>4, <1>5, <1>6 DEF SceneInv

LEMMA LoadThrowsScene ==
  ASSUME SceneInv, IInv', LoadThrows
  PROVE  SceneInv'
<1>1. /\ phase = "loading" /\ phase' = "idle"
      /\ UNCHANGED <<streams, ma, model, options, textureMap, calls, batch, texName, drawables, reads>>
  BY DEF LoadThrows
<1>2. Counted'
  BY <1>1 DEF SceneInv, Counted, streams
<1>3. batch = EmptyDrawable
  BY <1>1 DEF SceneInv, BatchOpen
<1>4. PendingOf' /\ BatchOpen'
  BY <1>1, <1>3 DEF PendingOf, BatchOpen
<1>5. Whole(model, batch)' /\ BatchTextured' /\ ArraysTextured' /\ DrawablesTextured'
  BY <1>1, BatchKept, ArraysKept, DrawablesKept DEF SceneInv
<1>6. QED
  BY <1>2, <1>4, <1>5 DEF SceneInv

LEMMA ReadCityScene ==
  ASSUME SceneInv, IInv', NEW m \in CityModels, readCity(m)
  PROVE  SceneInv'
<1>1. /\ phase = "loading" /\ model' = m
      /\ UNCHANGED <<options, textureMap, batch, texName, drawables, reads, thrown>>
      /\ m.roots = <<>> => Return /\ UNCHANGED <<ma, calls>>
      /\ m.roots # <<>> => /\ phase' = "building" /\ calls' = Objects(m.roots, 0)
                           /\ ma' = (IF "singleObject" \in options THEN FirstArrays ELSE ma)
                           /\ UNCHANGED streams
  BY DEF readCity
<1>2. batch = EmptyDrawable /\ ma = <<>> /\ drawables = <<>> /\ phase' # "loading"
  BY <1>1 DEF SceneInv, BatchOpen, IInv, ArraysOfSingle, DrawablesTextured, Return
<1>3. Counted'
  BY <1>1 DEF SceneInv, Counted, streams, Return
<1>4. PendingOf'
  <2>1. CASE m.roots = <<>>
    BY <1>1, <2>1 DEF PendingOf, Return
  <2>2. CASE m.roots # <<>>
    <3>1. WellFormed(model')
      BY <1>1, <2>2, CityModelsAssumption
    <3>2. Objects(m.roots, 0) \in Seq(Calls')
      <4> DEFINE os == m.roots
      <4>1. os \in Seq(Objs') /\ Objs' \subseteq Nat
        <5>1. m.roots \in Seq(DOMAIN m.children) /\ m.children \in Seq(Seq(DOMAIN m.children))
          BY <1>1, <3>1 DEF WellFormed
        <5>2. DOMAIN m.children \subseteq Nat
          BY <5>1, LenProperties
        <5>3. Objs' = DOMAIN m.children
          BY <1>1 DEF Objs
        <5>4. QED
          BY <5>1, <5>2, <5>3
      <4> HIDE DEF os
      <4>2. Len(os) \in Nat /\ DOMAIN os = 1..Len(os) /\ \A i \in 1..Len(os) : os[i] \in Objs'
        BY <4>1, LenProperties, ElementOfSeq
      <4>3. \A i \in 1..Len(os) : Object(os[i], 0) \in Calls'
        BY <4>1, <4>2 DEF Object, Calls, At
      <4>4. Objects(os, 0) \in [1..Len(os) -> Calls']
        <5> DEFINE C == Calls'
        <5>1. \A i \in 1..Len(os) : Object(os[i], 0) \in C
          BY <4>3
        <5> HIDE DEF C
        <5>2. Objects(os, 0) \in [1..Len(os) -> C]
          BY <4>2, <5>1 DEF Objects
        <5>3. QED
          BY <5>2 DEF C
      <4>5. Objects(os, 0) \in Seq(Calls')
        <5> DEFINE C == Calls'
                   n == Len(os)
        <5>1. Objects(os, 0) \in [1..n -> C] /\ n \in Nat
          BY <4>2, <4>4
        <5> HIDE DEF C, n
        <5>2. Objects(os, 0) \in Seq(C)
          BY <5>1
        <5>3. QED
          BY <5>2 DEF C
      <4>6. QED
        BY <4>5 DEF os
    <3>3. QED
      BY <1>1, <2>2, <3>1, <3>2 DEF PendingOf
  <2>3. QED
    BY <2>1, <2>2
<1>5. BatchOpen'
  BY <1>1, <1>2 DEF BatchOpen
<1>6. Whole(model', batch') /\ batch'.of = <<>>
  BY <1>1, <1>2, EmptyWhole
<1>7. BatchTextured'
  BY <1>1, <1>6 DEF SceneInv, BatchTextured
<1>8. DrawablesTextured'
  BY <1>1, <1>2 DEF DrawablesTextured
<1>9. ArraysTextured'
  <2>1. CASE ma' = <<>>
    BY <2>1, NoArrays
  <2>2. CASE ma' = FirstArrays
    <3>1. DOMAIN ma = {}
      BY <1>2
    <3>2. ma' = [key \in Untextured |-> EmptyDrawable]
      BY <2>2, <3>1 DEF FirstArrays
    <3>3. \A key \in Untextured :
            Whole(model', EmptyDrawable) /\ TexturedBy(model', EmptyDrawable, key)
      BY EmptyWhole DEF TexturedBy
    <3>4. QED
      BY <3>2, <3>3, UntexturedAssumption DEF ArraysTextured
  <2>3. QED
    BY <1>1, <1>2, <2>1, <2>2
<1>10. QED
  BY <1>3, <1>4, <1>5, <1>6, <1>7, <1>8, <1>9 DEF SceneInv

LEMMA StepScene ==
  ASSUME SceneInv, [Next]_vars
  PROVE  SceneInv'
<1>0. IInv'
  BY StepIInv DEF SceneInv
<1>1. CASE \E opts \in SUBSET Switches, named \in BOOLEAN : readNode(opts, named)
  BY <1>0, <1>1, ReadNodeScene
<1>2. CASE LoadThrows
  BY <1>0, <1>2, LoadThrowsScene
<1>3. CASE \E m \in CityModels : readCity(m)
  BY <1>0, <1>3, ReadCityScene
<1>4. CASE CreateObject
  BY <1>0, <1>4, CreateObjectScene
<1>5. CASE CreateGeometry
  BY <1>0, <1>5, CreateGeometryScene
<1>6. CASE SkipPolygon
  BY <1>0, <1>6, SkipPolygonScene
<1>7. CASE AddPolygon
  BY <1>0, <1>7, AddPolygonScene
<1>8. CASE EndPolygons
  BY <1>0, <1>8, EndPolygonsScene
<1>9. CASE SkipSinglePolygon
  BY <1>0, <1>9, SkipSinglePolygonScene
<1>10. CASE MissingTexture
  BY <1>0, <1>10, MissingTextureScene
<1>11. CASE AddSinglePolygon
  BY <1>0, <1>11, AddSinglePolygonScene
<1>12. CASE Gather
  BY <1>0, <1>12, GatherScene
<1>13. CASE EndRead
  BY <1>0, <1>13, EndReadScene
<1>14. CASE UNCHANGED vars
  <2>1. UNCHANGED <<streams, ma, model, options, textureMap, calls, batch, texName, drawables, reads, phase>>
    BY <1>14 DEF vars
  <2>2. Counted' /\ BatchOpen'
    BY <2>1 DEF SceneInv, Counted, BatchOpen, streams, Single
  <2>3. Whole(model, batch)' /\ BatchTextured' /\ ArraysTextured'
    BY <2>1, BatchKept, ArraysKept DEF SceneInv
  <2>4. PendingOf'
    <3>1. Calls' = Calls
      BY <2>1 DEF Calls, At, Objs, Geos, HighestLod
    <3>2. QED
      BY <2>1, <3>1 DEF SceneInv, PendingOf
  <2>5. DrawablesTextured'
    BY <2>1 DEF SceneInv, DrawablesTextured
  <2>6. QED
    BY <1>0, <2>2, <2>3, <2>4, <2>5 DEF SceneInv
<1>15. QED
  BY <1>1, <1>2, <1>3, <1>4, <1>5, <1>6, <1>7, <1>8, <1>9, <1>10, <1>11, <1>12, <1>13, <1>14
     DEF Next

LEMMA SceneAlways == Spec => []SceneInv
<1>1. SceneInv /\ [Next]_vars => SceneInv'
  BY StepScene
<1>2. QED
  BY <1>1, InitScene, PTL DEF Spec

(* What the invariant says of every drawable there is.                     *)
LEMMA DrawablesWhole ==
  ASSUME SceneInv
  PROVE  \A d \in Drawables : Whole(model, d) /\ OneTexture(model, d)
<1>1. \A d \in Range(drawables) : Whole(model, d) /\ OneTexture(model, d)
  BY DEF SceneInv, DrawablesTextured, Range
<1>2. \A d \in Range(ma) : Whole(model, d) /\ OneTexture(model, d)
  BY DEF SceneInv, ArraysTextured, TexturedBy, OneTexture, Range
<1>3. Whole(model, batch) /\ OneTexture(model, batch)
  <2>1. CASE batch = EmptyDrawable
    BY <2>1, EmptyWhole
  <2>2. CASE batch # EmptyDrawable
    BY <2>2, BatchOneTexture DEF SceneInv, BatchOpen, PendingOf
  <2>3. QED
    BY <2>1, <2>2
<1>4. QED
  BY <1>1, <1>2, <1>3 DEF Drawables

(* Whatever documents are read and however they are drawn, every variable  *)
(* is in its set, and a drawable or a material array has an image that     *)
(* exists or none, and no index beyond its vertices: OpenGL reads only     *)
(* vertices that were put there.                                           *)
THEOREM TypeCorrect == Spec => []TypeOK
<1>1. SceneInv => TypeOK
  <2> SUFFICES ASSUME SceneInv PROVE TypeOK
    OBVIOUS
  <2>1. \A d \in Drawables : /\ d.texture \in Files \cup {NoTexture}
                             /\ Range(d.indices) \subseteq 0..Len(d.vertices) - 1
    BY DrawablesWhole DEF Whole, Drawable
  <2>2. QED
    BY <2>1 DEF SceneInv, IInv, StreamsKept, DirectoriesCounted, Counted, ArraysTextured,
                BatchTextured, TypeOK
<1>2. QED
  BY <1>1, SceneAlways, PTL

(* The triangles of a drawable are those of the polygons that were put in  *)
(* it, one polygon after the other, although each numbers its vertices     *)
(* from 0 (the startIndex of both createOsgGeometry functions), and only   *)
(* polygons with the same texture, or without one, share a drawable,       *)
(* whatever order the textures come in and whichever images are missing.   *)
THEOREM PolygonsKept == Spec => []DrawablesOfPolygons
<1>1. SceneInv => TrianglesOfPolygons
  <2> SUFFICES ASSUME SceneInv PROVE TrianglesOfPolygons
    OBVIOUS
  <2>1. \A d \in Drawables :
          Corners(d) = FlattenSeq([j \in DOMAIN d.of |-> PolygonCorners(model, d.of[j])])
    BY DrawablesWhole DEF Whole
  <2>2. QED
    BY <2>1 DEF TrianglesOfPolygons, CornersOf, PolygonCorners
<1>2. SceneInv => OneTextureEach
  BY DrawablesWhole DEF OneTextureEach, OneTexture
<1>3. SceneInv => DrawablesOfPolygons
  BY <1>1, <1>2 DEF DrawablesOfPolygons
<1>4. QED
  BY <1>3, SceneAlways, PTL

-----------------------------------------------------------------------------
(* Every polygon is drawn as often as it is listed.                         *)

(* What a selection from a sequence without repetitions keeps.             *)
Kept(s, T) == FlattenSeq([i \in DOMAIN s |-> IF s[i] \in T THEN <<s[i]>> ELSE <<>>])

LEMMA KeptOnce ==
  ASSUME NEW S, NEW T
  PROVE  \A s \in Seq(S) : IsInjective(s) =>
           Kept(s, T) \in Seq(S) /\ IsInjective(Kept(s, T)) /\ Range(Kept(s, T)) \subseteq Range(s)
<1> DEFINE f == [x \in S |-> IF x \in T THEN <<x>> ELSE <<>>]
           U == {s \in Seq(S) : IsInjective(s) =>
                   /\ Kept(s, T) \in Seq(S) /\ IsInjective(Kept(s, T))
                   /\ Range(Kept(s, T)) \subseteq Range(s)}
<1>1. \A s \in Seq(S) : Kept(s, T) = FlattenSeq([j \in DOMAIN s |-> f[s[j]]])
  <2>1. ASSUME NEW s \in Seq(S)
        PROVE  [j \in DOMAIN s |-> f[s[j]]] = [i \in DOMAIN s |-> IF s[i] \in T THEN <<s[i]>> ELSE <<>>]
    <3>1. \A j \in DOMAIN s : s[j] \in S
      BY LenProperties, ElementOfSeq
    <3>2. QED
      BY <3>1
  <2> HIDE DEF f
  <2>2. QED
    BY <2>1 DEF Kept
<1>2. f \in [S -> Seq(S)]
  OBVIOUS
<1>3. <<>> \in U
  <2>1. Kept(<<>>, T) = <<>>
    BY FlattenEmpty DEF Kept
  <2>2. <<>> \in Seq(S) /\ DOMAIN <<>> = {}
    OBVIOUS
  <2>3. IsInjective(<<>>) /\ Range(<<>>) = {}
    BY <2>2 DEF IsInjective, Range
  <2>4. QED
    BY <2>1, <2>2, <2>3
<1>4. ASSUME NEW s \in Seq(S), NEW e \in S, s \in U
      PROVE  Append(s, e) \in U
  <2> DEFINE t == Append(s, e)
             k == Kept(s, T)
  <2>1. /\ t \in Seq(S) /\ Len(s) \in Nat /\ DOMAIN s = 1..Len(s) /\ DOMAIN t = 1..(Len(s) + 1)
        /\ \A i \in 1..Len(s) : t[i] = s[i]
        /\ t[Len(s) + 1] = e
    BY AppendLast, LenProperties, AppendProperties
  <2>2. Kept(t, T) = k \o f[e] /\ k \in Seq(S)
    <3> DEFINE F == [j \in DOMAIN s |-> f[s[j]]]
    <3> HIDE DEF f
    <3>1. F \in Seq(Seq(S)) /\ [j \in DOMAIN t |-> f[t[j]]] = Append(F, f[e])
      <4> DEFINE Q == Seq(S)
      <4>1. f \in [S -> Q]
        BY <1>2
      <4> HIDE DEF Q
      <4>2. F \in Seq(Q) /\ [j \in DOMAIN t |-> f[t[j]]] = Append(F, f[e])
        BY <4>1, MapAppend
      <4>3. QED
        BY <4>2 DEF Q
    <3>2. f[e] \in Seq(S) /\ k = FlattenSeq(F) /\ Kept(t, T) = FlattenSeq([j \in DOMAIN t |-> f[t[j]]])
      BY <1>1, <1>2, <2>1
    <3> HIDE DEF F, t, k
    <3>3. QED
      BY <3>1, <3>2, FlattenAppend
  <2> HIDE DEF k
  <2>3. SUFFICES ASSUME IsInjective(t)
                 PROVE  Kept(t, T) \in Seq(S) /\ IsInjective(Kept(t, T)) /\ Range(Kept(t, T)) \subseteq Range(t)
    BY <2>1
  <2>4. IsInjective(s) /\ e \notin Range(s) /\ Range(s) \subseteq Range(t) /\ e \in Range(t)
    <3>1. \A i \in 1..Len(s) : i \in 1..(Len(s) + 1) /\ i # Len(s) + 1
      BY <2>1
    <3>2. Len(s) + 1 \in 1..(Len(s) + 1)
      BY <2>1
    <3> HIDE DEF t
    <3>3. QED
      BY <2>1, <2>3, <3>1, <3>2 DEF IsInjective, Range
  <2>5. IsInjective(k) /\ Range(k) \subseteq Range(s)
    BY <1>4, <2>4 DEF k
  <2>6. CASE e \notin T
    <3>1. Kept(t, T) = k
      BY <2>2, <2>6
    <3>2. QED
      BY <2>2, <2>4, <2>5, <3>1
  <2>7. CASE e \in T
    <3>1. f[e] = <<e>>
      BY <2>7
    <3> HIDE DEF f, t
    <3>2. /\ Kept(t, T) = k \o <<e>> /\ <<e>> \in Seq(S) /\ Len(<<e>>) = 1 /\ <<e>>[1] = e
      BY <2>2, <3>1
    <3> DEFINE w == <<e>>
               u == Kept(t, T)
    <3> HIDE DEF w, u
    <3>3. /\ u \in Seq(S) /\ DOMAIN u = 1..(Len(k) + 1) /\ Len(k) \in Nat
          /\ \A i \in 1..Len(k) : u[i] = k[i]
          /\ u[Len(k) + 1] = e
      <4>1. u = k \o w /\ w \in Seq(S) /\ Len(w) = 1 /\ w[1] = e /\ 1 \in 1..1
        BY <3>2 DEF u, w
      <4>2. /\ k \o w \in Seq(S) /\ Len(k) \in Nat /\ DOMAIN (k \o w) = 1..(Len(k) + Len(w))
            /\ \A i \in 1..Len(k) : (k \o w)[i] = k[i]
            /\ \A i \in 1..Len(w) : (k \o w)[Len(k) + i] = w[i]
        <5>1. k \in Seq(S) /\ w \in Seq(S)
          BY <2>2, <4>1
        <5>2. QED
          BY <5>1, ConcatFacts
      <4>3. QED
        BY <4>1, <4>2
    <3>4. \A i \in 1..(Len(k) + 1) : i \in 1..Len(k) \/ i = Len(k) + 1
      BY <3>3
    <3>5. DOMAIN k = 1..Len(k)
      BY <2>2, LenProperties
    <3>6. Range(u) \subseteq Range(s) \cup {e}
      BY <2>5, <3>3, <3>4, <3>5 DEF Range
    <3>7. IsInjective(u)
      <4>1. \A i \in 1..Len(k) : u[i] \in Range(s) /\ u[i] = k[i]
        BY <2>5, <3>3, <3>5 DEF Range
      <4>2. \A i \in 1..Len(k) : u[i] # e
        BY <2>4, <4>1
      <4>3. QED
        BY <2>5, <3>3, <3>4, <3>5, <4>1, <4>2 DEF IsInjective
    <3>8. QED
      BY <2>4, <3>3, <3>6, <3>7 DEF u
  <2>8. QED
    BY <2>6, <2>7
<1> HIDE DEF U
<1>5. \A s \in Seq(S) : s \in U
  BY <1>3, <1>4, SeqInduct
<1>6. QED
  BY <1>5 DEF U

(* Other elements in place of the first one.                               *)
LEMMA HeadReplaced ==
  ASSUME NEW C, NEW s \in Seq(C), s # <<>>, NEW f \in Seq(C)
  PROVE  LET t == f \o Tail(s)
         IN /\ t \in Seq(C)
            /\ Len(f) \in Nat /\ DOMAIN f = 1..Len(f) /\ DOMAIN s = 1..Len(s) /\ Len(s) \in Nat
            /\ 1 \in DOMAIN s /\ s[1] = Head(s)
            /\ DOMAIN t = 1..(Len(f) + Len(s) - 1)
            /\ \A i \in DOMAIN f : i \in DOMAIN t /\ t[i] = f[i]
            /\ \A i \in DOMAIN t \ DOMAIN f :
                 LET j == i - Len(f) + 1 IN j \in DOMAIN s /\ j # 1 /\ t[i] = s[j]
<1> DEFINE u == Tail(s)
           t == f \o u
<1>1. /\ Len(s) \in Nat /\ DOMAIN s = 1..Len(s) /\ Len(f) \in Nat /\ DOMAIN f = 1..Len(f)
      /\ Len(s) >= 1 /\ s[1] = Head(s)
  <2>1. Len(s) \in Nat /\ Len(s) # 0
    BY LenProperties, EmptySeq
  <2>2. QED
    BY <2>1, LenProperties
<1>2. u \in Seq(C) /\ Len(u) = Len(s) - 1 /\ \A i \in 1..Len(u) : u[i] = s[i + 1]
  BY HeadTailProperties
<1> HIDE DEF u
<1>3. /\ t \in Seq(C) /\ DOMAIN t = 1..(Len(f) + Len(u))
      /\ \A i \in 1..Len(f) : t[i] = f[i]
      /\ \A i \in 1..Len(u) : t[Len(f) + i] = u[i]
  BY <1>2, ConcatFacts
<1> HIDE DEF t
<1>4. Len(f) + Len(u) = Len(f) + Len(s) - 1
  BY <1>1, <1>2
<1>5. ASSUME NEW i \in DOMAIN t \ DOMAIN f
      PROVE  LET j == i - Len(f) + 1 IN j \in DOMAIN s /\ j # 1 /\ t[i] = s[j]
  <2>1. i \in 1..(Len(f) + Len(u)) /\ i \notin 1..Len(f)
    BY <1>1, <1>3
  <2>2. i - Len(f) \in 1..Len(u) /\ Len(f) + (i - Len(f)) = i
    BY <2>1, <1>1, <1>2
  <2>3. t[i] = u[i - Len(f)] /\ u[i - Len(f)] = s[(i - Len(f)) + 1]
    BY <2>2, <1>2, <1>3
  <2>4. (i - Len(f)) + 1 \in 1..Len(s) /\ (i - Len(f)) + 1 # 1
    BY <2>2, <1>1, <1>2
  <2>5. QED
    BY <2>3, <2>4, <1>1
<1>6. \A i \in 1..Len(f) : i \in 1..(Len(f) + Len(u))
  BY <1>1, <1>2
<1>7. t \in Seq(C) /\ DOMAIN t = 1..(Len(f) + Len(s) - 1)
  BY <1>3, <1>4
<1>8. \A i \in DOMAIN f : i \in DOMAIN t /\ t[i] = f[i]
  BY <1>1, <1>3, <1>6
<1>9. 1 \in DOMAIN s
  BY <1>1
<1>10. QED
  BY <1>1, <1>5, <1>7, <1>8, <1>9 DEF t, u

-----------------------------------------------------------------------------
(* Which polygons are drawn.                                               *)

(* Objects and geometries are the nodes of a forest.                       *)
NodeOf(c) == <<IF c.kind = "object" THEN "object" ELSE "geometry", c.node>>

(* A node is called at most once: what is under it only after it, and what *)
(* called what is under it is not called again.                            *)
CalledOnce(cs, opened, under) ==
  /\ \A i, j \in DOMAIN cs : NodeOf(cs[i]) = NodeOf(cs[j]) => i = j
  /\ \A i \in DOMAIN cs : NodeOf(cs[i]) \notin opened
  /\ \A k \in DOMAIN under : \A x \in under[k] :
       x \in opened \/ (\E i \in DOMAIN cs : NodeOf(cs[i]) = x) => k \in opened

Forest(under) == \A k, l \in DOMAIN under : under[k] \cap under[l] # {} => k = l

LEMMA HeadOpened ==
  ASSUME NEW C, NEW cs \in Seq(C), cs # <<>>, NEW f \in Seq(C), NEW opened, NEW under,
         CalledOnce(cs, opened, under), Forest(under), NodeOf(Head(cs)) \in DOMAIN under,
         \A i \in DOMAIN f : NodeOf(f[i]) \in under[NodeOf(Head(cs))],
         \A i, j \in DOMAIN f : NodeOf(f[i]) = NodeOf(f[j]) => i = j
  PROVE  CalledOnce(f \o Tail(cs), opened \cup {NodeOf(Head(cs))}, under)
<1> DEFINE t == f \o Tail(cs)
           k0 == NodeOf(Head(cs))
           A(i) == i - Len(f) + 1
<1>1. /\ Len(f) \in Nat /\ DOMAIN f = 1..Len(f) /\ DOMAIN cs = 1..Len(cs) /\ Len(cs) \in Nat
      /\ 1 \in DOMAIN cs /\ cs[1] = Head(cs)
      /\ DOMAIN t = 1..(Len(f) + Len(cs) - 1)
      /\ \A i \in DOMAIN f : i \in DOMAIN t /\ t[i] = f[i]
      /\ \A i \in DOMAIN t \ DOMAIN f : A(i) \in DOMAIN cs /\ A(i) # 1 /\ t[i] = cs[A(i)]
  BY HeadReplaced
<1>2. NodeOf(cs[1]) = k0 /\ k0 \notin opened
  BY <1>1 DEF CalledOnce
<1>3. k0 \in DOMAIN under /\ \A i \in DOMAIN f : NodeOf(f[i]) \in under[k0]
  OBVIOUS
<1> HIDE DEF t, k0
<1>4. \A i \in DOMAIN f : NodeOf(f[i]) \notin opened /\ \A j \in DOMAIN cs : NodeOf(cs[j]) # NodeOf(f[i])
  BY <1>2, <1>3 DEF CalledOnce
<1>5. \A i \in DOMAIN f : NodeOf(f[i]) # k0
  BY <1>1, <1>2, <1>4
<1>6. \A i \in DOMAIN t \ DOMAIN f : NodeOf(t[i]) \notin opened /\ NodeOf(t[i]) # k0
  BY <1>1, <1>2 DEF CalledOnce
<1>7. \A i \in DOMAIN t : NodeOf(t[i]) \notin opened \cup {k0}
  BY <1>1, <1>4, <1>5, <1>6
<1>8. ASSUME NEW i \in DOMAIN t, NEW j \in DOMAIN t, NodeOf(t[i]) = NodeOf(t[j])
      PROVE  i = j
  <2>1. CASE i \in DOMAIN f /\ j \in DOMAIN f
    BY <1>1, <1>8, <2>1
  <2>2. CASE i \notin DOMAIN f /\ j \notin DOMAIN f
    <3>1. A(i) = A(j)
      BY <1>1, <1>8, <2>2 DEF CalledOnce
    <3>2. i \in Int /\ j \in Int
      BY <1>1
    <3>3. QED
      BY <1>1, <3>1, <3>2
  <2>3. CASE ~(i \in DOMAIN f <=> j \in DOMAIN f)
    BY <1>1, <1>4, <1>8, <2>3
  <2>4. QED
    BY <2>1, <2>2, <2>3
<1>9. ASSUME NEW k \in DOMAIN under, NEW x \in under[k],
             x \in opened \cup {k0} \/ (\E i \in DOMAIN t : NodeOf(t[i]) = x)
      PROVE  k \in opened \cup {k0}
  <2>1. CASE x \in opened \/ x = k0 \/ (\E i \in DOMAIN t \ DOMAIN f : NodeOf(t[i]) = x)
    <3>1. x \in opened \/ (\E i \in DOMAIN cs : NodeOf(cs[i]) = x)
      BY <1>1, <1>2, <2>1
    <3>2. QED
      BY <3>1 DEF CalledOnce
  <2>2. CASE \E i \in DOMAIN f : NodeOf(t[i]) = x
    <3>1. x \in under[k0]
      BY <1>1, <1>3, <2>2
    <3>2. k = k0
      BY <1>3, <3>1 DEF Forest
    <3>3. QED
      BY <3>2
  <2>3. QED
    BY <1>9, <2>1, <2>2
<1>10. CalledOnce(t, opened \cup {k0}, under)
  BY <1>7, <1>8, <1>9 DEF CalledOnce
<1>11. QED
  BY <1>10 DEF t, k0

(* The first call goes on with the same node.                              *)
LEMMA HeadKept ==
  ASSUME NEW C, NEW cs \in Seq(C), cs # <<>>, NEW c \in C, NEW opened, NEW under,
         CalledOnce(cs, opened, under), NodeOf(c) = NodeOf(Head(cs))
  PROVE  CalledOnce(<<c>> \o Tail(cs), opened, under)
<1> DEFINE f == <<c>>
           t == f \o Tail(cs)
<1>0. f \in Seq(C) /\ Len(f) = 1 /\ f[1] = c
  OBVIOUS
<1> HIDE DEF f
<1>1. /\ DOMAIN f = 1..Len(f) /\ DOMAIN cs = 1..Len(cs) /\ Len(cs) \in Nat
      /\ 1 \in DOMAIN cs /\ cs[1] = Head(cs)
      /\ DOMAIN t = 1..(Len(f) + Len(cs) - 1)
      /\ \A i \in DOMAIN f : i \in DOMAIN t /\ t[i] = f[i]
      /\ \A i \in DOMAIN t \ DOMAIN f : LET j == i - Len(f) + 1 IN j \in DOMAIN cs /\ j # 1 /\ t[i] = cs[j]
  BY <1>0, HeadReplaced
<1> HIDE DEF t
<1>2. \A i \in DOMAIN t : i \in DOMAIN cs /\ NodeOf(t[i]) = NodeOf(cs[i])
  <2>1. ASSUME NEW i \in DOMAIN t
        PROVE  i \in DOMAIN cs /\ NodeOf(t[i]) = NodeOf(cs[i])
    <3>1. CASE i = 1
      <4>1. 1 \in DOMAIN f
        BY <1>0, <1>1
      <4>2. QED
        BY <1>0, <1>1, <3>1, <4>1
    <3>2. CASE i # 1
      <4>1. i \in DOMAIN t \ DOMAIN f /\ i \in Int
        BY <1>0, <1>1, <3>2
      <4>2. i - Len(f) + 1 = i
        BY <1>0, <4>1
      <4>3. QED
        BY <1>1, <4>1, <4>2
    <3>3. QED
      BY <3>1, <3>2
  <2>2. QED
    BY <2>1
<1>3. CalledOnce(t, opened, under)
  BY <1>2 DEF CalledOnce
<1>4. QED
  BY <1>3 DEF t, f

(* Lists of which nothing is in two, one after the other.                  *)
LEMMA ApartConcat ==
  ASSUME NEW Q, NEW a \in Seq(Q), NEW b \in Seq(Q), Apart(a \o b)
  PROVE  /\ Apart(a) /\ Apart(b)
         /\ \A i \in DOMAIN a, j \in DOMAIN b : \A k \in DOMAIN a[i], l \in DOMAIN b[j] :
              a[i][k] # b[j][l]
<1> DEFINE t == a \o b
           n == Len(a)
<1>1. /\ n \in Nat /\ Len(b) \in Nat /\ DOMAIN a = 1..n /\ DOMAIN b = 1..Len(b)
      /\ DOMAIN t = 1..(n + Len(b))
      /\ \A i \in 1..n : t[i] = a[i]
      /\ \A i \in 1..Len(b) : t[n + i] = b[i]
  BY ConcatFacts, LenProperties
<1>2. Apart(t)
  OBVIOUS
<1> HIDE DEF t, n
<1>3. \A i \in DOMAIN a : i \in DOMAIN t
  BY <1>1
<1>4. \A j \in DOMAIN b : n + j \in DOMAIN t
  BY <1>1
<1>5. Apart(a)
  BY <1>1, <1>2, <1>3 DEF Apart
<1>6. Apart(b)
  <2>1. \A i, j \in DOMAIN b : n + i = n + j => i = j
    BY <1>1
  <2>2. SUFFICES ASSUME NEW i \in DOMAIN b, NEW j \in DOMAIN b,
                        NEW k \in DOMAIN b[i], NEW l \in DOMAIN b[j], b[i][k] = b[j][l]
                 PROVE  i = j /\ k = l
    BY DEF Apart
  <2>3. t[n + i] = b[i] /\ t[n + j] = b[j] /\ n + i \in DOMAIN t /\ n + j \in DOMAIN t
    BY <1>1, <1>4
  <2>4. n + i = n + j /\ k = l
    BY <1>2, <2>2, <2>3 DEF Apart
  <2>5. QED
    BY <2>1, <2>4
<1>7. ASSUME NEW i \in DOMAIN a, NEW j \in DOMAIN b, NEW k \in DOMAIN a[i], NEW l \in DOMAIN b[j]
      PROVE  a[i][k] # b[j][l]
  <2>1. /\ i \in DOMAIN t /\ n + j \in DOMAIN t /\ t[i] = a[i] /\ t[n + j] = b[j]
        /\ i # n + j
    BY <1>1, <1>3, <1>4
  <2>2. QED
    BY <1>2, <2>1 DEF Apart
<1>8. QED
  BY <1>5, <1>6, <1>7

LEMMA ApartRanges ==
  ASSUME NEW lists, Apart(lists)
  PROVE  /\ \A i \in DOMAIN lists : IsInjective(lists[i])
         /\ \A i, j \in DOMAIN lists : \A x : x \in Range(lists[i]) /\ x \in Range(lists[j]) => i = j
  BY DEF Apart, IsInjective, Range

(* What is under a node: children and geometries under an object, parts    *)
(* under a geometry.                                                       *)
Under(k) ==
  IF k[1] = "object"
  THEN ({"object"} \X Range(model.children[k[2]])) \cup ({"geometry"} \X Range(model.geometries[k[2]]))
  ELSE {"geometry"} \X Range(model.parts[k[2]])

Nodes == ({"object"} \X Objs) \cup ({"geometry"} \X Geos)
Tree  == [k \in Nodes |-> Under(k)]

Owned(m) == Apart(<<m.roots>> \o m.children) /\ Apart(m.geometries \o m.parts)

LEMMA OwnedFacts ==
  ASSUME WellFormed(model), Owned(model)
  PROVE  /\ Forest(Tree)
         /\ IsInjective(model.roots)
         /\ \A o \in Objs : IsInjective(model.children[o]) /\ IsInjective(model.geometries[o])
         /\ \A g \in Geos : IsInjective(model.parts[g])
         /\ \A k \in Nodes : \A r \in Range(model.roots) : <<"object", r>> \notin Tree[k]
<1> DEFINE r == <<model.roots>>
           c == model.children
           g == model.geometries
           p == model.parts
           Q == Seq(Objs)
           G == Seq(Geos)
<1>1. r \in Seq(Q) /\ Len(r) = 1 /\ r[1] = model.roots /\ DOMAIN r = {1} /\ c \in Seq(Q) /\ Objs = DOMAIN c
  <2>1. model.roots \in Q /\ c \in Seq(Q)
    BY DEF WellFormed, Objs
  <2> HIDE DEF Q
  <2>2. QED
    BY <2>1 DEF Objs
<1>2. g \in Seq(G) /\ DOMAIN g = Objs /\ p \in Seq(G) /\ DOMAIN p = Geos
  <2>1. g \in [Objs -> G] /\ p \in [Geos -> G]
    BY DEF WellFormed, Objs, Geos
  <2>2. Objs = 1..Len(model.children) /\ Len(model.children) \in Nat
    BY <1>1, LenProperties
  <2>3. Geos = 1..Len(model.polygons) /\ Len(model.polygons) \in Nat
    <3> DEFINE P == Seq(DOMAIN model.triangles)
    <3>1. model.polygons \in Seq(P)
      BY DEF WellFormed
    <3> HIDE DEF P
    <3>2. QED
      BY <3>1, LenProperties DEF Geos
  <2> HIDE DEF G, g, p
  <2>4. QED
    BY <2>1, <2>2, <2>3
<1>3. Apart(r \o c) /\ Apart(g \o p)
  BY DEF Owned
<1> HIDE DEF r, c, g, p, Q, G
<1>4. /\ Apart(r) /\ Apart(c)
      /\ \A i \in DOMAIN r, j \in DOMAIN c : \A k \in DOMAIN r[i], l \in DOMAIN c[j] : r[i][k] # c[j][l]
  BY <1>1, <1>3, ApartConcat
<1>5. /\ Apart(g) /\ Apart(p)
      /\ \A i \in DOMAIN g, j \in DOMAIN p : \A k \in DOMAIN g[i], l \in DOMAIN p[j] : g[i][k] # p[j][l]
  BY <1>2, <1>3, ApartConcat
<1>6. /\ \A i \in Objs : IsInjective(c[i]) /\ IsInjective(g[i])
      /\ \A i, j \in Objs : \A x : x \in Range(c[i]) /\ x \in Range(c[j]) => i = j
      /\ \A i, j \in Objs : \A x : x \in Range(g[i]) /\ x \in Range(g[j]) => i = j
      /\ \A i \in Geos : IsInjective(p[i])
      /\ \A i, j \in Geos : \A x : x \in Range(p[i]) /\ x \in Range(p[j]) => i = j
      /\ \A i \in Objs, j \in Geos : \A x : ~(x \in Range(g[i]) /\ x \in Range(p[j]))
  <2>1. /\ \A i \in DOMAIN c : IsInjective(c[i])
        /\ \A i, j \in DOMAIN c : \A x : x \in Range(c[i]) /\ x \in Range(c[j]) => i = j
    BY <1>4, ApartRanges
  <2>2. /\ \A i \in DOMAIN g : IsInjective(g[i])
        /\ \A i, j \in DOMAIN g : \A x : x \in Range(g[i]) /\ x \in Range(g[j]) => i = j
    BY <1>5, ApartRanges
  <2>3. /\ \A i \in DOMAIN p : IsInjective(p[i])
        /\ \A i, j \in DOMAIN p : \A x : x \in Range(p[i]) /\ x \in Range(p[j]) => i = j
    BY <1>5, ApartRanges
  <2>4. \A i \in DOMAIN g, j \in DOMAIN p : \A x : ~(x \in Range(g[i]) /\ x \in Range(p[j]))
    BY <1>5 DEF Range
  <2>5. QED
    BY <1>1, <1>2, <2>1, <2>2, <2>3, <2>4
<1>7. IsInjective(model.roots)
  BY <1>1, <1>4, ApartRanges
<1>8. \A o \in Objs : \A x \in Range(model.roots) : x \notin Range(c[o])
  BY <1>1, <1>4 DEF Range
<1>9. /\ \A o \in Objs : Tree[<<"object", o>>] = ({"object"} \X Range(c[o])) \cup ({"geometry"} \X Range(g[o]))
      /\ \A h \in Geos : Tree[<<"geometry", h>>] = {"geometry"} \X Range(p[h])
      /\ \A k \in Nodes : (\E o \in Objs : k = <<"object", o>>) \/ (\E h \in Geos : k = <<"geometry", h>>)
      /\ DOMAIN Tree = Nodes
  BY DEF Tree, Nodes, Under, c, g, p
<1>10. Forest(Tree)
  <2>1. SUFFICES ASSUME NEW k \in Nodes, NEW l \in Nodes, NEW x, x \in Tree[k], x \in Tree[l]
                 PROVE  k = l
    BY <1>9 DEF Forest
  <2>2. CASE \E i, j \in Objs : k = <<"object", i>> /\ l = <<"object", j>>
    <3>1. PICK i \in Objs, j \in Objs : k = <<"object", i>> /\ l = <<"object", j>>
      BY <2>2
    <3>2. /\ x \in ({"object"} \X Range(c[i])) \cup ({"geometry"} \X Range(g[i]))
          /\ x \in ({"object"} \X Range(c[j])) \cup ({"geometry"} \X Range(g[j]))
      BY <1>9, <2>1, <3>1
    <3>3. \/ x[2] \in Range(c[i]) /\ x[2] \in Range(c[j])
          \/ x[2] \in Range(g[i]) /\ x[2] \in Range(g[j])
      BY <3>2
    <3>4. i = j
      BY <1>6, <3>3
    <3>5. QED
      BY <3>1, <3>4
  <2>3. CASE \E i, j \in Geos : k = <<"geometry", i>> /\ l = <<"geometry", j>>
    <3>1. PICK i \in Geos, j \in Geos : k = <<"geometry", i>> /\ l = <<"geometry", j>>
      BY <2>3
    <3>2. x \in {"geometry"} \X Range(p[i]) /\ x \in {"geometry"} \X Range(p[j])
      BY <1>9, <2>1, <3>1
    <3>3. i = j
      BY <1>6, <3>2
    <3>4. QED
      BY <3>1, <3>3
  <2>4. ASSUME NEW i \in Objs, NEW j \in Geos, x \in Tree[<<"object", i>>], x \in Tree[<<"geometry", j>>]
        PROVE  FALSE
    <3>1. /\ x \in ({"object"} \X Range(c[i])) \cup ({"geometry"} \X Range(g[i]))
          /\ x \in {"geometry"} \X Range(p[j])
      BY <1>9, <2>4
    <3>2. x[2] \in Range(g[i]) /\ x[2] \in Range(p[j])
      BY <3>1
    <3>3. QED
      BY <1>6, <3>2
  <2>5. QED
    BY <1>9, <2>1, <2>2, <2>3, <2>4
<1>11. ASSUME NEW k \in Nodes, NEW x \in Range(model.roots)
       PROVE  <<"object", x>> \notin Tree[k]
  <2>1. CASE \E o \in Objs : k = <<"object", o>>
    <3>1. PICK o \in Objs : k = <<"object", o>>
      BY <2>1
    <3>2. Tree[k] = ({"object"} \X Range(c[o])) \cup ({"geometry"} \X Range(g[o]))
      BY <1>9, <3>1
    <3>3. QED
      BY <1>8, <3>2
  <2>2. CASE \E h \in Geos : k = <<"geometry", h>>
    <3>1. PICK h \in Geos : Tree[k] = {"geometry"} \X Range(p[h])
      BY <1>9, <2>2
    <3>2. QED
      BY <3>1
  <2>3. QED
    BY <1>9, <2>1, <2>2
<1>12. QED
  BY <1>6, <1>7, <1>10, <1>11 DEF c, g, p

(* The places where drawables have a polygon, when there is one more.      *)
SlotsOf(ds, o, p) ==
  {at \in UNION {{i} \X DOMAIN ds[i].of : i \in DOMAIN ds} :
     ds[at[1]].object = o /\ ds[at[1]].of[at[2]] = p}

NewSlots(n, d, o, p) == {at \in {n} \X DOMAIN d.of : d.object = o /\ d.of[at[2]] = p}

LEMMA SlotsAppend ==
  ASSUME NEW S, NEW ds \in Seq(S), NEW d \in S, NEW o, NEW p
  PROVE  /\ SlotsOf(Append(ds, d), o, p) = SlotsOf(ds, o, p) \cup NewSlots(Len(ds) + 1, d, o, p)
         /\ \A at \in SlotsOf(ds, o, p) : at[1] # Len(ds) + 1
<1> DEFINE t == Append(ds, d)
           n == Len(ds) + 1
<1>1. /\ Len(ds) \in Nat /\ DOMAIN ds = 1..Len(ds) /\ DOMAIN t = 1..n
      /\ \A i \in 1..Len(ds) : t[i] = ds[i]
      /\ t[n] = d
  BY AppendLast, LenProperties
<1>2. DOMAIN t = DOMAIN ds \cup {n} /\ n \notin DOMAIN ds
  BY <1>1
<1> HIDE DEF t, n
<1>3. ASSUME NEW at
      PROVE  at \in SlotsOf(ds, o, p) <=>
               \E i \in DOMAIN ds : \E j \in DOMAIN ds[i].of :
                 at = <<i, j>> /\ ds[i].object = o /\ ds[i].of[j] = p
  BY DEF SlotsOf
<1>4. ASSUME NEW at
      PROVE  at \in SlotsOf(t, o, p) <=>
               \E i \in DOMAIN t : \E j \in DOMAIN t[i].of :
                 at = <<i, j>> /\ t[i].object = o /\ t[i].of[j] = p
  BY DEF SlotsOf
<1>5. ASSUME NEW at
      PROVE  at \in NewSlots(n, d, o, p) <=>
               \E j \in DOMAIN d.of : at = <<n, j>> /\ d.object = o /\ d.of[j] = p
  BY DEF NewSlots
<1>6. ASSUME NEW at
      PROVE  at \in SlotsOf(t, o, p) <=> at \in SlotsOf(ds, o, p) \/ at \in NewSlots(n, d, o, p)
  <2>1. (\E i \in DOMAIN t : \E j \in DOMAIN t[i].of :
           at = <<i, j>> /\ t[i].object = o /\ t[i].of[j] = p) <=>
          \/ \E i \in DOMAIN ds : \E j \in DOMAIN ds[i].of :
               at = <<i, j>> /\ ds[i].object = o /\ ds[i].of[j] = p
          \/ \E j \in DOMAIN d.of : at = <<n, j>> /\ d.object = o /\ d.of[j] = p
    BY <1>1, <1>2
  <2>2. QED
    BY <2>1, <1>3, <1>4, <1>5
<1>7. \A at \in SlotsOf(ds, o, p) : at[1] # n
  BY <1>2, <1>3
<1>8. QED
  BY <1>6, <1>7 DEF t, n

LEMMA NewSlotsSame ==
  ASSUME NEW n, NEW d, NEW e, d.object = e.object, d.of = e.of, NEW o, NEW p
  PROVE  NewSlots(n, d, o, p) = NewSlots(n, e, o, p)
  BY DEF NewSlots

LEMMA NewSlotsNone ==
  ASSUME NEW n, NEW d, d.of = <<>>, NEW o, NEW p
  PROVE  NewSlots(n, d, o, p) = {}
  BY DEF NewSlots

(* The next place in a drawable, and a drawable with one more polygon.     *)
NextPlace(n, d) == <<n, Len(d.of) + 1>>
OneMore(d, e, q) == d.object = e.object /\ d.of \in Seq(Nat) /\ q \in Nat /\ e.of = Append(d.of, q)

LEMMA NewSlotsMore ==
  ASSUME NEW n, NEW d, NEW e, NEW q, OneMore(d, e, q), NEW o, NEW p
  PROVE  /\ NewSlots(n, e, o, p) =
              IF d.object = o /\ q = p THEN NewSlots(n, d, o, p) \cup {NextPlace(n, d)}
              ELSE NewSlots(n, d, o, p)
         /\ NextPlace(n, d) \notin NewSlots(n, d, o, p)
<1> DEFINE l == Len(d.of) + 1
           s == d.of
           t == e.of
<1>1. l = Len(s) + 1
  OBVIOUS
<1>2. d.object = e.object /\ q \in Nat /\ NextPlace(n, d) = <<n, l>>
  BY DEF OneMore, NextPlace
<1>3. /\ Len(s) \in Nat /\ DOMAIN s = 1..Len(s) /\ DOMAIN t = 1..l
      /\ \A i \in 1..Len(s) : t[i] = s[i]
      /\ t[l] = q
  <2>1. s \in Seq(Nat) /\ t = Append(s, q)
    BY DEF OneMore
  <2> HIDE DEF s, t, l
  <2>2. QED
    BY <1>1, <1>2, <2>1, AppendLast, LenProperties
<1> HIDE DEF s, t, l
<1>4. DOMAIN t = DOMAIN s \cup {l} /\ l \notin DOMAIN s
  BY <1>1, <1>3
<1>5. /\ NewSlots(n, d, o, p) = {at \in {n} \X DOMAIN s : d.object = o /\ s[at[2]] = p}
      /\ NewSlots(n, e, o, p) = {at \in {n} \X DOMAIN t : d.object = o /\ t[at[2]] = p}
  BY <1>2 DEF NewSlots, s, t
<1>6. <<n, l>> \notin NewSlots(n, d, o, p)
  BY <1>4, <1>5
<1>7. ASSUME NEW at
      PROVE  at \in NewSlots(n, e, o, p) <=>
               at \in NewSlots(n, d, o, p) \/ (d.object = o /\ q = p /\ at = <<n, l>>)
  <2>1. at \in NewSlots(n, d, o, p) <=> \E j \in DOMAIN s : at = <<n, j>> /\ d.object = o /\ s[j] = p
    BY <1>5
  <2>2. at \in NewSlots(n, e, o, p) <=> \E j \in DOMAIN t : at = <<n, j>> /\ d.object = o /\ t[j] = p
    BY <1>5
  <2>3. QED
    BY <2>1, <2>2, <1>3, <1>4
<1>8. NewSlots(n, e, o, p) =
        IF d.object = o /\ q = p THEN NewSlots(n, d, o, p) \cup {<<n, l>>} ELSE NewSlots(n, d, o, p)
  BY <1>7
<1>9. QED
  BY <1>2, <1>6, <1>8

(* A geometry that was drawn has called its parts, or it is the first call *)
(* and at its polygons; only the first call is.                            *)
AtPolygons == phase = "building" /\ calls # <<>> /\ Head(calls).kind = "polygons"

DrawnOnce(opened) ==
  /\ \A v \in visited : \/ <<"geometry", v[2]>> \in opened
                        \/ AtPolygons /\ Head(calls).node = v[2]
  /\ \A i \in DOMAIN calls : calls[i].kind = "polygons" => i = 1
  /\ AtPolygons => \A o \in Objs : <<o, Head(calls).node>> \in visited <=> o = Head(calls).of

Ordered ==
  phase = "building" /\ ~Single =>
    \E opened \in SUBSET Nodes : CalledOnce(calls, opened, Tree) /\ DrawnOnce(opened)

(* The drawables, and the one that is being filled.                        *)
Filled ==
  IF AtPolygons THEN Append(drawables, [batch EXCEPT !.object = Head(calls).of]) ELSE drawables

(* The places of a polygon that drawing has passed.                        *)
Passed(o, p) ==
  {at \in Places : /\ HasTriangles(p)
                   /\ <<o, at[1]>> \in visited /\ model.polygons[at[1]][at[2]] = p
                   /\ ~(AtPolygons /\ at[1] = Head(calls).node /\ at[2] >= Head(calls).at)}

SameSize(S, T) == IsFiniteSet(S) /\ IsFiniteSet(T) /\ Cardinality(S) = Cardinality(T)

(* So far every polygon is in the drawables as often as drawing passed it. *)
Balanced ==
  ~Single => \A o \in Objs, p \in Pols : SameSize(SlotsOf(Filled, o, p), Passed(o, p))

DrawInv ==
  /\ SceneInv
  /\ phase = "building" => Owned(model)
  /\ phase = "loading" => visited = {}
  /\ batch.vertices = <<>> => batch.of = <<>>
  /\ Ordered
  /\ Balanced

LEMMA TreeKept ==
  ASSUME UNCHANGED model
  PROVE  Tree' = Tree /\ Nodes' = Nodes /\ Objs' = Objs /\ Pols' = Pols /\ Geos' = Geos /\ Places' = Places
  BY DEF Tree, Nodes, Under, Objs, Geos, Pols, Places

(* The first call of a group that is being drawn.                          *)
LEMMA FirstCall ==
  ASSUME DrawInv, NEW kind, NextCall(kind), ~Single
  PROVE  /\ WellFormed(model) /\ Owned(model) /\ ~Single'
         /\ calls \in Seq(Calls) /\ calls # <<>> /\ Head(calls) \in Calls
         /\ Head(calls).kind = kind
         /\ phase = "building" /\ phase' = "building" /\ UNCHANGED model
         /\ 1 \in DOMAIN calls /\ calls[1] = Head(calls)
         /\ AtPolygons <=> kind = "polygons"
         /\ \E opened \in SUBSET Nodes : CalledOnce(calls, opened, Tree) /\ DrawnOnce(opened)
<1>1. SceneInv /\ Ordered /\ phase = "building" /\ Owned(model)
  BY DEF DrawInv, NextCall
<1>2. /\ WellFormed(model) /\ calls \in Seq(Calls) /\ calls # <<>> /\ Head(calls) \in Calls
      /\ Head(calls).kind = kind
      /\ UNCHANGED <<streams, model, options, reads, thrown, phase>>
  BY <1>1, HeadFacts
<1>3. 1 \in DOMAIN calls /\ calls[1] = Head(calls)
  <2> HIDE DEF Calls
  <2>1. Len(calls) \in Nat /\ Len(calls) # 0 /\ DOMAIN calls = 1..Len(calls)
    BY <1>2, LenProperties, EmptySeq
  <2>2. QED
    BY <2>1
<1>4. QED
  BY <1>1, <1>2, <1>3 DEF Ordered, AtPolygons, Single

(* The calls that come in place of the first one are of parts of its node. *)
LEMMA OpensNode ==
  ASSUME DrawInv, NEW kind, NextCall(kind), ~Single,
         NEW f \in Seq(Calls), calls' = f \o Tail(calls),
         NodeOf(Head(calls)) \in Nodes,
         \A i \in DOMAIN f : f[i].kind # "polygons" /\ NodeOf(f[i]) \in Under(NodeOf(Head(calls))),
         \A i, j \in DOMAIN f : NodeOf(f[i]) = NodeOf(f[j]) => i = j,
         \A v \in visited' : v \in visited \/ <<"geometry", v[2]>> = NodeOf(Head(calls))
  PROVE  Ordered' /\ ~AtPolygons'
<1>1. PICK opened \in SUBSET Nodes : CalledOnce(calls, opened, Tree) /\ DrawnOnce(opened)
  BY FirstCall
<1>2. /\ WellFormed(model) /\ Owned(model) /\ UNCHANGED model /\ phase = "building"
      /\ calls \in Seq(Calls) /\ calls # <<>>
  BY FirstCall
<1> DEFINE k0 == NodeOf(Head(calls))
           C == Calls
<1>3. Tree[k0] = Under(k0) /\ k0 \in DOMAIN Tree
  BY DEF Tree
<1>4. Forest(Tree)
  BY <1>2, OwnedFacts
<1>5. CalledOnce(calls', opened \cup {k0}, Tree)
  <2>1. f \in Seq(C) /\ calls \in Seq(C) /\ calls # <<>>
    BY <1>2
  <2>2. \A i \in DOMAIN f : NodeOf(f[i]) \in Tree[k0]
    BY <1>3
  <2> HIDE DEF C
  <2>3. CalledOnce(f \o Tail(calls), opened \cup {k0}, Tree)
    BY <1>1, <1>3, <1>4, <2>1, <2>2, HeadOpened
  <2>4. QED
    BY <2>3
<1>6. \A i \in DOMAIN calls' : calls'[i].kind # "polygons"
  <2>1. f \in Seq(C) /\ calls \in Seq(C) /\ calls # <<>>
    BY <1>2
  <2> HIDE DEF C
  <2>2. /\ \A i \in DOMAIN f : i \in DOMAIN calls' /\ calls'[i] = f[i]
        /\ \A i \in DOMAIN calls' \ DOMAIN f :
             LET j == i - Len(f) + 1 IN j \in DOMAIN calls /\ j # 1 /\ calls'[i] = calls[j]
    BY <2>1, HeadReplaced
  <2>3. \A j \in DOMAIN calls : calls[j].kind = "polygons" => j = 1
    BY <1>1 DEF DrawnOnce
  <2>4. QED
    BY <2>2, <2>3
<1>7. ~AtPolygons'
  <2>1. calls' \in Seq(C)
    <3>1. f \in Seq(C) /\ calls \in Seq(C) /\ calls # <<>>
      BY <1>2
    <3> HIDE DEF C
    <3>2. QED
      BY <3>1, HeadReplaced
  <2> HIDE DEF C
  <2>2. calls' # <<>> => 1 \in DOMAIN calls' /\ calls'[1] = Head(calls')
    <3>1. calls' # <<>> => Len(calls') # 0
      BY <2>1, EmptySeq
    <3>2. QED
      BY <2>1, <3>1, LenProperties
  <2>3. QED
    BY <1>6, <2>2 DEF AtPolygons
<1>8. PICK after \in SUBSET Nodes : after = opened \cup {k0}
  <2> HIDE DEF k0
  <2>1. opened \cup {k0} \in SUBSET Nodes
    BY DEF k0
  <2>2. QED
    BY <2>1
<1>9. DrawnOnce(after)'
  <2>1. ASSUME NEW v \in visited'
        PROVE  <<"geometry", v[2]>> \in after
    <3>1. CASE <<"geometry", v[2]>> = k0
      BY <1>8, <3>1
    <3>2. CASE v \in visited
      <4>1. <<"geometry", v[2]>> \in opened \/ (AtPolygons /\ Head(calls).node = v[2])
        BY <1>1, <3>2 DEF DrawnOnce
      <4>2. AtPolygons => k0 = <<"geometry", Head(calls).node>>
        BY DEF AtPolygons, NodeOf
      <4>3. QED
        BY <1>8, <4>1, <4>2
    <3>3. QED
      BY <3>1, <3>2
  <2>2. QED
    BY <1>6, <1>7, <2>1 DEF DrawnOnce
<1>10. Tree' = Tree /\ Nodes' = Nodes
  BY <1>2, TreeKept
<1>11. CalledOnce(calls', after, Tree')
  BY <1>5, <1>8, <1>10
<1>12. Ordered'
  BY <1>9, <1>10, <1>11 DEF Ordered
<1>13. QED
  BY <1>7, <1>12

(* The first call stays at the same geometry, or comes to its polygons.    *)
LEMMA KeepsNode ==
  ASSUME DrawInv, NEW kind, NextCall(kind), ~Single,
         NEW c \in Calls, calls' = <<c>> \o Tail(calls), c.kind = "polygons",
         NodeOf(c) = NodeOf(Head(calls)), c.of = Head(calls).of,
         NodeOf(c) = <<"geometry", c.node>>,
         \/ kind = "geometry" /\ visited' = visited \cup {<<c.of, c.node>>}
         \/ kind = "polygons" /\ visited' = visited
  PROVE  /\ Ordered' /\ AtPolygons' /\ Head(calls') = c
         /\ \A o \in Objs : <<o, c.node>> \in visited' <=> o = c.of
         /\ kind = "geometry" => \A o \in Objs : <<o, c.node>> \notin visited
<1>1. PICK opened \in SUBSET Nodes : CalledOnce(calls, opened, Tree) /\ DrawnOnce(opened)
  BY FirstCall
<1>2. /\ phase' = "building" /\ UNCHANGED model /\ calls \in Seq(Calls) /\ calls # <<>>
      /\ Head(calls).kind = kind /\ (AtPolygons <=> kind = "polygons")
      /\ 1 \in DOMAIN calls /\ calls[1] = Head(calls)
  BY FirstCall
<1> DEFINE C == Calls
           f == <<c>>
<1>3. c \in C /\ calls \in Seq(C) /\ f \in Seq(C) /\ Len(f) = 1 /\ f[1] = c /\ DOMAIN f = {1}
  BY <1>2
<1> HIDE DEF C
<1>4. CalledOnce(calls', opened, Tree)
  BY <1>1, <1>2, <1>3, HeadKept
<1> HIDE DEF f
<1>5. /\ calls' \in Seq(C)
      /\ \A i \in DOMAIN f : i \in DOMAIN calls' /\ calls'[i] = f[i]
      /\ \A i \in DOMAIN calls' \ DOMAIN f :
           LET j == i - Len(f) + 1 IN j \in DOMAIN calls /\ j # 1 /\ calls'[i] = calls[j]
  BY <1>2, <1>3, HeadReplaced DEF f
<1>6. 1 \in DOMAIN calls' /\ calls'[1] = c
  BY <1>3, <1>5
<1>7. calls' # <<>> /\ Head(calls') = c
  <2>1. calls' # <<>>
    BY <1>6
  <2>2. QED
    BY <1>5, <1>6, <2>1
<1>8. AtPolygons'
  BY <1>2, <1>7 DEF AtPolygons
<1>9. \A i \in DOMAIN calls' : calls'[i].kind = "polygons" => i = 1
  <2>1. \A j \in DOMAIN calls : calls[j].kind = "polygons" => j = 1
    BY <1>1 DEF DrawnOnce
  <2>2. QED
    BY <1>3, <1>5, <2>1
<1>10. <<"geometry", c.node>> \notin opened
  BY <1>1, <1>2 DEF CalledOnce
<1>11. kind = "geometry" => \A o : <<o, c.node>> \notin visited
  BY <1>1, <1>2, <1>10 DEF DrawnOnce
<1>12. \A o \in Objs : <<o, c.node>> \in visited' <=> o = c.of
  <2>1. CASE kind = "geometry"
    BY <1>11, <2>1
  <2>2. CASE kind = "polygons"
    <3>1. Head(calls).node = c.node
      BY <1>2, <2>2 DEF NodeOf
    <3>2. \A o \in Objs : <<o, c.node>> \in visited <=> o = c.of
      BY <1>1, <1>2, <2>2, <3>1 DEF DrawnOnce
    <3>3. QED
      BY <3>2
  <2>3. QED
    BY <2>1, <2>2
<1>13. DrawnOnce(opened)'
  <2>1. ASSUME NEW v \in visited'
        PROVE  <<"geometry", v[2]>> \in opened \/ c.node = v[2]
    <3>1. CASE v \in visited
      <4>1. <<"geometry", v[2]>> \in opened \/ (AtPolygons /\ Head(calls).node = v[2])
        BY <1>1, <3>1 DEF DrawnOnce
      <4>2. AtPolygons => Head(calls).node = c.node
        BY DEF AtPolygons, NodeOf
      <4>3. QED
        BY <4>1, <4>2
    <3>2. CASE v \notin visited
      BY <3>2
    <3>3. QED
      BY <3>1, <3>2
  <2>2. Objs' = Objs
    BY <1>2, TreeKept
  <2>3. QED
    BY <1>7, <1>8, <1>9, <1>12, <2>1, <2>2 DEF DrawnOnce
<1>14. Tree' = Tree /\ Nodes' = Nodes
  BY <1>2, TreeKept
<1>15. Ordered'
  <2>1. \E x \in SUBSET Nodes' : CalledOnce(calls', x, Tree') /\ DrawnOnce(x)'
    BY <1>4, <1>13, <1>14
  <2>2. QED
    BY <2>1 DEF Ordered
<1>16. QED
  BY <1>7, <1>8, <1>11, <1>12, <1>15

(* Geometries and objects that are called.                                 *)
LEMMA GeometriesNodes ==
  ASSUME WellFormed(model), NEW gs \in Seq(Geos), IsInjective(gs), NEW n \in Nat
  PROVE  LET f == Geometries(gs, n)
         IN /\ f \in Seq(Calls)
            /\ DOMAIN f = DOMAIN gs
            /\ \A i \in DOMAIN f : f[i].kind = "geometry" /\ NodeOf(f[i]) = <<"geometry", gs[i]>>
            /\ \A i, j \in DOMAIN f : NodeOf(f[i]) = NodeOf(f[j]) => i = j
<1> DEFINE f == Geometries(gs, n)
<1>1. Len(gs) \in Nat /\ DOMAIN gs = 1..Len(gs) /\ \A i \in 1..Len(gs) : gs[i] \in Geos
  BY LenProperties, ElementOfSeq
<1>2. \A i \in 1..Len(gs) : Geometry(gs[i], n) \in Calls
  BY <1>1 DEF Geometry, Calls, At
<1>3. f \in Seq(Calls)
  <2> HIDE DEF Calls
  <2>1. Geometries(gs, n) \in [1..Len(gs) -> Calls]
    BY <1>1, <1>2 DEF Geometries
  <2>2. QED
    BY <1>1, <2>1
<1>4. DOMAIN f = DOMAIN gs /\ \A i \in DOMAIN f : f[i] = Geometry(gs[i], n)
  BY DEF Geometries
<1> HIDE DEF f
<1>5. \A i \in DOMAIN f : f[i].kind = "geometry" /\ NodeOf(f[i]) = <<"geometry", gs[i]>>
  BY <1>4 DEF Geometry, NodeOf
<1>6. \A i, j \in DOMAIN f : NodeOf(f[i]) = NodeOf(f[j]) => i = j
  BY <1>4, <1>5 DEF IsInjective
<1>7. QED
  BY <1>3, <1>4, <1>5, <1>6 DEF f

LEMMA ObjectsNodes ==
  ASSUME WellFormed(model), NEW os \in Seq(Objs), IsInjective(os), NEW l \in At
  PROVE  LET f == Objects(os, l)
         IN /\ f \in Seq(Calls)
            /\ DOMAIN f = DOMAIN os
            /\ \A i \in DOMAIN f : f[i].kind = "object" /\ NodeOf(f[i]) = <<"object", os[i]>>
            /\ \A i, j \in DOMAIN f : NodeOf(f[i]) = NodeOf(f[j]) => i = j
<1> DEFINE f == Objects(os, l)
<1>1. Len(os) \in Nat /\ DOMAIN os = 1..Len(os) /\ \A i \in 1..Len(os) : os[i] \in Objs
  BY LenProperties, ElementOfSeq
<1>2. Objs \subseteq Nat
  BY LenProperties DEF WellFormed, Objs
<1>3. \A i \in 1..Len(os) : Object(os[i], l) \in Calls
  BY <1>1, <1>2 DEF Object, Calls
<1>4. f \in Seq(Calls)
  <2> HIDE DEF Calls
  <2>1. Objects(os, l) \in [1..Len(os) -> Calls]
    BY <1>1, <1>3 DEF Objects
  <2>2. QED
    BY <1>1, <2>1
<1>5. DOMAIN f = DOMAIN os /\ \A i \in DOMAIN f : f[i] = Object(os[i], l)
  BY DEF Objects
<1> HIDE DEF f
<1>6. \A i \in DOMAIN f : f[i].kind = "object" /\ NodeOf(f[i]) = <<"object", os[i]>>
  BY <1>5 DEF Object, NodeOf
<1>7. \A i, j \in DOMAIN f : NodeOf(f[i]) = NodeOf(f[j]) => i = j
  BY <1>5, <1>6 DEF IsInjective
<1>8. QED
  BY <1>4, <1>5, <1>6, <1>7 DEF f

(* The geometries that are selected are some of those of the object.       *)
LEMMA SelectedOnce ==
  ASSUME WellFormed(model), Owned(model), NEW o \in Objs, NEW l
  PROVE  /\ Selected(o, l) \in Seq(Geos) /\ IsInjective(Selected(o, l))
         /\ Range(Selected(o, l)) \subseteq Range(model.geometries[o])
<1> DEFINE gs == model.geometries[o]
           drawn(g) == "useMaxLODOnly" \in options =>
                         model.lod[g] >= HighestLod(o) /\ model.lod[g] >= l
           T == {g \in Geos : drawn(g)}
           G == Geos
<1>1. gs \in Seq(G)
  BY DEF WellFormed, Objs, Geos
<1>2. IsInjective(gs)
  BY OwnedFacts
<1>3. Selected(o, l) = FlattenSeq([i \in DOMAIN gs |-> IF drawn(gs[i]) THEN <<gs[i]>> ELSE <<>>])
  BY DEF Selected
<1> HIDE DEF gs, drawn
<1>4. \A i \in DOMAIN gs : gs[i] \in T <=> drawn(gs[i])
  BY <1>1, LenProperties, ElementOfSeq
<1> HIDE DEF T, G
<1>5. [i \in DOMAIN gs |-> IF drawn(gs[i]) THEN <<gs[i]>> ELSE <<>>] =
        [i \in DOMAIN gs |-> IF gs[i] \in T THEN <<gs[i]>> ELSE <<>>]
  BY <1>4
<1>6. Selected(o, l) = Kept(gs, T)
  BY <1>3, <1>5 DEF Kept
<1>7. Kept(gs, T) \in Seq(G) /\ IsInjective(Kept(gs, T)) /\ Range(Kept(gs, T)) \subseteq Range(gs)
  BY <1>1, <1>2, KeptOnce
<1>8. QED
  BY <1>6, <1>7 DEF gs, G

(* Calls of different nodes, and others of other nodes behind them.        *)
LEMMA NodesConcat ==
  ASSUME NEW C, NEW a \in Seq(C), NEW b \in Seq(C),
         \A i, j \in DOMAIN a : NodeOf(a[i]) = NodeOf(a[j]) => i = j,
         \A i, j \in DOMAIN b : NodeOf(b[i]) = NodeOf(b[j]) => i = j,
         \A i \in DOMAIN a, j \in DOMAIN b : NodeOf(a[i]) # NodeOf(b[j])
  PROVE  LET t == a \o b
         IN /\ t \in Seq(C)
            /\ \A i \in DOMAIN t : \/ \E j \in DOMAIN a : t[i] = a[j]
                                   \/ \E j \in DOMAIN b : t[i] = b[j]
            /\ \A i, j \in DOMAIN t : NodeOf(t[i]) = NodeOf(t[j]) => i = j
<1> DEFINE t == a \o b
           n == Len(a)
<1>1. /\ t \in Seq(C) /\ n \in Nat /\ Len(b) \in Nat /\ DOMAIN a = 1..n /\ DOMAIN b = 1..Len(b)
      /\ DOMAIN t = 1..(n + Len(b))
      /\ \A i \in 1..n : t[i] = a[i]
      /\ \A i \in 1..Len(b) : t[n + i] = b[i]
  BY ConcatFacts, LenProperties
<1> HIDE DEF t, n
<1>2. \A i \in DOMAIN t : i \in DOMAIN a \/ (i - n \in DOMAIN b /\ n + (i - n) = i)
  BY <1>1
<1>3. \A i \in DOMAIN t : \/ i \in DOMAIN a /\ t[i] = a[i]
                          \/ i - n \in DOMAIN b /\ t[i] = b[i - n]
  BY <1>1, <1>2
<1>4. ASSUME NEW i \in DOMAIN t, NEW j \in DOMAIN t, NodeOf(t[i]) = NodeOf(t[j])
      PROVE  i = j
  <2>1. CASE i - n \in DOMAIN b /\ t[i] = b[i - n] /\ j - n \in DOMAIN b /\ t[j] = b[j - n]
    <3>1. i - n = j - n
      BY <1>4, <2>1
    <3>2. QED
      BY <3>1, <1>1
  <2>2. QED
    BY <1>3, <1>4, <2>1
<1>5. QED
  BY <1>1, <1>3, <1>4 DEF t

(* Steps between the polygons of one geometry and those of another.        *)
LEMMA QuietBalance ==
  ASSUME DrawInv, ~Single, UNCHANGED <<model, drawables>>, ~AtPolygons, ~AtPolygons',
         visited \subseteq visited',
         \A v \in visited' : v \in visited \/ model.polygons[v[2]] = <<>>
  PROVE  Balanced'
<1>1. Balanced /\ Filled = drawables /\ Filled' = drawables'
  BY DEF DrawInv, Filled
<1>2. Objs' = Objs /\ Pols' = Pols /\ Places' = Places
  BY TreeKept
<1>3. ASSUME NEW o, NEW p
      PROVE  Passed(o, p)' = Passed(o, p)
  <2>1. \A at \in Places : model.polygons[at[1]] # <<>>
    BY DEF Places
  <2>2. \A at \in Places : <<o, at[1]>> \in visited' <=> <<o, at[1]>> \in visited
    BY <2>1
  <2>3. /\ Passed(o, p) = {at \in Places : /\ HasTriangles(p)
                           /\ <<o, at[1]>> \in visited /\ model.polygons[at[1]][at[2]] = p}
        /\ Passed(o, p)' = {at \in Places : /\ HasTriangles(p)
                           /\ <<o, at[1]>> \in visited' /\ model.polygons[at[1]][at[2]] = p}
    BY <1>2 DEF Passed, HasTriangles
  <2>4. QED
    BY <2>2, <2>3
<1>4. \A o \in Objs, p \in Pols : SameSize(SlotsOf(drawables, o, p), Passed(o, p))
  BY <1>1 DEF Balanced
<1>5. \A o \in Objs', p \in Pols' : SameSize(SlotsOf(Filled', o, p), Passed(o, p)')
  BY <1>1, <1>2, <1>3, <1>4
<1>6. QED
  BY <1>5 DEF Balanced

LEMMA CreateObjectDraw ==
  ASSUME DrawInv, CreateObject, ~Single
  PROVE  Ordered' /\ Balanced'
<1> DEFINE o == Head(calls).node
           l == Head(calls).at
           gs == Selected(o, l)
           os == IF gs = <<>> THEN model.children[o] ELSE <<>>
           a == Geometries(gs, o)
           b == Objects(os, HighestLod(o))
           f == a \o b
           C == Calls
<1>1. /\ NextCall("object") /\ UNCHANGED <<drawables, visited>>
      /\ calls' = a \o (IF gs = <<>> THEN Objects(model.children[o], HighestLod(o)) ELSE <<>>) \o Tail(calls)
  BY Zenon DEF CreateObject
<1>2. /\ WellFormed(model) /\ Owned(model) /\ Head(calls) \in Calls /\ calls \in Seq(C)
      /\ Head(calls).kind = "object" /\ UNCHANGED model /\ ~AtPolygons
  BY <1>1, FirstCall
<1>3. o \in Objs /\ o \in Nat /\ HighestLod(o) \in At /\ NodeOf(Head(calls)) = <<"object", o>>
  <2>1. o \in Objs
    BY <1>2 DEF Calls
  <2>2. Objs \subseteq Nat
    BY <1>2, LenProperties DEF WellFormed, Objs
  <2>3. QED
    BY <1>2, <2>1, <2>2 DEF At, NodeOf
<1> HIDE DEF o, l
<1>4. gs \in Seq(Geos) /\ IsInjective(gs) /\ Range(gs) \subseteq Range(model.geometries[o])
  BY <1>2, <1>3, SelectedOnce
<1> HIDE DEF gs
<1>5. os \in Seq(Objs) /\ IsInjective(os) /\ Range(os) \subseteq Range(model.children[o])
  <2>1. CASE gs = <<>>
    <3>1. model.children[o] \in Seq(Objs)
      BY <1>2, <1>3, CallsFor DEF At
    <3>2. QED
      BY <1>2, <1>3, <2>1, <3>1, OwnedFacts
  <2>2. CASE gs # <<>>
    <3>1. os = <<>> /\ <<>> \in Seq(Objs) /\ DOMAIN <<>> = {}
      BY <2>2
    <3>2. QED
      BY <3>1 DEF IsInjective, Range
  <2>3. QED
    BY <2>1, <2>2
<1>6. (IF gs = <<>> THEN Objects(model.children[o], HighestLod(o)) ELSE <<>>) = b
  BY DEF Objects
<1> HIDE DEF os
<1>7. /\ a \in Seq(Calls) /\ DOMAIN a = DOMAIN gs
      /\ \A i \in DOMAIN a : a[i].kind = "geometry" /\ NodeOf(a[i]) = <<"geometry", gs[i]>>
      /\ \A i, j \in DOMAIN a : NodeOf(a[i]) = NodeOf(a[j]) => i = j
  BY <1>2, <1>3, <1>4, GeometriesNodes
<1>8. /\ b \in Seq(Calls) /\ DOMAIN b = DOMAIN os
      /\ \A i \in DOMAIN b : b[i].kind = "object" /\ NodeOf(b[i]) = <<"object", os[i]>>
      /\ \A i, j \in DOMAIN b : NodeOf(b[i]) = NodeOf(b[j]) => i = j
  BY <1>2, <1>3, <1>5, ObjectsNodes
<1>9. calls' = f \o Tail(calls)
  BY <1>1, <1>6
<1> HIDE DEF a, b
<1>10. /\ f \in Seq(Calls)
       /\ \A i \in DOMAIN f : \/ \E j \in DOMAIN a : f[i] = a[j]
                              \/ \E j \in DOMAIN b : f[i] = b[j]
       /\ \A i, j \in DOMAIN f : NodeOf(f[i]) = NodeOf(f[j]) => i = j
  <2>1. a \in Seq(C) /\ b \in Seq(C)
    BY <1>7, <1>8
  <2>2. \A i \in DOMAIN a, j \in DOMAIN b : NodeOf(a[i]) # NodeOf(b[j])
    BY <1>7, <1>8
  <2> HIDE DEF C
  <2>3. /\ f \in Seq(C)
        /\ \A i \in DOMAIN f : \/ \E j \in DOMAIN a : f[i] = a[j]
                               \/ \E j \in DOMAIN b : f[i] = b[j]
        /\ \A i, j \in DOMAIN f : NodeOf(f[i]) = NodeOf(f[j]) => i = j
    BY <1>7, <1>8, <2>1, <2>2, NodesConcat
  <2>4. QED
    BY <2>3 DEF C
<1> HIDE DEF f
<1>11. NodeOf(Head(calls)) \in Nodes
  BY <1>3 DEF Nodes
<1>12. Under(NodeOf(Head(calls))) =
         ({"object"} \X Range(model.children[o])) \cup ({"geometry"} \X Range(model.geometries[o]))
  BY <1>3 DEF Under
<1>13. \A i \in DOMAIN f : f[i].kind # "polygons" /\ NodeOf(f[i]) \in Under(NodeOf(Head(calls)))
  <2>1. \A j \in DOMAIN a : a[j].kind # "polygons" /\ NodeOf(a[j]) \in {"geometry"} \X Range(model.geometries[o])
    <3>1. \A j \in DOMAIN gs : gs[j] \in Range(model.geometries[o])
      BY <1>4 DEF Range
    <3>2. QED
      BY <1>7, <3>1
  <2>2. \A j \in DOMAIN b : b[j].kind # "polygons" /\ NodeOf(b[j]) \in {"object"} \X Range(model.children[o])
    <3>1. \A j \in DOMAIN os : os[j] \in Range(model.children[o])
      BY <1>5 DEF Range
    <3>2. QED
      BY <1>8, <3>1
  <2>3. QED
    BY <1>10, <1>12, <2>1, <2>2
<1>14. Ordered' /\ ~AtPolygons'
  BY <1>1, <1>9, <1>10, <1>11, <1>13, OpensNode
<1>15. Balanced'
  BY <1>1, <1>2, <1>14, QuietBalance
<1>16. QED
  BY <1>14, <1>15

(* A geometry without polygons calls its parts at once.                    *)
LEMMA PartsDraw ==
  ASSUME DrawInv, NEW kind, NextCall(kind), ~Single, kind = "geometry" \/ kind = "polygons",
         calls' = Geometries(model.parts[Head(calls).node], Head(calls).of) \o Tail(calls),
         \A v \in visited' : v \in visited \/ v = <<Head(calls).of, Head(calls).node>>
  PROVE  Ordered' /\ ~AtPolygons'
<1> DEFINE g == Head(calls).node
           n == Head(calls).of
           gs == model.parts[g]
           f == Geometries(gs, n)
<1>1. /\ WellFormed(model) /\ Owned(model) /\ Head(calls) \in Calls /\ Head(calls).kind = kind
  BY FirstCall
<1>2. g \in Geos /\ n \in Nat /\ NodeOf(Head(calls)) = <<"geometry", g>>
  BY <1>1 DEF Calls, NodeOf
<1>3. calls' = f \o Tail(calls) /\ \A v \in visited' : v \in visited \/ v = <<n, g>>
  OBVIOUS
<1> HIDE DEF g, n
<1>4. gs \in Seq(Geos) /\ IsInjective(gs)
  <2>1. gs \in Seq(Geos)
    BY <1>1, <1>2 DEF WellFormed, Geos
  <2>2. QED
    BY <1>1, <1>2, <2>1, OwnedFacts
<1>5. Under(NodeOf(Head(calls))) = {"geometry"} \X Range(gs) /\ NodeOf(Head(calls)) \in Nodes
  BY <1>2 DEF Under, Nodes
<1> HIDE DEF gs
<1>6. /\ f \in Seq(Calls) /\ DOMAIN f = DOMAIN gs
      /\ \A i \in DOMAIN f : f[i].kind = "geometry" /\ NodeOf(f[i]) = <<"geometry", gs[i]>>
      /\ \A i, j \in DOMAIN f : NodeOf(f[i]) = NodeOf(f[j]) => i = j
  BY <1>1, <1>2, <1>4, GeometriesNodes
<1> HIDE DEF f
<1>7. \A i \in DOMAIN f : f[i].kind # "polygons" /\ NodeOf(f[i]) \in Under(NodeOf(Head(calls)))
  BY <1>5, <1>6 DEF Range
<1>8. \A v \in visited' : v \in visited \/ <<"geometry", v[2]>> = NodeOf(Head(calls))
  BY <1>2, <1>3
<1>9. QED
  BY <1>3, <1>5, <1>6, <1>7, <1>8, OpensNode, Zenon

LEMMA CreateGeometryDraw ==
  ASSUME DrawInv, CreateGeometry, ~Single
  PROVE  Ordered' /\ Balanced'
<1> DEFINE g == Head(calls).node
           n == Head(calls).of
<1>1. /\ NextCall("geometry") /\ visited' = visited \cup {<<n, g>>}
      /\ batch' = EmptyDrawable /\ UNCHANGED drawables
      /\ model.polygons[g] = <<>> => calls' = Geometries(model.parts[g], n) \o Tail(calls)
      /\ model.polygons[g] # <<>> => calls' = <<Polygons(g, n, 1)>> \o Tail(calls)
  BY Zenon DEF CreateGeometry
<1>2. /\ WellFormed(model) /\ Owned(model) /\ Head(calls) \in Calls
      /\ Head(calls).kind = "geometry" /\ UNCHANGED model /\ ~AtPolygons
  BY <1>1, FirstCall
<1>3. g \in Geos /\ n \in Nat /\ NodeOf(Head(calls)) = <<"geometry", g>>
  BY <1>2 DEF Calls, NodeOf
<1>4. CASE model.polygons[g] = <<>>
  <2>1. Ordered' /\ ~AtPolygons'
    BY <1>1, <1>4, PartsDraw
  <2>2. \A v \in visited' : v \in visited \/ model.polygons[v[2]] = <<>>
    BY <1>1, <1>4
  <2>3. QED
    BY <1>1, <1>2, <2>1, <2>2, QuietBalance
<1>5. CASE model.polygons[g] # <<>>
  <2> DEFINE c == Polygons(g, n, 1)
  <2>1. /\ c \in Calls /\ c.kind = "polygons" /\ c.of = n /\ c.node = g /\ c.at = 1
        /\ NodeOf(c) = <<"geometry", g>>
    BY <1>3, <1>5 DEF Polygons, Calls, NodeOf
  <2>2. calls' = <<c>> \o Tail(calls)
    BY <1>1, <1>5
  <2> HIDE DEF c
  <2>3. /\ Ordered' /\ AtPolygons' /\ Head(calls') = c
        /\ \A o \in Objs : <<o, g>> \notin visited
    BY <1>1, <1>3, <2>1, <2>2, KeepsNode
  <2>4. Objs' = Objs /\ Pols' = Pols /\ Places' = Places
    BY <1>2, TreeKept
  <2>5. ASSUME NEW o \in Objs, NEW p
        PROVE  SlotsOf(Filled, o, p)' = SlotsOf(Filled, o, p)
    <3> DEFINE d == [EmptyDrawable EXCEPT !.object = n]
    <3>1. Filled = drawables /\ Filled' = Append(drawables, d)
      BY <1>1, <1>2, <2>1, <2>3 DEF Filled
    <3>2. drawables \in Seq(Drawable)
      BY DEF DrawInv, SceneInv, DrawablesTextured
    <3>3. d \in Drawable /\ d.of = <<>>
      <4>1. EmptyDrawable \in Drawable /\ EmptyDrawable.of = <<>>
        BY EmptyWhole DEF Whole
      <4>2. QED
        BY <1>3, <4>1 DEF Drawable
    <3> HIDE DEF d
    <3>4. SlotsOf(Append(drawables, d), o, p) = SlotsOf(drawables, o, p)
      <4>1. NewSlots(Len(drawables) + 1, d, o, p) = {}
        BY <3>3, NewSlotsNone
      <4>2. SlotsOf(Append(drawables, d), o, p)
              = SlotsOf(drawables, o, p) \cup NewSlots(Len(drawables) + 1, d, o, p)
        BY <3>2, <3>3, SlotsAppend
      <4>3. QED
        BY <4>1, <4>2
    <3>5. QED
      BY <3>1, <3>4
  <2>6. ASSUME NEW o \in Objs, NEW p
        PROVE  Passed(o, p)' = Passed(o, p)
    <3>1. \A at \in Places : at[2] \in Nat /\ at[2] >= 1
      <4>1. ASSUME NEW h \in Geos, NEW j \in DOMAIN model.polygons[h]
            PROVE  j \in Nat /\ j >= 1
        <5> DEFINE Q == Seq(Pols)
        <5>1. model.polygons \in Seq(Q)
          BY <1>2 DEF WellFormed, Pols
        <5> HIDE DEF Q
        <5>2. model.polygons[h] \in Q
          BY <5>1, ElementOfSeq, LenProperties DEF Geos
        <5> DEFINE s == model.polygons[h]
        <5>3. s \in Seq(Pols) /\ j \in DOMAIN s
          BY <5>2 DEF Q
        <5> HIDE DEF s
        <5>4. QED
          BY <5>3, LenProperties
      <4>2. QED
        BY <4>1 DEF Places, Geos
    <3>2. Passed(o, p) = {at \in Places : /\ HasTriangles(p)
                           /\ <<o, at[1]>> \in visited /\ model.polygons[at[1]][at[2]] = p}
      BY <1>2 DEF Passed
    <3>3. Passed(o, p)' = {at \in Places : /\ HasTriangles(p)
                           /\ <<o, at[1]>> \in visited' /\ model.polygons[at[1]][at[2]] = p
                           /\ ~(at[1] = g /\ at[2] >= 1)}
      BY <1>2, <2>1, <2>3, <2>4 DEF Passed, HasTriangles
    <3>4. \A at \in Places : <<o, at[1]>> \in visited <=> <<o, at[1]>> \in visited' /\ ~(at[1] = g /\ at[2] >= 1)
      BY <1>1, <2>3, <3>1
    <3>5. QED
      BY <3>2, <3>3, <3>4
  <2>7. \A o \in Objs, p \in Pols : SameSize(SlotsOf(Filled, o, p), Passed(o, p))
    BY DEF DrawInv, Balanced
  <2>8. \A o \in Objs', p \in Pols' : SameSize(SlotsOf(Filled, o, p)', Passed(o, p)')
    BY <2>4, <2>5, <2>6, <2>7
  <2>9. Balanced'
    BY <2>8 DEF Balanced
  <2>10. QED
    BY <2>3, <2>9
<1>6. QED
  BY <1>4, <1>5

LEMMA PlacesFacts ==
  ASSUME WellFormed(model)
  PROVE  /\ \A at \in Places : /\ at = <<at[1], at[2]>> /\ at[1] \in Geos
                               /\ at[2] \in DOMAIN model.polygons[at[1]]
         /\ \A g \in Geos : \A j \in DOMAIN model.polygons[g] : <<g, j>> \in Places
         /\ \A g \in Geos : /\ Len(model.polygons[g]) \in Nat
                            /\ DOMAIN model.polygons[g] = 1..Len(model.polygons[g])
<1>1. ASSUME NEW g \in Geos
      PROVE  /\ Len(model.polygons[g]) \in Nat
             /\ DOMAIN model.polygons[g] = 1..Len(model.polygons[g])
  <2> DEFINE Q == Seq(Pols)
             s == model.polygons[g]
  <2>1. model.polygons \in Seq(Q)
    BY DEF WellFormed, Pols
  <2> HIDE DEF Q
  <2>2. model.polygons[g] \in Q
    BY <2>1, ElementOfSeq, LenProperties DEF Geos
  <2>3. s \in Seq(Pols)
    BY <2>2 DEF Q
  <2> HIDE DEF s
  <2>4. Len(s) \in Nat /\ DOMAIN s = 1..Len(s)
    BY <2>3, LenProperties
  <2>5. QED
    BY <2>4 DEF s
<1>2. QED
  BY <1>1 DEF Places, Geos

(* The next polygon of the geometry.                                       *)
LEMMA AdvanceNode ==
  ASSUME DrawInv, ~Single, NextCall("polygons"), Advance, UNCHANGED visited
  PROVE  LET g == Head(calls).node
             n == Head(calls).of
             j == Head(calls).at
         IN /\ Ordered' /\ AtPolygons /\ AtPolygons'
            /\ g \in Geos /\ n \in Nat /\ j \in Nat \ {0}
            /\ Head(calls').node = g /\ Head(calls').of = n /\ Head(calls').at = j + 1
            /\ \A o \in Objs : <<o, g>> \in visited <=> o = n
            /\ WellFormed(model) /\ UNCHANGED model /\ ~Single'
<1> DEFINE h == Head(calls)
           c == [h EXCEPT !.at = @ + 1]
           N == {g \in Geos : model.polygons[g] # <<>>}
           R == [kind : {"polygons"}, node : N, at : Nat \ {0}, of : Nat]
<1>1. /\ WellFormed(model) /\ h \in Calls /\ h.kind = "polygons" /\ UNCHANGED model /\ AtPolygons
      /\ ~Single' /\ calls' = <<c>> \o Tail(calls)
  BY FirstCall DEF Advance
<1>2. h \in R
  BY <1>1 DEF Calls
<1> HIDE DEF h
<1>3. /\ c \in R /\ c.kind = "polygons" /\ c.node = h.node /\ c.of = h.of /\ c.at = h.at + 1
      /\ h.node \in Geos /\ h.of \in Nat /\ h.at \in Nat \ {0}
  <2>0. N \subseteq Geos
    OBVIOUS
  <2> HIDE DEF N
  <2>1. \A n \in Nat \ {0} : n + 1 \in Nat \ {0}
    OBVIOUS
  <2>2. QED
    BY <1>2, <2>0, <2>1
<1>4. c \in Calls
  BY <1>3 DEF Calls
<1> HIDE DEF c
<1>5. NodeOf(c) = <<"geometry", c.node>> /\ NodeOf(h) = NodeOf(c)
  BY <1>1, <1>3 DEF NodeOf
<1>6. /\ Ordered' /\ AtPolygons' /\ Head(calls') = c
      /\ \A o \in Objs : <<o, c.node>> \in visited' <=> o = c.of
  BY <1>1, <1>3, <1>4, <1>5, KeepsNode DEF h
<1>7. QED
  BY <1>1, <1>3, <1>6 DEF h

LEMMA AdvancePassed ==
  ASSUME DrawInv, ~Single, NextCall("polygons"), Advance, UNCHANGED visited,
         Head(calls).at \in DOMAIN model.polygons[Head(calls).node],
         NEW o \in Objs, NEW p
  PROVE  LET at == <<Head(calls).node, Head(calls).at>>
         IN /\ Passed(o, p)' = Passed(o, p)
                 \cup (IF HasTriangles(p) /\ o = Head(calls).of /\ p = ThisPolygon THEN {at} ELSE {})
            /\ at \notin Passed(o, p)
<1> DEFINE g == Head(calls).node
           n == Head(calls).of
           j == Head(calls).at
           q == model.polygons[g][j]
<1>1. /\ AtPolygons /\ AtPolygons' /\ g \in Geos /\ j \in Nat \ {0}
      /\ Head(calls').node = g /\ Head(calls').at = j + 1
      /\ \A x \in Objs : <<x, g>> \in visited <=> x = n
      /\ WellFormed(model) /\ UNCHANGED model
  BY AdvanceNode
<1>2. Places' = Places /\ ThisPolygon = q
  BY <1>1, TreeKept DEF ThisPolygon
<1>3. /\ Passed(o, p) = {at \in Places : /\ HasTriangles(p)
                          /\ <<o, at[1]>> \in visited /\ model.polygons[at[1]][at[2]] = p
                          /\ ~(at[1] = g /\ at[2] >= j)}
      /\ Passed(o, p)' = {at \in Places : /\ HasTriangles(p)
                           /\ <<o, at[1]>> \in visited /\ model.polygons[at[1]][at[2]] = p
                           /\ ~(at[1] = g /\ at[2] >= j + 1)}
  BY <1>1, <1>2 DEF Passed, HasTriangles
<1>4. <<g, j>> \in Places
  BY <1>1, PlacesFacts
<1> HIDE DEF g, n, j
<1>5. \A at \in Places : at = <<at[1], at[2]>> /\ (at[1] = g => at[2] \in Nat)
  BY <1>1, PlacesFacts
<1>6. j \in Nat /\ j >= j /\ ~(j >= j + 1)
  BY <1>1
<1>7. <<g, j>> \notin Passed(o, p)
  BY <1>3, <1>6
<1>8. ASSUME NEW at
      PROVE  at \in Passed(o, p)' <=>
               at \in Passed(o, p) \/ (HasTriangles(p) /\ o = n /\ p = q /\ at = <<g, j>>)
  <2>1. CASE at \notin Places
    BY <1>3, <1>4, <2>1
  <2>2. CASE at \in Places /\ at[1] # g
    <3>1. at # <<g, j>>
      BY <2>2
    <3>2. QED
      BY <1>3, <2>2, <3>1
  <2>3. CASE at \in Places /\ at[1] = g
    <3>1. at = <<g, at[2]>> /\ at[2] \in Nat
      BY <1>5, <2>3
    <3>2. at[2] >= j + 1 <=> at[2] >= j /\ at[2] # j
      BY <1>6, <3>1
    <3>3. <<o, g>> \in visited <=> o = n
      BY <1>1
    <3>4. CASE at[2] = j
      <4>1. at = <<g, j>> /\ model.polygons[at[1]][at[2]] = q
        BY <2>3, <3>1, <3>4 DEF q
      <4>2. QED
        BY <1>3, <1>4, <1>6, <1>7, <2>3, <3>2, <3>3, <3>4, <4>1
    <3>5. CASE at[2] # j
      <4>1. at # <<g, j>>
        BY <3>5
      <4>2. QED
        BY <1>3, <2>3, <3>2, <3>5, <4>1
    <3>6. QED
      BY <3>4, <3>5
  <2>4. QED
    BY <2>1, <2>2, <2>3
<1>9. Passed(o, p)' = Passed(o, p) \cup (IF HasTriangles(p) /\ o = n /\ p = q THEN {<<g, j>>} ELSE {})
  BY <1>8
<1>10. QED
  BY <1>2, <1>7, <1>9 DEF g, n, j

LEMMA SkipPolygonDraw ==
  ASSUME DrawInv, SkipPolygon
  PROVE  Ordered' /\ Balanced'
<1>1. /\ NextCall("polygons") /\ ~Single /\ Advance /\ UNCHANGED <<batch, drawables, visited>>
      /\ Head(calls).at \in DOMAIN model.polygons[Head(calls).node]
      /\ ~HasTriangles(ThisPolygon)
  BY DEF SkipPolygon, NextPolygon
<1>2. /\ Ordered' /\ AtPolygons /\ AtPolygons' /\ Head(calls').of = Head(calls).of
      /\ UNCHANGED model
  BY <1>1, AdvanceNode
<1>3. Filled' = Filled
  BY <1>1, <1>2 DEF Filled
<1>4. \A o \in Objs : \A p : Passed(o, p)' = Passed(o, p)
  BY <1>1, AdvancePassed
<1>5. Objs' = Objs /\ Pols' = Pols
  BY <1>2, TreeKept
<1>6. \A o \in Objs, p \in Pols : SameSize(SlotsOf(Filled, o, p), Passed(o, p))
  BY <1>1 DEF DrawInv, Balanced
<1>7. \A o \in Objs', p \in Pols' : SameSize(SlotsOf(Filled', o, p), Passed(o, p)')
  BY <1>3, <1>4, <1>5, <1>6
<1>8. QED
  BY <1>2, <1>7 DEF Balanced

(* One more element each.                                                  *)
LEMMA SameSizeMore ==
  ASSUME NEW S, NEW T, SameSize(S, T), NEW x, NEW y, x \notin S, y \notin T
  PROVE  SameSize(S \cup {x}, T \cup {y})
  BY FS_AddElement DEF SameSize

(* A drawable is finished as it is; an empty one holds no polygon.         *)
LEMMA FinishedSlots ==
  ASSUME DrawInv, AtPolygons, Head(calls).of \in Nat, NEW q \in Nat, NEW o, NEW p
  PROVE  SlotsOf(Append(drawables, Finished(batch, Head(calls).of, q)), o, p) = SlotsOf(Filled, o, p)
<1> DEFINE n == Head(calls).of
           d == [batch EXCEPT !.object = n]
           e == Finished(batch, n, q)
<1>1. /\ drawables \in Seq(Drawable) /\ batch \in Drawable /\ Whole(model, batch)
      /\ textureMap \subseteq Files
  BY DEF DrawInv, SceneInv, DrawablesTextured, Whole, Counted
<1>2. Filled = Append(drawables, d)
  BY DEF Filled
<1>3. d \in Drawable /\ d.object = n /\ d.of = batch.of
  BY <1>1 DEF Drawable
<1>4. e \in Drawable
  BY <1>1, FinishedFacts
<1>5. e.object = n /\ e.of = batch.of
  BY <1>1 DEF Finished, Drawable
<1> HIDE DEF d, e
<1>6. NewSlots(Len(drawables) + 1, d, o, p) = NewSlots(Len(drawables) + 1, e, o, p)
  BY <1>3, <1>5, NewSlotsSame
<1>7. /\ SlotsOf(Append(drawables, d), o, p) = SlotsOf(drawables, o, p) \cup NewSlots(Len(drawables) + 1, d, o, p)
      /\ SlotsOf(Append(drawables, e), o, p) = SlotsOf(drawables, o, p) \cup NewSlots(Len(drawables) + 1, e, o, p)
  BY <1>1, <1>3, <1>4, SlotsAppend
<1>8. QED
  BY <1>2, <1>6, <1>7 DEF e, n

LEMMA EmptySlots ==
  ASSUME NEW ds \in Seq(Drawable), NEW n \in Nat, NEW o, NEW p, NEW b \in Drawable, b.of = <<>>
  PROVE  SlotsOf(Append(ds, [b EXCEPT !.object = n]), o, p) = SlotsOf(ds, o, p)
<1> DEFINE d == [b EXCEPT !.object = n]
<1>1. d \in Drawable /\ d.of = <<>>
  BY DEF Drawable
<1> HIDE DEF d
<1>2. NewSlots(Len(ds) + 1, d, o, p) = {}
  BY <1>1, NewSlotsNone
<1>3. SlotsOf(Append(ds, d), o, p) = SlotsOf(ds, o, p) \cup NewSlots(Len(ds) + 1, d, o, p)
  BY <1>1, SlotsAppend
<1>4. QED
  BY <1>2, <1>3 DEF d

LEMMA PolygonSlot ==
  ASSUME WellFormed(model), NEW ds \in Seq(Drawable), NEW n \in Nat, NEW b, Whole(model, b),
         NEW q \in Pols, NEW o, NEW p
  PROVE  LET d == [b EXCEPT !.object = n]
             e == [WithPolygon(b, q) EXCEPT !.object = n]
             at == <<Len(ds) + 1, Len(b.of) + 1>>
         IN /\ SlotsOf(Append(ds, e), o, p)
                 = SlotsOf(Append(ds, d), o, p) \cup (IF n = o /\ q = p THEN {at} ELSE {})
            /\ at \notin SlotsOf(Append(ds, d), o, p)
<1> DEFINE d == [b EXCEPT !.object = n]
           w == WithPolygon(b, q)
           e == [w EXCEPT !.object = n]
           at == <<Len(ds) + 1, Len(b.of) + 1>>
           k == Len(ds) + 1
<1>1. Whole(model, w) /\ w.of = Append(b.of, q) /\ q \in Nat
  BY WholeWithPolygon, PolygonFacts
<1>2. b \in Drawable /\ w \in Drawable /\ b.of \in Seq(Nat)
  BY <1>1 DEF Whole, Drawable
<1> HIDE DEF w
<1>3. /\ d \in Drawable /\ d.object = n /\ d.of = b.of
      /\ e \in Drawable /\ e.object = n /\ e.of = Append(b.of, q)
  BY <1>1, <1>2 DEF Drawable
<1> HIDE DEF d, e, k
<1>4. /\ NewSlots(k, e, o, p) =
           IF d.object = o /\ q = p THEN NewSlots(k, d, o, p) \cup {NextPlace(k, d)}
           ELSE NewSlots(k, d, o, p)
      /\ NextPlace(k, d) \notin NewSlots(k, d, o, p)
  <2>1. OneMore(d, e, q)
    BY <1>1, <1>2, <1>3 DEF OneMore
  <2>2. QED
    BY <2>1, NewSlotsMore
<1>5. /\ SlotsOf(Append(ds, d), o, p) = SlotsOf(ds, o, p) \cup NewSlots(k, d, o, p)
      /\ SlotsOf(Append(ds, e), o, p) = SlotsOf(ds, o, p) \cup NewSlots(k, e, o, p)
      /\ \A x \in SlotsOf(ds, o, p) : x[1] # k
  BY <1>3, SlotsAppend DEF k
<1>6. at = NextPlace(k, d) /\ at[1] = k
  BY <1>3 DEF k, NextPlace
<1>7. QED
  BY <1>3, <1>4, <1>5, <1>6 DEF d, e, w

LEMMA AddPolygonDraw ==
  ASSUME DrawInv, AddPolygon
  PROVE  Ordered' /\ Balanced'
<1> DEFINE q == ThisPolygon
           n == Head(calls).of
           b == IF TextureChanges(q) THEN EmptyDrawable ELSE batch
           d == [b EXCEPT !.object = n]
           e == [WithPolygon(b, q) EXCEPT !.object = n]
<1>1. /\ NextCall("polygons") /\ ~Single /\ Advance /\ UNCHANGED visited
      /\ Head(calls).at \in DOMAIN model.polygons[Head(calls).node]
      /\ HasTriangles(q) /\ batch' = WithPolygon(b, q)
      /\ TextureChanges(q) => drawables' = Append(drawables, Finished(batch, n, q))
      /\ ~TextureChanges(q) => drawables' = drawables
  BY DEF AddPolygon, NextPolygon
<1>2. /\ Ordered' /\ AtPolygons /\ AtPolygons' /\ Head(calls').of = n /\ n \in Nat
      /\ WellFormed(model) /\ UNCHANGED model /\ Head(calls).node \in Geos
  BY <1>1, AdvanceNode
<1>3. q \in Pols /\ q \in Nat
  <2>1. q \in Pols
    BY <1>1, <1>2, PolygonOf DEF ThisPolygon
  <2>2. QED
    BY <1>2, <2>1, PolygonFacts, SMTT(60)
<1>4. drawables \in Seq(Drawable) /\ batch \in Drawable /\ Whole(model, batch) /\ textureMap \subseteq Files
  BY DEF DrawInv, SceneInv, DrawablesTextured, Whole, Counted
<1>5. /\ EmptyDrawable \in Drawable /\ Whole(model, EmptyDrawable) /\ EmptyDrawable.of = <<>>
  BY EmptyWhole DEF Whole
<1> HIDE DEF q, n
<1>6. Whole(model, b) /\ drawables' \in Seq(Drawable)
  <2>1. Finished(batch, n, q) \in Drawable
    BY <1>2, <1>3, <1>4, FinishedFacts
  <2>2. Append(drawables, Finished(batch, n, q)) \in Seq(Drawable)
    BY <1>4, <2>1, AppendProperties
  <2>3. QED
    BY <1>1, <1>4, <1>5, <2>2
<1>7. \A o, p : SlotsOf(Append(drawables', d), o, p) = SlotsOf(Filled, o, p)
  <2>1. CASE TextureChanges(q)
    <3>1. SUFFICES ASSUME NEW o, NEW p
                   PROVE  SlotsOf(Append(drawables', d), o, p) = SlotsOf(Filled, o, p)
      OBVIOUS
    <3>2. SlotsOf(drawables', o, p) = SlotsOf(Filled, o, p)
      <4>1. AtPolygons /\ Head(calls).of \in Nat /\ q \in Nat
        BY <1>2, <1>3 DEF n
      <4>2. SlotsOf(Append(drawables, Finished(batch, Head(calls).of, q)), o, p) = SlotsOf(Filled, o, p)
        BY <4>1, FinishedSlots
      <4>3. QED
        BY <1>1, <2>1, <4>2 DEF n
    <3>3. d = [EmptyDrawable EXCEPT !.object = n]
      BY <2>1
    <3>4. SlotsOf(Append(drawables', d), o, p) = SlotsOf(drawables', o, p)
      BY <1>2, <1>5, <1>6, <3>3, EmptySlots
    <3>5. QED
      BY <3>2, <3>4
  <2>2. CASE ~TextureChanges(q)
    BY <1>1, <1>2, <2>2 DEF Filled, n
  <2>3. QED
    BY <2>1, <2>2
<1>8. Filled' = Append(drawables', e)
  BY <1>1, <1>2 DEF Filled
<1> HIDE DEF b, d, e
<1>9. \A o, p :
        /\ SlotsOf(Append(drawables', e), o, p) = SlotsOf(Append(drawables', d), o, p)
             \cup (IF n = o /\ q = p THEN {<<Len(drawables') + 1, Len(b.of) + 1>>} ELSE {})
        /\ <<Len(drawables') + 1, Len(b.of) + 1>> \notin SlotsOf(Append(drawables', d), o, p)
  <2> DEFINE ds == drawables'
  <2>1. WellFormed(model) /\ n \in Nat /\ Whole(model, b) /\ q \in Pols /\ ds \in Seq(Drawable)
    BY <1>2, <1>3, <1>6
  <2> HIDE DEF ds
  <2>2. \A o, p :
          /\ SlotsOf(Append(ds, e), o, p) = SlotsOf(Append(ds, d), o, p)
               \cup (IF n = o /\ q = p THEN {<<Len(ds) + 1, Len(b.of) + 1>>} ELSE {})
          /\ <<Len(ds) + 1, Len(b.of) + 1>> \notin SlotsOf(Append(ds, d), o, p)
    <3>1. SUFFICES ASSUME NEW o, NEW p
                   PROVE  /\ SlotsOf(Append(ds, e), o, p) = SlotsOf(Append(ds, d), o, p)
                               \cup (IF n = o /\ q = p THEN {<<Len(ds) + 1, Len(b.of) + 1>>} ELSE {})
                          /\ <<Len(ds) + 1, Len(b.of) + 1>> \notin SlotsOf(Append(ds, d), o, p)
      OBVIOUS
    <3>2. QED
      BY <2>1, PolygonSlot DEF d, e
  <2>3. QED
    BY <2>2 DEF ds
<1> DEFINE x == <<Len(drawables') + 1, Len(b.of) + 1>>
           y == <<Head(calls).node, Head(calls).at>>
<1>10. \A o, p : /\ SlotsOf(Filled', o, p) = SlotsOf(Filled, o, p) \cup (IF n = o /\ q = p THEN {x} ELSE {})
                 /\ x \notin SlotsOf(Filled, o, p)
  BY <1>7, <1>8, <1>9
<1>11. \A o \in Objs : \A p :
         /\ Passed(o, p)' = Passed(o, p) \cup (IF HasTriangles(p) /\ o = n /\ p = q THEN {y} ELSE {})
         /\ y \notin Passed(o, p)
  BY <1>1, AdvancePassed DEF q, n
<1> HIDE DEF x, y
<1>12. \A o \in Objs, p \in Pols : SameSize(SlotsOf(Filled, o, p), Passed(o, p))
  BY <1>1 DEF DrawInv, Balanced
<1>13. ASSUME NEW o \in Objs, NEW p \in Pols
       PROVE  SameSize(SlotsOf(Filled', o, p), Passed(o, p)')
  <2>1. CASE n = o /\ q = p
    <3>1. SlotsOf(Filled', o, p) = SlotsOf(Filled, o, p) \cup {x} /\ x \notin SlotsOf(Filled, o, p)
      BY <1>10, <2>1
    <3>2. Passed(o, p)' = Passed(o, p) \cup {y} /\ y \notin Passed(o, p)
      BY <1>1, <1>11, <2>1
    <3>3. QED
      BY <1>12, <3>1, <3>2, SameSizeMore
  <2>2. CASE ~(n = o /\ q = p)
    <3>1. SlotsOf(Filled', o, p) = SlotsOf(Filled, o, p)
      BY <1>10, <2>2
    <3>2. Passed(o, p)' = Passed(o, p)
      BY <1>11, <2>2
    <3>3. QED
      BY <1>12, <3>1, <3>2
  <2>3. QED
    BY <2>1, <2>2
<1>14. Objs' = Objs /\ Pols' = Pols
  BY <1>2, TreeKept
<1>15. \A o \in Objs', p \in Pols' : SameSize(SlotsOf(Filled', o, p), Passed(o, p)')
  BY <1>13, <1>14
<1>16. QED
  BY <1>2, <1>15 DEF Balanced

LEMMA EndPolygonsDraw ==
  ASSUME DrawInv, EndPolygons, ~Single
  PROVE  Ordered' /\ Balanced'
<1> DEFINE g == Head(calls).node
           n == Head(calls).of
           ps == model.polygons[g]
           q == Last(ps)
<1>1. /\ NextCall("polygons") /\ Head(calls).at \notin DOMAIN ps /\ UNCHANGED visited
      /\ calls' = Geometries(model.parts[g], n) \o Tail(calls)
      /\ batch.vertices # <<>> => drawables' = Append(drawables, Finished(batch, n, q))
      /\ batch.vertices = <<>> => drawables' = drawables
  BY DEF EndPolygons
<1>2. /\ WellFormed(model) /\ UNCHANGED model /\ AtPolygons
      /\ Head(calls) \in Calls /\ Head(calls).kind = "polygons"
  BY <1>1, FirstCall
<1>3. g \in Geos /\ n \in Nat /\ Head(calls).at \in Nat \ {0} /\ ps # <<>>
  BY <1>2 DEF Calls
<1>4. Ordered' /\ ~AtPolygons'
  BY <1>1, PartsDraw
<1>5. Objs' = Objs /\ Pols' = Pols /\ Places' = Places
  BY <1>2, TreeKept
<1>6. q \in Nat
  <2> DEFINE Q == Seq(Pols)
  <2>1. model.polygons \in Seq(Q)
    BY <1>2 DEF WellFormed, Pols
  <2> HIDE DEF Q
  <2>2. ps \in Q
    BY <1>3, <2>1, ElementOfSeq, LenProperties DEF Geos
  <2>3. Pols \subseteq Nat
    BY <1>2, LenProperties DEF WellFormed, Pols
  <2> HIDE DEF ps
  <2>4. q \in Pols
    BY <1>3, <2>2, FrontLast DEF Q
  <2>5. QED
    BY <2>3, <2>4
<1>7. \A o, p : SlotsOf(Filled', o, p) = SlotsOf(Filled, o, p)
  <2>1. SUFFICES ASSUME NEW o, NEW p
                 PROVE  SlotsOf(drawables', o, p) = SlotsOf(Filled, o, p)
    BY <1>4 DEF Filled
  <2> HIDE DEF q
  <2>2. CASE batch.vertices # <<>>
    <3>1. SlotsOf(Append(drawables, Finished(batch, Head(calls).of, q)), o, p) = SlotsOf(Filled, o, p)
      BY <1>2, <1>3, <1>6, FinishedSlots
    <3>2. QED
      BY <1>1, <2>2, <3>1
  <2>3. CASE batch.vertices = <<>>
    <3>1. drawables \in Seq(Drawable) /\ batch \in Drawable /\ batch.of = <<>>
      BY <2>3 DEF DrawInv, SceneInv, DrawablesTextured, Whole
    <3>2. Filled = Append(drawables, [batch EXCEPT !.object = n])
      BY <1>2 DEF Filled
    <3> HIDE DEF n
    <3>3. QED
      BY <1>1, <1>3, <2>3, <3>1, <3>2, EmptySlots
  <2>4. QED
    BY <2>2, <2>3
<1>8. \A o, p : Passed(o, p)' = Passed(o, p)
  <2>1. SUFFICES ASSUME NEW o, NEW p
                 PROVE  Passed(o, p)' = Passed(o, p)
    OBVIOUS
  <2> DEFINE j == Head(calls).at
  <2>2. /\ Passed(o, p) = {at \in Places : /\ HasTriangles(p)
                            /\ <<o, at[1]>> \in visited /\ model.polygons[at[1]][at[2]] = p
                            /\ ~(at[1] = g /\ at[2] >= j)}
        /\ Passed(o, p)' = {at \in Places : /\ HasTriangles(p)
                             /\ <<o, at[1]>> \in visited /\ model.polygons[at[1]][at[2]] = p}
    BY <1>1, <1>2, <1>4, <1>5, Zenon DEF Passed, HasTriangles
  <2>3. ASSUME NEW at \in Places, at[1] = g
        PROVE  ~(at[2] >= j)
    <3>1. at[2] \in DOMAIN ps /\ Len(ps) \in Nat /\ DOMAIN ps = 1..Len(ps)
      BY <1>2, <1>3, <2>3, PlacesFacts
    <3>2. j \notin 1..Len(ps) /\ j \in Nat \ {0}
      BY <1>1, <1>3, <3>1
    <3>3. QED
      BY <3>1, <3>2
  <2>4. QED
    BY <2>2, <2>3
<1>9. \A o \in Objs, p \in Pols : SameSize(SlotsOf(Filled, o, p), Passed(o, p))
  BY DEF DrawInv, Balanced
<1>10. \A o \in Objs', p \in Pols' : SameSize(SlotsOf(Filled', o, p), Passed(o, p)')
  BY <1>5, <1>7, <1>8, <1>9
<1>11. QED
  BY <1>4, <1>10 DEF Balanced

(* A city model is drawn from its roots.                                   *)
LEMMA RootsCalled ==
  WellFormed(model) /\ Owned(model) /\ calls = Objects(model.roots, 0) /\ visited = {}
    => CalledOnce(calls, {}, Tree) /\ DrawnOnce({}) /\ ~AtPolygons
<1> SUFFICES ASSUME WellFormed(model), Owned(model), calls = Objects(model.roots, 0), visited = {}
             PROVE  CalledOnce(calls, {}, Tree) /\ DrawnOnce({}) /\ ~AtPolygons
  OBVIOUS
<1> DEFINE rs == model.roots
<1>1. /\ IsInjective(rs) /\ rs \in Seq(Objs)
      /\ \A k \in DOMAIN Tree : \A r \in Range(rs) : <<"object", r>> \notin Tree[k]
  BY OwnedFacts DEF WellFormed, Objs, Tree
<1>2. calls = [i \in DOMAIN rs |-> Object(rs[i], 0)]
  BY DEF Objects
<1> HIDE DEF rs
<1>3. /\ DOMAIN calls = DOMAIN rs
      /\ \A i \in DOMAIN calls : calls[i].kind = "object" /\ NodeOf(calls[i]) = <<"object", rs[i]>>
  BY <1>2 DEF Object, NodeOf
<1>4. CalledOnce(calls, {}, Tree)
  <2>1. \A i, j \in DOMAIN calls : NodeOf(calls[i]) = NodeOf(calls[j]) => i = j
    <3>1. ASSUME NEW i \in DOMAIN calls, NEW j \in DOMAIN calls, NodeOf(calls[i]) = NodeOf(calls[j])
          PROVE  i = j
      <4>1. rs[i] = rs[j]
        BY <1>3, <3>1
      <4>2. QED
        BY <1>1, <1>3, <4>1 DEF IsInjective
    <3>2. QED
      BY <3>1
  <2>2. ASSUME NEW k \in DOMAIN Tree, NEW x \in Tree[k], NEW i \in DOMAIN calls, NodeOf(calls[i]) = x
        PROVE  FALSE
    BY <1>1, <1>3, <2>2 DEF Range
  <2>3. QED
    BY <2>1, <2>2 DEF CalledOnce
<1>5. ~AtPolygons
  <2>1. calls # <<>> => 1 \in DOMAIN calls /\ calls[1] = Head(calls)
    <3>1. Len(rs) \in Nat /\ DOMAIN rs = 1..Len(rs) /\ (rs = <<>> <=> Len(rs) = 0)
      BY <1>1, LenProperties, EmptySeq
    <3>2. ASSUME calls # <<>> PROVE 1 \in DOMAIN calls
      <4>1. rs # <<>>
        BY <1>2, <3>2
      <4>2. QED
        BY <1>3, <3>1, <4>1
    <3>3. calls[1] = Head(calls)
      BY <1>2
    <3>4. QED
      BY <3>2, <3>3
  <2>2. QED
    BY <1>3, <2>1 DEF AtPolygons
<1>6. DrawnOnce({})
  BY <1>3, <1>5 DEF DrawnOnce
<1>7. QED
  BY <1>4, <1>5, <1>6

LEMMA RootsCalledNext ==
  (WellFormed(model) /\ Owned(model) /\ calls = Objects(model.roots, 0) /\ visited = {}
    => CalledOnce(calls, {}, Tree) /\ DrawnOnce({}) /\ ~AtPolygons)'
  BY RootsCalled, PTL

(* Nothing is drawn, and no polygon was passed.                            *)
LEMMA NothingDrawn ==
  ASSUME drawables' = <<>>, visited' = {}, ~AtPolygons'
  PROVE  Balanced'
<1>1. Filled' = <<>>
  BY DEF Filled
<1>2. ASSUME NEW o, NEW p
      PROVE  SlotsOf(Filled', o, p) = {} /\ Passed(o, p)' = {}
  BY <1>1 DEF SlotsOf, Passed
<1>3. SameSize({}, {})
  BY FS_EmptySet DEF SameSize
<1>4. \A o \in Objs', p \in Pols' : SameSize(SlotsOf(Filled', o, p), Passed(o, p)')
  BY <1>2, <1>3
<1>5. QED
  BY <1>4 DEF Balanced

(* A polygon with triangles has vertices.                                  *)
LEMMA PolygonVertices ==
  ASSUME WellFormed(model), NEW d, Whole(model, d), NEW p \in Pols, HasTriangles(p)
  PROVE  WithPolygon(d, p).vertices # <<>>
<1> DEFINE V == Nat \X Nat
           t == model.triangles[p]
           n == model.size[p]
           a == d.vertices
           b == VertexList(p)
<1>1. /\ t \in Seq(Nat) /\ Range(t) \subseteq 0..n - 1 /\ n \in Nat /\ t # <<>>
      /\ b \in Seq(V) /\ Len(b) = n
  BY PolygonFacts DEF HasTriangles
<1>2. WithPolygon(d, p).vertices = a \o b /\ a \in Seq(V)
  BY WholeWithPolygon DEF Whole, Drawable
<1> HIDE DEF V, t, n, a, b
<1>3. n # 0
  <2>1. Len(t) \in Nat /\ Len(t) # 0 /\ DOMAIN t = 1..Len(t)
    BY <1>1, LenProperties, EmptySeq
  <2>2. t[1] \in Range(t)
    BY <2>1 DEF Range
  <2>3. QED
    BY <1>1, <2>2
<1>4. a \o b \in Seq(V) /\ Len(a \o b) = Len(a) + Len(b) /\ Len(a) \in Nat
  BY <1>1, <1>2, ConcatProperties, LenProperties
<1>5. Len(a \o b) # 0
  BY <1>1, <1>3, <1>4
<1>6. QED
  BY <1>2, <1>4, <1>5, EmptySeq

(* The model that is drawn, what was visited when it is loaded, and what   *)
(* the batch holds.                                                        *)
LEMMA StepModel ==
  ASSUME DrawInv, [Next]_vars
  PROVE  /\ (phase = "building" => Owned(model))'
         /\ (phase = "loading" => visited = {})'
<1>1. /\ phase = "building" => Owned(model)
      /\ phase = "loading" => visited = {}
  BY DEF DrawInv
<1>2. ASSUME NEW kind, NextCall(kind)
      PROVE  phase' = "building" /\ phase = "building" /\ UNCHANGED model
  BY <1>2 DEF NextCall
<1>3. CASE \E opts \in SUBSET Switches, named \in BOOLEAN : readNode(opts, named)
  BY <1>3 DEF readNode
<1>4. CASE LoadThrows
  BY <1>4 DEF LoadThrows
<1>5. CASE \E m \in CityModels : readCity(m)
  <2> SUFFICES ASSUME NEW m \in CityModels, readCity(m)
               PROVE  /\ (phase = "building" => Owned(model))'
                      /\ (phase = "loading" => visited = {})'
    BY <1>5
  <2>1. CASE m.roots = <<>>
    BY <2>1 DEF readCity, Return
  <2>2. CASE m.roots # <<>>
    <3>1. Owned(m)
      BY <2>2, TreeAssumption DEF Owned
    <3>2. model' = m /\ phase' = "building"
      BY <2>2 DEF readCity
    <3>3. QED
      BY <3>1, <3>2 DEF Owned
  <2>3. QED
    BY <2>1, <2>2
<1>6. CASE CreateObject \/ CreateGeometry \/ SkipPolygon \/ AddPolygon \/ EndPolygons
  BY <1>1, <1>2, <1>6, Zenon DEF CreateObject, CreateGeometry, SkipPolygon, AddPolygon, EndPolygons, NextPolygon, Owned
<1>7. CASE SkipSinglePolygon \/ MissingTexture \/ AddSinglePolygon
  BY <1>1, <1>2, <1>7 DEF SkipSinglePolygon, MissingTexture, AddSinglePolygon, NextSinglePolygon, Owned
<1>8. CASE Gather \/ EndRead
  BY <1>8 DEF Gather, EndRead, Return
<1>9. CASE UNCHANGED vars
  BY <1>1, <1>9 DEF vars, Owned
<1>10. QED
  BY <1>3, <1>4, <1>5, <1>6, <1>7, <1>8, <1>9 DEF Next

LEMMA StepBatch ==
  ASSUME DrawInv, [Next]_vars
  PROVE  (batch.vertices = <<>> => batch.of = <<>>)'
<1>1. /\ batch.vertices = <<>> => batch.of = <<>>
      /\ EmptyDrawable.of = <<>>
  BY EmptyWhole DEF DrawInv
<1>2. CASE UNCHANGED batch
  BY <1>1, <1>2
<1>3. CASE batch' = EmptyDrawable
  BY <1>1, <1>3
<1>4. CASE AddPolygon
  <2> DEFINE q == ThisPolygon
  <2>1. /\ NextCall("polygons") /\ ~Single /\ HasTriangles(q)
        /\ Head(calls).at \in DOMAIN model.polygons[Head(calls).node]
        /\ batch' = WithPolygon(batch, q) \/ batch' = WithPolygon(EmptyDrawable, q)
    BY <1>4 DEF AddPolygon, NextPolygon
  <2>2. /\ WellFormed(model) /\ Head(calls) \in Calls /\ Head(calls).kind = "polygons"
    BY <2>1, FirstCall
  <2>3. q \in Pols
    <3>1. Head(calls).node \in Geos
      BY <2>2 DEF Calls
    <3>2. QED
      BY <2>1, <2>2, <3>1, PolygonOf DEF ThisPolygon
  <2>4. Whole(model, batch) /\ Whole(model, EmptyDrawable)
    BY EmptyWhole DEF DrawInv, SceneInv
  <2> HIDE DEF q
  <2>5. batch'.vertices # <<>>
    <3>1. /\ WithPolygon(batch, q).vertices # <<>>
          /\ WithPolygon(EmptyDrawable, q).vertices # <<>>
      BY <2>1, <2>2, <2>3, <2>4, PolygonVertices
    <3>2. QED
      BY <2>1, <3>1
  <2>6. QED
    BY <2>5
<1>5. UNCHANGED batch \/ batch' = EmptyDrawable \/ AddPolygon
  BY Zenon DEF Next, readNode, LoadThrows, readCity, CreateObject, CreateGeometry, SkipPolygon,
         EndPolygons, SkipSinglePolygon, MissingTexture, AddSinglePolygon, NextSinglePolygon,
         Gather, EndRead, vars
<1>6. QED
  BY <1>2, <1>3, <1>4, <1>5

(* The steps before and after the city model is drawn.                     *)
LEMMA ReadDraw ==
  ASSUME DrawInv, NEW opts, NEW named, readNode(opts, named)
  PROVE  Ordered' /\ Balanced'
<1>1. drawables' = <<>> /\ visited' = {} /\ phase' = "loading"
  BY DEF readNode
<1>2. ~AtPolygons'
  BY <1>1 DEF AtPolygons
<1>3. QED
  BY <1>1, <1>2, NothingDrawn DEF Ordered

LEMMA LoadThrowsDraw ==
  ASSUME DrawInv, LoadThrows
  PROVE  Ordered' /\ Balanced'
<1>1. phase = "loading" /\ phase' = "idle" /\ UNCHANGED <<model, drawables, visited>>
  BY DEF LoadThrows
<1>2. drawables = <<>> /\ visited = {}
  BY <1>1 DEF DrawInv, SceneInv, DrawablesTextured
<1>3. ~AtPolygons'
  BY <1>1 DEF AtPolygons
<1>4. QED
  BY <1>1, <1>2, <1>3, NothingDrawn DEF Ordered

LEMMA ReadCityDraw ==
  ASSUME DrawInv, NEW m \in CityModels, readCity(m)
  PROVE  Ordered' /\ Balanced'
<1>1. /\ phase = "loading" /\ model' = m /\ UNCHANGED <<drawables, visited>>
      /\ m.roots = <<>> => phase' = "idle"
      /\ m.roots # <<>> => phase' = "building" /\ calls' = Objects(m.roots, 0)
  BY DEF readCity, Return
<1>2. drawables' = <<>> /\ visited' = {}
  BY <1>1 DEF DrawInv, SceneInv, DrawablesTextured
<1>3. CASE m.roots = <<>>
  <2>1. ~AtPolygons'
    BY <1>1, <1>3 DEF AtPolygons
  <2>2. QED
    BY <1>1, <1>2, <1>3, <2>1, NothingDrawn DEF Ordered
<1>4. CASE m.roots # <<>>
  <2>1. WellFormed(model)' /\ Owned(model)'
    <3>1. WellFormed(m) /\ Owned(m)
      BY <1>4, CityModelsAssumption, TreeAssumption DEF Owned
    <3>2. QED
      BY <1>1, <3>1 DEF WellFormed, Owned
  <2>2. (calls = Objects(model.roots, 0) /\ visited = {})'
    BY <1>1, <1>2, <1>4 DEF Objects, Object
  <2>3. PICK opened \in SUBSET Nodes' : opened = {}
    OBVIOUS
  <2>4. (CalledOnce(calls, {}, Tree) /\ DrawnOnce({}) /\ ~AtPolygons)'
    BY <2>1, <2>2, RootsCalledNext
  <2>5. (CalledOnce(calls, opened, Tree) /\ DrawnOnce(opened))'
    BY <2>3, <2>4
  <2>6. Ordered'
    BY <2>5 DEF Ordered
  <2>7. QED
    BY <1>2, <2>4, <2>6, NothingDrawn
<1>5. QED
  BY <1>3, <1>4

LEMMA EndReadDraw ==
  ASSUME DrawInv, EndRead
  PROVE  Ordered' /\ Balanced'
<1>1. /\ ~Single /\ calls = <<>> /\ phase' = "idle" /\ UNCHANGED <<model, drawables, visited>>
  BY DEF EndRead, Return
<1>2. ~AtPolygons /\ ~AtPolygons'
  BY <1>1 DEF AtPolygons
<1>3. Balanced'
  BY <1>1, <1>2, QuietBalance
<1>4. QED
  BY <1>1, <1>3 DEF Ordered

LEMMA StutterDraw ==
  ASSUME DrawInv, UNCHANGED vars
  PROVE  Ordered' /\ Balanced'
<1>1. UNCHANGED <<model, options, calls, batch, drawables, visited, phase>>
  BY DEF vars
<1>2. Tree' = Tree /\ Nodes' = Nodes /\ Objs' = Objs /\ Pols' = Pols /\ Places' = Places
  BY <1>1, TreeKept
<1>3. (AtPolygons' <=> AtPolygons) /\ (Single' <=> Single)
  BY <1>1 DEF AtPolygons, Single
<1>4. Ordered'
  <2>1. \A opened : DrawnOnce(opened) => DrawnOnce(opened)'
    BY <1>1, <1>2, <1>3 DEF DrawnOnce
  <2>2. CASE phase = "building" /\ ~Single
    <3>1. PICK opened \in SUBSET Nodes : CalledOnce(calls, opened, Tree) /\ DrawnOnce(opened)
      BY <2>2 DEF DrawInv, Ordered
    <3>2. CalledOnce(calls', opened, Tree') /\ DrawnOnce(opened)' /\ opened \in SUBSET Nodes'
      BY <1>1, <1>2, <2>1, <3>1
    <3>3. QED
      BY <3>2 DEF Ordered
  <2>3. CASE ~(phase = "building" /\ ~Single)
    BY <1>1, <1>3, <2>3 DEF Ordered
  <2>4. QED
    BY <2>2, <2>3
<1>5. Balanced'
  <2>1. Filled' = Filled
    BY <1>1, <1>3 DEF Filled
  <2>2. \A o, p : Passed(o, p)' = Passed(o, p)
    BY <1>1, <1>2, <1>3 DEF Passed, HasTriangles
  <2>3. ~Single => \A o \in Objs, p \in Pols : SameSize(SlotsOf(Filled, o, p), Passed(o, p))
    BY DEF DrawInv, Balanced
  <2>4. ~Single' => \A o \in Objs', p \in Pols' : SameSize(SlotsOf(Filled', o, p), Passed(o, p)')
    BY <1>2, <1>3, <2>1, <2>2, <2>3
  <2>5. QED
    BY <2>4 DEF Balanced
<1>6. QED
  BY <1>4, <1>5

(* What a single object does to the drawables is another matter.           *)
LEMMA SingleDraw ==
  ASSUME Single, UNCHANGED options
  PROVE  Ordered' /\ Balanced'
<1>1. Single'
  BY DEF Single
<1>2. QED
  BY <1>1 DEF Ordered, Balanced

LEMMA StepDraw ==
  ASSUME DrawInv, [Next]_vars
  PROVE  DrawInv'
<1>1. SceneInv'
  BY StepScene DEF DrawInv
<1>2. Ordered' /\ Balanced'
  <2>1. CASE \E opts \in SUBSET Switches, named \in BOOLEAN : readNode(opts, named)
    BY <2>1, ReadDraw
  <2>2. CASE LoadThrows
    BY <2>2, LoadThrowsDraw
  <2>3. CASE \E m \in CityModels : readCity(m)
    BY <2>3, ReadCityDraw
  <2>4. CASE CreateObject
    <3>1. UNCHANGED options
      BY <2>4, SMTT(60) DEF CreateObject, NextCall
    <3>2. QED
      BY <2>4, <3>1, CreateObjectDraw, SingleDraw
  <2>5. CASE CreateGeometry
    <3>1. UNCHANGED options
      BY <2>5 DEF CreateGeometry, NextCall
    <3>2. QED
      BY <2>5, <3>1, CreateGeometryDraw, SingleDraw
  <2>6. CASE SkipPolygon
    BY <2>6, SkipPolygonDraw
  <2>7. CASE AddPolygon
    BY <2>7, AddPolygonDraw
  <2>8. CASE EndPolygons
    <3>1. UNCHANGED options
      BY <2>8 DEF EndPolygons, NextCall
    <3>2. QED
      BY <2>8, <3>1, EndPolygonsDraw, SingleDraw
  <2>9. CASE SkipSinglePolygon \/ MissingTexture \/ AddSinglePolygon
    <3>1. Single /\ UNCHANGED options
      BY <2>9 DEF SkipSinglePolygon, MissingTexture, AddSinglePolygon, NextSinglePolygon, NextCall
    <3>2. QED
      BY <3>1, SingleDraw
  <2>10. CASE Gather
    <3>1. Single /\ UNCHANGED options
      BY <2>10 DEF Gather
    <3>2. QED
      BY <3>1, SingleDraw
  <2>11. CASE EndRead
    BY <2>11, EndReadDraw
  <2>12. CASE UNCHANGED vars
    BY <2>12, StutterDraw
  <2>13. QED
    BY <2>1, <2>2, <2>3, <2>4, <2>5, <2>6, <2>7, <2>8, <2>9, <2>10, <2>11, <2>12 DEF Next
<1>3. QED
  BY <1>1, <1>2, StepModel, StepBatch DEF DrawInv

LEMMA InitDraw == Init => DrawInv
<1> SUFFICES ASSUME Init PROVE DrawInv
  OBVIOUS
<1>1. SceneInv /\ phase = "idle" /\ drawables = <<>> /\ visited = {} /\ batch.of = <<>>
  BY InitScene, EmptyWhole DEF Init
<1>2. Ordered /\ ~AtPolygons
  BY <1>1 DEF Ordered, AtPolygons
<1>3. Balanced
  <2>1. Filled = <<>>
    BY <1>1, <1>2 DEF Filled
  <2>2. ASSUME NEW o, NEW p
        PROVE  SlotsOf(Filled, o, p) = {} /\ Passed(o, p) = {}
    BY <1>1, <2>1 DEF SlotsOf, Passed
  <2>3. SameSize({}, {})
    BY FS_EmptySet DEF SameSize
  <2>4. QED
    BY <2>2, <2>3 DEF Balanced
<1>4. QED
  BY <1>1, <1>2, <1>3 DEF DrawInv

(* However the textures of the polygons alternate, and whichever drawables *)
(* createOsgGeometryFromCityGMLGeometry begins and ends for them, the group *)
(* that readNode returns has every polygon with triangles exactly as often *)
(* as the geometries that were drawn for its object list it, and no other: *)
(* none is lost with a drawable that is not added, none is drawn twice.    *)
THEOREM PolygonsAllDrawn == Spec => []EveryPolygonDrawn
<1>1. DrawInv => EveryPolygonDrawn
  <2> SUFFICES ASSUME DrawInv, phase = "idle", ~Single, NEW o \in Objs, NEW p \in Pols
               PROVE  Cardinality(DrawnFor(o, p)) =
                        IF HasTriangles(p)
                        THEN Cardinality({at \in Places :
                                            <<o, at[1]>> \in visited /\ model.polygons[at[1]][at[2]] = p})
                        ELSE 0
    BY DEF EveryPolygonDrawn, Objs, Pols
  <2>1. ~AtPolygons
    BY DEF AtPolygons
  <2>2. DrawnFor(o, p) = SlotsOf(Filled, o, p)
    BY <2>1 DEF DrawnFor, SlotsOf, Filled
  <2>3. Passed(o, p) = {at \in Places : /\ HasTriangles(p)
                                        /\ <<o, at[1]>> \in visited /\ model.polygons[at[1]][at[2]] = p}
    BY <2>1 DEF Passed
  <2>4. Cardinality(SlotsOf(Filled, o, p)) = Cardinality(Passed(o, p))
    BY DEF DrawInv, Balanced, SameSize
  <2>5. CASE HasTriangles(p)
    <3>1. Passed(o, p) = {at \in Places : <<o, at[1]>> \in visited /\ model.polygons[at[1]][at[2]] = p}
      BY <2>3, <2>5
    <3>2. QED
      BY <2>2, <2>4, <2>5, <3>1
  <2>6. CASE ~HasTriangles(p)
    <3>1. Passed(o, p) = {}
      BY <2>3, <2>6
    <3>2. Cardinality({}) = 0
      BY FS_EmptySet
    <3>3. QED
      BY <2>2, <2>4, <2>6, <3>1, <3>2
  <2>7. QED
    BY <2>5, <2>6
<1>2. DrawInv /\ [Next]_vars => DrawInv'
  BY StepDraw
<1>3. QED
  BY <1>1, <1>2, InitDraw, PTL DEF Spec

=============================================================================
