---------------------- MODULE PolygonTesselation_proofs ----------------------
(***************************************************************************)
(* Proofs about PolygonTesselation: what the tesselator hands to GLU and   *)
(* takes back stays within its buffers, the indices of a polygon are the   *)
(* triangles of the primitives GLU has made for it, its vertices are those *)
(* of its own rings and have the texture coordinates of the document, and  *)
(* rings lose their duplicates and nothing else.                           *)
(***************************************************************************)
EXTENDS PolygonTesselation, SequenceLemmas

-----------------------------------------------------------------------------
(* The triangles of a primitive.                                           *)

(* What endCallback does for one more vertex of a fan or strip.            *)
Turned(mode, cur, t, i) ==
  [out |-> t.out \o (IF mode = Fan \/ i % 2 = 0 THEN <<t.first>> ELSE <<>>) \o <<t.prev>>
           \o (IF mode = Strip /\ i % 2 = 1 THEN <<t.first>> ELSE <<>>) \o <<cur[i + 1]>>,
   first |-> IF mode = Strip THEN t.prev ELSE t.first,
   prev |-> cur[i + 1]]

Turns(V) == [out : Seq(V), first : V, prev : V]

NoTurn(cur) == [out |-> <<>>, first |-> cur[1], prev |-> cur[2]]

LEMMA ShortConcat ==
  ASSUME NEW V, NEW x \in V, NEW y \in V, NEW z \in V
  PROVE  /\ <<x>> \o <<y>> = <<x, y>>
         /\ <<x, y>> \o <<z>> = <<x, y, z>>
         /\ <<>> \o <<x>> = <<x>>
         /\ <<x, y>> \o <<>> = <<x, y>>
<1> DEFINE a == <<x>>
           b == <<y>>
           c == <<z>>
           ab == <<x, y>>
           abc == <<x, y, z>>
<1>1. /\ a \in Seq(V) /\ Len(a) = 1 /\ a[1] = x
      /\ b \in Seq(V) /\ Len(b) = 1 /\ b[1] = y
      /\ c \in Seq(V) /\ Len(c) = 1 /\ c[1] = z
  OBVIOUS
<1>2. ab \in Seq(V) /\ Len(ab) = 2 /\ ab[1] = x /\ ab[2] = y
  OBVIOUS
<1>3. abc \in Seq(V) /\ Len(abc) = 3 /\ abc[1] = x /\ abc[2] = y /\ abc[3] = z
  OBVIOUS
<1> HIDE DEF a, b, c, ab, abc
<1>4. a \o b = ab
  <2>1. /\ a \o b \in Seq(V) /\ Len(a \o b) = 2
        /\ \A i \in 1..2 : (a \o b)[i] = IF i <= 1 THEN a[i] ELSE b[i - 1]
    BY <1>1, ConcatProperties
  <2>2. \A i \in 1..2 : i = 1 \/ (i = 2 /\ ~(i <= 1) /\ i - 1 = 1)
    OBVIOUS
  <2>3. \A i \in 1..2 : (a \o b)[i] = ab[i]
    BY <1>1, <1>2, <2>1, <2>2
  <2>4. QED
    BY <1>2, <2>1, <2>3, SeqEqual
<1>5. ab \o c = abc
  <2>1. /\ ab \o c \in Seq(V) /\ Len(ab \o c) = 3
        /\ \A i \in 1..3 : (ab \o c)[i] = IF i <= 2 THEN ab[i] ELSE c[i - 2]
    <3>1. /\ ab \o c \in Seq(V) /\ Len(ab \o c) = Len(ab) + Len(c)
          /\ \A i \in 1..(Len(ab) + Len(c)) :
               (ab \o c)[i] = IF i <= Len(ab) THEN ab[i] ELSE c[i - Len(ab)]
      BY <1>1, <1>2, ConcatProperties
    <3>2. Len(ab) + Len(c) = 3 /\ Len(ab) = 2
      BY <1>1, <1>2
    <3>3. QED
      BY <3>1, <3>2
  <2>2. \A i \in 1..3 : i = 1 \/ i = 2 \/ (i = 3 /\ ~(i <= 2) /\ i - 2 = 1)
    OBVIOUS
  <2>3. \A i \in 1..3 : (ab \o c)[i] = abc[i]
    BY <1>1, <1>2, <1>3, <2>1, <2>2
  <2>4. QED
    BY <1>3, <2>1, <2>3, SeqEqual
<1>6. <<>> \o a = a /\ ab \o <<>> = ab
  BY <1>1, <1>2, ConcatEmptySeq
<1>7. QED
  BY <1>4, <1>5, <1>6 DEF a, b, c, ab, abc

LEMMA FiveParts ==
  ASSUME NEW V, NEW s \in Seq(V), NEW one \in Seq(V), NEW p \in Seq(V), NEW two \in Seq(V),
         NEW e \in Seq(V)
  PROVE  /\ one \o p \o two \o e \in Seq(V)
         /\ s \o one \o p \o two \o e = s \o (one \o p \o two \o e)
         /\ s \o (one \o p \o two \o e) \in Seq(V)
<1>1. one \o p \in Seq(V) /\ one \o p \o two \in Seq(V) /\ one \o p \o two \o e \in Seq(V)
  <2>1. one \o p \in Seq(V)
    BY ConcatProperties
  <2>2. one \o p \o two \in Seq(V)
    BY <2>1, ConcatProperties
  <2>3. QED
    BY <2>1, <2>2, ConcatProperties
<1>2. s \o one \o p = s \o (one \o p)
  BY ConcatAssociative, SMTT(60)
<1>3. s \o (one \o p) \o two = s \o (one \o p \o two)
  <2>1. \A w \in Seq(V) : s \o w \o two = s \o (w \o two)
    BY ConcatAssociative, SMTT(60)
  <2>2. QED
    BY <1>1, <2>1, Zenon
<1>4. s \o (one \o p \o two) \o e = s \o (one \o p \o two \o e)
  <2>1. \A w \in Seq(V) : s \o w \o e = s \o (w \o e)
    BY ConcatAssociative, SMTT(60)
  <2>2. QED
    BY <1>1, <2>1, Zenon
<1>5. s \o (one \o p \o two \o e) \in Seq(V)
  BY <1>1, ConcatProperties
<1>6. QED
  BY <1>1, <1>2, <1>3, <1>4, <1>5, Zenon

(* It adds the triangle of that vertex and the two it keeps.               *)
NewTriangle(mode, t, k, e) ==
  IF mode = Strip /\ k % 2 = 0 THEN <<t.prev, t.first, e>> ELSE <<t.first, t.prev, e>>

LEMMA TurnedType ==
  ASSUME NEW V, NEW mode, NEW cur \in Seq(V), NEW k \in 1..(Len(cur) - 2), NEW t \in Turns(V)
  PROVE  /\ Turned(mode, cur, t, k + 1) \in Turns(V)
         /\ mode \in {Fan, Strip} =>
              Turned(mode, cur, t, k + 1).out = t.out \o NewTriangle(mode, t, k, cur[k + 2])
<1> DEFINE out == t.out
           e == cur[k + 2]
           a == t.first
           p == t.prev
           one == IF mode = Fan \/ (k + 1) % 2 = 0 THEN <<a>> ELSE <<>>
           two == IF mode = Strip /\ (k + 1) % 2 = 1 THEN <<a>> ELSE <<>>
           new == one \o <<p>> \o two \o <<e>>
<1>1. Len(cur) \in Nat /\ k \in Nat
  BY LenProperties
<1>2. k + 2 \in 1..Len(cur) /\ (k + 1) + 1 = k + 2
  BY <1>1
<1>3. e \in V /\ a \in V /\ p \in V /\ out \in Seq(V)
  BY <1>2, ElementOfSeq DEF Turns
<1>4. Turned(mode, cur, t, k + 1) =
        [out |-> out \o one \o <<p>> \o two \o <<e>>,
         first |-> IF mode = Strip THEN p ELSE a, prev |-> e]
  BY <1>2 DEF Turned
<1> HIDE DEF out, a, p, e
<1>5. one \in Seq(V) /\ two \in Seq(V) /\ <<p>> \in Seq(V) /\ <<e>> \in Seq(V)
  BY <1>3
<1>6. new \in Seq(V) /\ out \o new \in Seq(V) /\ out \o one \o <<p>> \o two \o <<e>> = out \o new
  <2> DEFINE ps == <<p>>
             es == <<e>>
  <2>1. ps \in Seq(V) /\ es \in Seq(V)
    BY <1>5
  <2> HIDE DEF one, two, ps, es
  <2>2. /\ one \o ps \o two \o es \in Seq(V)
        /\ out \o one \o ps \o two \o es = out \o (one \o ps \o two \o es)
        /\ out \o (one \o ps \o two \o es) \in Seq(V)
    BY <1>3, <1>5, <2>1, FiveParts
  <2>3. QED
    BY <2>2 DEF ps, es
<1>7. ASSUME mode \in {Fan, Strip}
      PROVE  new = IF mode = Strip /\ k % 2 = 0 THEN <<p, a, e>> ELSE <<a, p, e>>
  <2>1. CASE mode = Strip /\ k % 2 = 0
    <3>1. (k + 1) % 2 = 1 /\ mode # Fan
      BY <1>1, <2>1 DEF Fan, Strip
    <3>2. one = <<>> /\ two = <<a>>
      BY <2>1, <3>1
    <3>3. <<>> \o <<p>> \o <<a>> \o <<e>> = <<p, a, e>>
      BY <1>3, ShortConcat, ZenonT(60)
    <3> HIDE DEF one, two
    <3>4. QED
      BY <2>1, <3>2, <3>3
  <2>2. CASE ~(mode = Strip /\ k % 2 = 0)
    <3>1. mode = Fan \/ (k + 1) % 2 = 0
      BY <1>1, <1>7, <2>2
    <3>2. ~(mode = Strip /\ (k + 1) % 2 = 1)
      BY <1>1, <2>2
    <3>3. one = <<a>> /\ two = <<>>
      BY <3>1, <3>2
    <3>4. <<a>> \o <<p>> \o <<>> \o <<e>> = <<a, p, e>>
      BY <1>3, ShortConcat, ZenonT(60)
    <3> HIDE DEF one, two
    <3>5. QED
      BY <2>2, <3>3, <3>4
  <2>3. QED
    BY <2>1, <2>2
<1> HIDE DEF one, two, new
<1>8. Turned(mode, cur, t, k + 1) =
        [out |-> out \o new, first |-> IF mode = Strip THEN p ELSE a, prev |-> e]
  BY <1>4, <1>6
<1>9. Turned(mode, cur, t, k + 1) \in Turns(V)
  <2>1. (IF mode = Strip THEN p ELSE a) \in V
    BY <1>3
  <2> DEFINE first == IF mode = Strip THEN p ELSE a
             all == out \o new
  <2>2. Turned(mode, cur, t, k + 1) = [out |-> all, first |-> first, prev |-> e]
    BY <1>8
  <2>3. all \in Seq(V) /\ first \in V
    BY <1>6, <2>1
  <2> HIDE DEF all, first
  <2>4. [out |-> all, first |-> first, prev |-> e] \in Turns(V)
    BY <1>3, <2>3 DEF Turns
  <2>5. QED
    BY <2>2, <2>4, Zenon
<1>10. Turned(mode, cur, t, k + 1).out = out \o new
  BY <1>8
<1>11. ASSUME mode \in {Fan, Strip}
       PROVE  new = NewTriangle(mode, t, k, cur[k + 2])
  BY <1>7, <1>11 DEF NewTriangle, a, p, e
<1>12. QED
  BY <1>9, <1>10, <1>11 DEF out

(* The triangles of a fan or strip, one vertex after the other.            *)
LEMMA TrianglesFold ==
  ASSUME NEW V, NEW cur \in Seq(V), Len(cur) >= 3, NEW mode, mode # Triangles
  PROVE  \E f \in [0..(Len(cur) - 2) -> Turns(V)] :
           /\ f[0] = NoTurn(cur)
           /\ \A k \in 1..(Len(cur) - 2) : f[k] = Turned(mode, cur, f[k - 1], k + 1)
           /\ TrianglesOf(mode, cur) = f[Len(cur) - 2].out
<1> DEFINE n == Len(cur) - 2
           seq == [k \in 1..n |-> k + 1]
           T == Turns(V)
           b == NoTurn(cur)
           g == [p \in (1..n) \X T |-> Turned(mode, cur, p[2], p[1] + 1)]
           Is(it) == it = [s \in SUBSET DOMAIN seq |->
                             IF s = {} THEN b
                             ELSE Turned(mode, cur, it[s \ {Max(s)}], seq[Max(s)])]
           it0 == CHOOSE it : Is(it)
<1>1. n \in Nat /\ n >= 1 /\ cur[1] \in V /\ cur[2] \in V
  BY LenProperties, ElementOfSeq
<1>2. b \in T
  BY <1>1, EmptySeq DEF NoTurn, Turns
<1>3. g \in [(1..n) \X T -> T]
  <2>1. \A p \in (1..n) \X T : Turned(mode, cur, p[2], p[1] + 1) \in T
    BY TurnedType
  <2> HIDE DEF n, T
  <2>2. QED
    BY <2>1
<1>4. \A k \in 1..n, t \in T : g[<<k, t>>] = Turned(mode, cur, t, seq[k])
  <2> HIDE DEF n, T
  <2>1. QED
    OBVIOUS
<1>5. DOMAIN seq = 1..n
  OBVIOUS
<1>6. TrianglesOf(mode, cur) = it0[1..n].out
  <2>1. TrianglesOf(mode, cur) = it0[DOMAIN seq].out
    BY Zenon DEF TrianglesOf, FoldLeft, MapThenFoldSet, Turned, NoTurn
  <2>2. QED
    BY <1>5, <2>1
<1> HIDE DEF n, seq, T, b, g
<1>7. \A s \in SUBSET (1..n) : s # {} => Max(s) \in 1..n /\ s \ {Max(s)} \in SUBSET (1..n)
  BY <1>1, MaxExists
<1>8. Is(it0)
  <2>1. PICK it \in [SUBSET (1..n) -> T] : Folds(it, b, g, 1..n)
    BY <1>1, <1>2, <1>3, FoldExists DEF HasFold
  <2>2. ASSUME NEW s \in SUBSET (1..n)
        PROVE  it[s] = IF s = {} THEN b ELSE Turned(mode, cur, it[s \ {Max(s)}], seq[Max(s)])
    BY <1>4, <1>7, <2>1 DEF Folds
  <2>3. Is(it)
    BY <1>5, <2>1, <2>2, Zenon
  <2>4. QED
    BY <2>3
<1> HIDE DEF it0
<1>9. FoldsIn(T, it0, b, g, 1..n)
  <2>1. \A s \in SUBSET (1..n) :
          it0[s] = IF s = {} THEN b ELSE Turned(mode, cur, it0[s \ {Max(s)}], seq[Max(s)])
    BY <1>5, <1>8
  <2>2. QED
    BY <1>4, <1>7, <2>1 DEF FoldsIn
<1>10. PICK f \in [0..n -> T] :
         f[0] = b /\ (\A k \in 1..n : f[k] = g[<<k, f[k - 1]>>]) /\ f[n] = it0[1..n]
  <2>1. HasSteps(T, it0, b, g, n)
    BY <1>1, <1>2, <1>3, <1>9, FoldSteps
  <2>2. QED
    BY <2>1 DEF HasSteps
<1>11. \A k \in 1..n : f[k] = Turned(mode, cur, f[k - 1], k + 1)
  <2>1. \A k \in 1..n : f[k - 1] \in T /\ seq[k] = k + 1
    BY <1>1 DEF seq
  <2>2. QED
    BY <1>4, <1>10, <2>1
<1>12. QED
  BY <1>6, <1>10, <1>11 DEF n, T, b

(* They are made of the vertices of the primitive.                         *)
LEMMA TrianglesType ==
  ASSUME NEW V, NEW cur \in Seq(V), Len(cur) >= 3, NEW mode
  PROVE  TrianglesOf(mode, cur) \in Seq(V)
<1>1. CASE mode = Triangles
  BY <1>1 DEF TrianglesOf
<1>2. CASE mode # Triangles
  <2>1. PICK f \in [0..(Len(cur) - 2) -> Turns(V)] : TrianglesOf(mode, cur) = f[Len(cur) - 2].out
    BY <1>2, TrianglesFold
  <2>2. Len(cur) - 2 \in 0..(Len(cur) - 2)
    BY LenProperties
  <2>3. f[Len(cur) - 2] \in Turns(V)
    BY <2>2
  <2>4. QED
    BY <2>1, <2>3 DEF Turns
<1>3. QED
  BY <1>1, <1>2

(* What OpenGL draws for a fan or strip, vertex by vertex.                 *)
DrawnAt(mode, v, k) ==
  IF mode = Strip
  THEN IF k % 2 = 1 THEN <<v[k], v[k + 1], v[k + 2]>> ELSE <<v[k + 1], v[k], v[k + 2]>>
  ELSE <<v[1], v[k + 1], v[k + 2]>>

(* What OpenGL draws for a fan or strip is one triangle after the other.   *)
LEMMA DrawnTriples ==
  ASSUME NEW V, NEW cur \in Seq(V), Len(cur) >= 3, NEW mode \in {Fan, Strip}
  PROVE  Drawn([mode |-> mode, indices |-> cur]) =
           FlattenSeq([k \in 1..(Len(cur) - 2) |-> DrawnAt(mode, cur, k)])
<1> DEFINE D == [k \in 1..(Len(cur) - 2) |-> DrawnAt(mode, cur, k)]
<1>1. CASE mode = Fan
  <2>1. mode # Strip /\ mode # Triangles
    BY <1>1 DEF Fan, Strip, Triangles
  <2>2. D = [k \in 1..(Len(cur) - 2) |-> <<cur[1], cur[k + 1], cur[k + 2]>>]
    BY <2>1 DEF DrawnAt
  <2> HIDE DEF D
  <2>3. QED
    BY <1>1, <2>1, <2>2 DEF Drawn, D
<1>2. CASE mode = Strip
  <2>1. mode # Fan /\ mode # Triangles
    BY <1>2 DEF Fan, Strip, Triangles
  <2>2. D = [k \in 1..(Len(cur) - 2) |->
               IF k % 2 = 1 THEN <<cur[k], cur[k + 1], cur[k + 2]>>
               ELSE <<cur[k + 1], cur[k], cur[k + 2]>>]
    BY <1>2 DEF DrawnAt
  <2> HIDE DEF D
  <2>3. QED
    BY <1>2, <2>1, <2>2 DEF Drawn, D
<1>3. QED
  BY <1>1, <1>2

LEMMA TrianglesDrawn ==
  ASSUME NEW V, NEW cur \in Seq(V), Len(cur) >= 3, NEW mode \in {Triangles, Fan, Strip}
  PROVE  TrianglesOf(mode, cur) = Drawn([mode |-> mode, indices |-> cur])
<1>1. CASE mode = Triangles
  <2> DEFINE p == [mode |-> mode, indices |-> cur]
  <2>1. p.mode = Triangles /\ p.indices = cur
    BY <1>1
  <2> HIDE DEF p
  <2>2. Drawn(p) = cur
    BY <2>1 DEF Drawn, Triangles, Fan, Strip
  <2>3. TrianglesOf(mode, cur) = cur
    BY <1>1 DEF TrianglesOf
  <2>4. QED
    BY <2>2, <2>3 DEF p
<1>2. CASE mode # Triangles
  <2> DEFINE n == Len(cur) - 2
             D == [k \in 1..n |-> DrawnAt(mode, cur, k)]
  <2>1. n \in Nat /\ n >= 1 /\ Len(cur) \in Nat /\ mode \in {Fan, Strip}
    BY <1>2, LenProperties
  <2>2. PICK f \in [0..n -> Turns(V)] :
          /\ f[0] = NoTurn(cur)
          /\ \A k \in 1..n : f[k] = Turned(mode, cur, f[k - 1], k + 1)
          /\ TrianglesOf(mode, cur) = f[n].out
    BY <1>2, TrianglesFold, SMTT(60)
  <2>3. D \in [1..n -> Seq(V)]
    <3>1. ASSUME NEW k \in 1..n
          PROVE  DrawnAt(mode, cur, k) \in Seq(V)
      <4>1. k \in 1..Len(cur) /\ k + 1 \in 1..Len(cur) /\ k + 2 \in 1..Len(cur) /\ 1 \in 1..Len(cur)
        BY <2>1
      <4>2. cur[k] \in V /\ cur[k + 1] \in V /\ cur[k + 2] \in V /\ cur[1] \in V
        BY <4>1, ElementOfSeq
      <4>3. QED
        BY <4>2 DEF DrawnAt
    <3> HIDE DEF n
    <3>2. QED
      BY <3>1
  <2> DEFINE U == {k \in Nat : k <= n =>
                     /\ f[k].out = FlattenSeq([j \in 1..k |-> D[j]])
                     /\ f[k].prev = cur[k + 2]
                     /\ f[k].first = IF mode = Strip THEN cur[k + 1] ELSE cur[1]}
  <2>4. 0 \in U
    <3>1. [j \in 1..0 |-> D[j]] = <<>>
      OBVIOUS
    <3>2. f[0].out = <<>> /\ f[0].prev = cur[2] /\ f[0].first = cur[1]
      BY <2>2 DEF NoTurn
    <3> HIDE DEF D, n
    <3>3. QED
      BY <3>1, <3>2, FlattenEmpty
  <2>5. ASSUME NEW k \in Nat, k \in U
        PROVE  k + 1 \in U
    <3>1. SUFFICES ASSUME k + 1 <= n
                   PROVE  /\ f[k + 1].out = FlattenSeq([j \in 1..(k + 1) |-> D[j]])
                          /\ f[k + 1].prev = cur[(k + 1) + 2]
                          /\ f[k + 1].first = IF mode = Strip THEN cur[(k + 1) + 1] ELSE cur[1]
      OBVIOUS
    <3>2. /\ k + 1 \in 1..n /\ (k + 1) - 1 = k /\ k \in 0..n
          /\ ((k + 1) + 1) + 1 = (k + 1) + 2 /\ (k + 1) + 1 = k + 2
      BY <2>1, <3>1
    <3>3. /\ f[k].out = FlattenSeq([j \in 1..k |-> D[j]])
          /\ f[k].prev = cur[k + 2]
          /\ f[k].first = IF mode = Strip THEN cur[k + 1] ELSE cur[1]
      BY <2>5, <3>2
    <3>4. f[k] \in Turns(V) /\ f[k + 1] = Turned(mode, cur, f[k], (k + 1) + 1)
      <4>1. f[k + 1] = Turned(mode, cur, f[(k + 1) - 1], (k + 1) + 1)
        BY <2>2, <3>2
      <4>2. QED
        BY <3>2, <4>1
    <3>5. f[k + 1].out = f[k].out \o D[k + 1]
      <4> DEFINE t == f[k]
                 i == k + 1
      <4>1. t \in Turns(V) /\ i \in 1..(Len(cur) - 2)
        BY <3>2, <3>4
      <4> HIDE DEF t, i
      <4>2. Turned(mode, cur, t, i + 1).out =
              t.out \o NewTriangle(mode, t, i, cur[i + 2])
        BY <2>1, <4>1, TurnedType
      <4>3. NewTriangle(mode, t, i, cur[i + 2]) = DrawnAt(mode, cur, i)
        <5>1. t.prev = cur[i + 1] /\ t.first = IF mode = Strip THEN cur[i] ELSE cur[1]
          BY <3>2, <3>3 DEF t, i
        <5>2. i \in Nat /\ (i % 2 = 0 \/ i % 2 = 1) /\ ~(i % 2 = 0 /\ i % 2 = 1)
          BY <2>1, <4>1
        <5>3. QED
          BY <5>1, <5>2 DEF DrawnAt, NewTriangle
      <4>4. Turned(mode, cur, t, i + 1).out = t.out \o DrawnAt(mode, cur, i)
        BY <4>2, <4>3, Zenon
      <4>5. D[i] = DrawnAt(mode, cur, i)
        BY <4>1
      <4>6. QED
        BY <3>4, <4>4, <4>5 DEF t, i
    <3>6. FlattenSeq([j \in 1..(k + 1) |-> D[j]]) = FlattenSeq([j \in 1..k |-> D[j]]) \o D[k + 1]
      <4> DEFINE E == [j \in 1..(k + 1) |-> D[j]]
                 F == [j \in 1..k |-> D[j]]
      <4>1. \A j \in 1..(k + 1) : j \in 1..n
        BY <3>2
      <4>2. E \in [1..(k + 1) -> Seq(V)] /\ E[k + 1] = D[k + 1]
        <5> HIDE DEF D
        <5>1. QED
          BY <2>3, <4>1, <3>2
      <4>3. [j \in 1..k |-> E[j]] = F
        <5> HIDE DEF D
        <5>1. QED
          OBVIOUS
      <4> HIDE DEF E, D
      <4>4. FlattenSeq(E) = FlattenSeq([j \in 1..k |-> E[j]]) \o E[k + 1]
        BY <4>2, FlattenTo
      <4>5. QED
        BY <4>2, <4>3, <4>4 DEF E, F
    <3>7. /\ f[k + 1].prev = cur[(k + 1) + 2]
          /\ f[k + 1].first = IF mode = Strip THEN f[k].prev ELSE f[k].first
      <4> HIDE DEF U, D, n
      <4>1. QED
        BY <3>2, <3>4 DEF Turned
    <3> HIDE DEF U, D, n
    <3>8. QED
      BY <3>2, <3>3, <3>5, <3>6, <3>7
  <2>6. \A k \in Nat : k \in U
    <3> HIDE DEF U
    <3>1. QED
      BY <2>4, <2>5, NatInduct
  <2>7. f[n].out = FlattenSeq([j \in 1..n |-> D[j]])
    <3> HIDE DEF D
    <3>1. QED
      BY <2>1, <2>6
  <2>8. [j \in 1..n |-> D[j]] = D
    OBVIOUS
  <2>9. Drawn([mode |-> mode, indices |-> cur]) = FlattenSeq(D)
    BY <2>1, DrawnTriples
  <2>10. QED
    BY <2>2, <2>7, <2>8, <2>9, Zenon
<1>3. QED
  BY <1>1, <1>2

-----------------------------------------------------------------------------
(* The documents.                                                          *)

RingPlaces(d, r) == {{Place(r, k)} : k \in DOMAIN d.rings[r].points}
ListsOf(d, r) == {c \in DOMAIN d.coordinates : d.coordinates[c].ring = r}

LEMMA DocumentFacts ==
  ASSUME NEW d \in Documents
  PROVE  /\ Len(d.rings) \in Nat /\ DOMAIN d.rings = 1..Len(d.rings)
         /\ d.themes \in Seq(Nat) /\ Len(d.themes) \in Nat /\ DOMAIN d.themes = 1..Len(d.themes)
         /\ \A r \in DOMAIN d.rings :
              /\ d.rings[r].exterior \in BOOLEAN
              /\ d.rings[r].points \in Seq(Nat)
              /\ Len(d.rings[r].points) \in Nat
              /\ DOMAIN d.rings[r].points = 1..Len(d.rings[r].points)
         /\ Len(d.coordinates) \in Nat /\ DOMAIN d.coordinates = 1..Len(d.coordinates)
         /\ \A c \in DOMAIN d.coordinates :
              /\ d.coordinates[c].of \in Range(d.themes)
              /\ d.coordinates[c].ring \in DOMAIN d.rings
              /\ d.coordinates[c].length \in Nat
<1>1. /\ d.rings \in Seq([exterior : BOOLEAN, points : Seq(Nat)])
      /\ d.themes \in Seq(Nat)
      /\ d.coordinates \in Seq([of : Range(d.themes), ring : DOMAIN d.rings, length : Nat])
  BY DocumentsAssumption
<1> DEFINE rs == d.rings
           cs == d.coordinates
           C == [of : Range(d.themes), ring : DOMAIN d.rings, length : Nat]
<1>2. Len(rs) \in Nat /\ DOMAIN rs = 1..Len(rs) /\ Len(cs) \in Nat /\ DOMAIN cs = 1..Len(cs)
  BY <1>1, LenProperties
<1>3. \A r \in DOMAIN rs : rs[r] \in [exterior : BOOLEAN, points : Seq(Nat)]
  <2> HIDE DEF rs
  <2>1. QED
    BY <1>1, <1>2, ElementOfSeq DEF rs
<1>4. \A c \in DOMAIN cs : cs[c] \in C
  <2>1. cs \in Seq(C)
    BY <1>1
  <2> HIDE DEF cs, C
  <2>2. QED
    BY <1>2, <2>1, ElementOfSeq
<1>5. \A r \in DOMAIN rs : /\ rs[r].exterior \in BOOLEAN /\ rs[r].points \in Seq(Nat)
                            /\ Len(rs[r].points) \in Nat
                            /\ DOMAIN rs[r].points = 1..Len(rs[r].points)
  <2> HIDE DEF rs
  <2>1. QED
    BY <1>3, LenProperties
<1>6. Len(d.themes) \in Nat /\ DOMAIN d.themes = 1..Len(d.themes)
  BY <1>1, LenProperties
<1>7. \A c \in DOMAIN cs : /\ cs[c].of \in Range(d.themes)
                            /\ cs[c].ring \in DOMAIN d.rings
                            /\ cs[c].length \in Nat
  <2> HIDE DEF cs
  <2>1. QED
    BY <1>4
<1>8. QED
  BY <1>1, <1>2, <1>5, <1>6, <1>7

LEMMA RingOfDocument ==
  ASSUME NEW d \in Documents, NEW r \in DOMAIN d.rings
  PROVE  /\ VerticesOf(d, r) \in Seq(RingPlaces(d, r))
         /\ Len(VerticesOf(d, r)) = Len(d.rings[r].points)
         /\ RingPlaces(d, r) \subseteq SUBSET PlacesOf(d)
         /\ \A v \in RingPlaces(d, r) : \E k \in DOMAIN d.rings[r].points :
              /\ v = {Place(r, k)}
              /\ PointOf(d, v) = d.rings[r].points[k]
<1> DEFINE n == Len(d.rings[r].points)
<1>1. n \in Nat /\ DOMAIN d.rings[r].points = 1..n
  BY DocumentFacts
<1>2. VerticesOf(d, r) = [k \in 1..n |-> {Place(r, k)}]
  BY <1>1 DEF VerticesOf
<1>3. \A k \in 1..n : {Place(r, k)} \in RingPlaces(d, r)
  BY <1>1 DEF RingPlaces
<1>4. VerticesOf(d, r) \in [1..n -> RingPlaces(d, r)]
  <2> HIDE DEF n
  <2>1. QED
    BY <1>2, <1>3
<1>5. VerticesOf(d, r) \in Seq(RingPlaces(d, r)) /\ Len(VerticesOf(d, r)) = n
  <2> HIDE DEF n
  <2>1. QED
    BY <1>1, <1>4
<1>6. RingPlaces(d, r) \subseteq SUBSET PlacesOf(d)
  BY DEF RingPlaces, PlacesOf
<1>7. ASSUME NEW k \in DOMAIN d.rings[r].points
      PROVE  PointOf(d, {Place(r, k)}) = d.rings[r].points[k]
  <2> DEFINE p == CHOOSE p \in {Place(r, k)} : TRUE
  <2>1. p = Place(r, k)
    OBVIOUS
  <2>2. Place(r, k).ring = r /\ Place(r, k).at = k
    BY DEF Place
  <2>3. PointOf(d, {Place(r, k)}) = d.rings[p.ring].points[p.at]
    BY DEF PointOf
  <2> HIDE DEF p
  <2>4. QED
    BY <2>1, <2>2, <2>3
<1>8. QED
  BY <1>5, <1>6, <1>7 DEF RingPlaces

LEMMA ListsOfDocument ==
  ASSUME NEW d \in Documents
  PROVE  /\ ParsedCoordinates(d) \in
              [DOMAIN d.coordinates -> Seq(SUBSET TexturePlacesOf(d))]
         /\ \A c \in DOMAIN d.coordinates :
              ParsedCoordinates(d)[c] =
                [k \in 1..d.coordinates[c].length |-> {Place(d.coordinates[c].ring, k)}]
<1>1. ASSUME NEW c \in DOMAIN d.coordinates
      PROVE  [k \in 1..d.coordinates[c].length |-> {Place(d.coordinates[c].ring, k)}] \in
               Seq(SUBSET TexturePlacesOf(d))
  <2> DEFINE n == d.coordinates[c].length
             W == SUBSET TexturePlacesOf(d)
             s == [k \in 1..n |-> {Place(d.coordinates[c].ring, k)}]
  <2>1. n \in Nat
    BY DocumentFacts
  <2>2. \A k \in 1..n : {Place(d.coordinates[c].ring, k)} \in W
    BY DEF TexturePlacesOf
  <2>3. s \in [1..n -> W]
    <3> HIDE DEF n, W
    <3>1. QED
      BY <2>2
  <2> HIDE DEF n, W, s
  <2>4. s \in Seq(W)
    BY <2>1, <2>3
  <2>5. QED
    BY <2>4 DEF n, W, s
<1>2. QED
  BY <1>1 DEF ParsedCoordinates

-----------------------------------------------------------------------------
(* The removal of duplicate vertices.                                      *)

Loops(d, r) == [i : Nat \ {0},
                vertices : Seq(RingPlaces(d, r)),
                lists : [ListsOf(d, r) -> Seq(SUBSET TexturePlacesOf(d))]]

Start(d, r) == [i |-> 1, vertices |-> VerticesOf(d, r),
                lists |-> [c \in ListsOf(d, r) |-> ParsedCoordinates(d)[c]]]

Ended(ring) == ring.i > Len(ring.vertices) \/ Len(ring.vertices) <= 2

Same(d, ring) ==
  PointOf(d, ring.vertices[ring.i]) =
    PointOf(d, ring.vertices[(ring.i % Len(ring.vertices)) + 1])

(* The rounds of the loop.                                                 *)
LEMMA Rounds ==
  ASSUME NEW d, NEW ring
  PROVE  /\ Ended(ring) => RemoveNext(d, ring) = ring
         /\ ~Ended(ring) /\ Same(d, ring) => RemoveNext(d, ring) = Erased(ring)
         /\ ~Ended(ring) /\ ~Same(d, ring) => RemoveNext(d, ring) = [ring EXCEPT !.i = ring.i + 1]
  BY DEF RemoveNext, Ended, Same

LEMMA EraseType ==
  ASSUME NEW W, NEW list \in Seq(W), NEW i \in Nat \ {0}
  PROVE  eraseCoordinate(list, i) \in Seq(W)
<1>1. CASE i <= Len(list)
  <2>1. i \in 1..Len(list)
    BY <1>1, LenProperties
  <2>2. RemoveAt(list, i) \in Seq(W)
    BY <2>1, RemoveAtFacts
  <2>3. QED
    BY <1>1, <2>2 DEF eraseCoordinate
<1>2. CASE ~(i <= Len(list))
  BY <1>2 DEF eraseCoordinate
<1>3. QED
  BY <1>1, <1>2

LEMMA RoundType ==
  ASSUME NEW d \in Documents, NEW r \in DOMAIN d.rings, NEW ring \in Loops(d, r)
  PROVE  RemoveNext(d, ring) \in Loops(d, r)
<1> DEFINE L == ListsOf(d, r)
           W == SUBSET TexturePlacesOf(d)
           V == RingPlaces(d, r)
           vs == ring.vertices
           lists == ring.lists
           i == ring.i
<1>1. i \in Nat \ {0} /\ vs \in Seq(V) /\ lists \in [L -> Seq(W)]
  BY DEF Loops
<1>2. ring = [i |-> i, vertices |-> vs, lists |-> lists]
  BY DEF Loops
<1>3. \A a \in Nat \ {0}, b \in Seq(V), l \in [L -> Seq(W)] :
        [i |-> a, vertices |-> b, lists |-> l] \in Loops(d, r)
  BY DEF Loops
<1>4. CASE Ended(ring)
  BY <1>4, Rounds
<1>5. CASE ~Ended(ring) /\ Same(d, ring)
  <2>1. i \in 1..Len(vs)
    <3>1. Len(vs) \in Nat /\ i <= Len(vs)
      BY <1>1, <1>5, LenProperties DEF Ended
    <3> HIDE DEF i, vs
    <3>2. QED
      BY <1>1, <3>1
  <2>2. RemoveAt(vs, i) \in Seq(V)
    <3> HIDE DEF i, vs, V
    <3>1. QED
      BY <1>1, <2>1, RemoveAtFacts
  <2>3. [c \in DOMAIN lists |-> eraseCoordinate(lists[c], i)] \in [L -> Seq(W)]
    <3> HIDE DEF i, lists, L, W
    <3>1. \A c \in L : eraseCoordinate(lists[c], i) \in Seq(W)
      BY <1>1, EraseType
    <3>2. QED
      BY <1>1, <3>1
  <2>4. RemoveNext(d, ring) =
          [i |-> i, vertices |-> RemoveAt(vs, i),
           lists |-> [c \in DOMAIN lists |-> eraseCoordinate(lists[c], i)]]
    BY <1>5, Rounds DEF Erased
  <2> HIDE DEF i, vs, lists, V, L, W
  <2>5. QED
    BY <1>1, <1>3, <2>2, <2>3, <2>4
<1>6. CASE ~Ended(ring) /\ ~Same(d, ring)
  <2>1. RemoveNext(d, ring) = [i |-> i + 1, vertices |-> vs, lists |-> lists]
    <3>1. RemoveNext(d, ring) = [ring EXCEPT !.i = i + 1]
      BY <1>6, Rounds
    <3> HIDE DEF i, vs, lists
    <3>2. QED
      BY <1>2, <3>1
  <2> HIDE DEF i, vs, lists, V, L, W
  <2>2. i + 1 \in Nat \ {0}
    BY <1>1
  <2>3. QED
    BY <1>1, <1>3, <2>1, <2>2
<1>7. QED
  BY <1>4, <1>5, <1>6

LEMMA StartType ==
  ASSUME NEW d \in Documents, NEW r \in DOMAIN d.rings
  PROVE  Start(d, r) \in Loops(d, r)
<1> DEFINE L == ListsOf(d, r)
           W == SUBSET TexturePlacesOf(d)
           V == RingPlaces(d, r)
           vs == VerticesOf(d, r)
           lists == [c \in L |-> ParsedCoordinates(d)[c]]
<1>1. vs \in Seq(V)
  BY RingOfDocument
<1>2. lists \in [L -> Seq(W)]
  <2>1. \A c \in L : ParsedCoordinates(d)[c] \in Seq(W)
    BY ListsOfDocument DEF ListsOf
  <2> HIDE DEF L, W
  <2>2. QED
    BY <2>1
<1>3. Start(d, r) = [i |-> 1, vertices |-> vs, lists |-> lists]
  BY DEF Start
<1> HIDE DEF L, W, V, vs, lists
<1>4. [i |-> 1, vertices |-> vs, lists |-> lists] \in
        [i : Nat \ {0}, vertices : Seq(V), lists : [L -> Seq(W)]]
  BY <1>1, <1>2
<1>5. QED
  BY <1>3, <1>4 DEF Loops, L, W, V

LEMMA CleanedFold ==
  ASSUME NEW d \in Documents, NEW r \in DOMAIN d.rings
  PROVE  \E f \in [0..Len(d.rings[r].points) -> Loops(d, r)] :
           /\ f[0] = Start(d, r)
           /\ \A k \in 1..Len(d.rings[r].points) : f[k] = RemoveNext(d, f[k - 1])
           /\ Cleaned(d, r) = f[Len(d.rings[r].points)]
<1> DEFINE seq == d.rings[r].points
           n == Len(seq)
           T == Loops(d, r)
           b == Start(d, r)
           g == [p \in (1..n) \X T |-> RemoveNext(d, p[2])]
           Is(it) == it = [s \in SUBSET DOMAIN seq |->
                             IF s = {} THEN b ELSE RemoveNext(d, it[s \ {Max(s)}])]
           it0 == CHOOSE it : Is(it)
<1>1. n \in Nat /\ DOMAIN seq = 1..n
  BY DocumentFacts
<1>2. b \in T
  BY StartType
<1>3. g \in [(1..n) \X T -> T]
  <2>1. \A p \in (1..n) \X T : RemoveNext(d, p[2]) \in T
    <3>1. \A t \in T : RemoveNext(d, t) \in T
      BY RoundType
    <3> HIDE DEF n, T
    <3>2. QED
      BY <3>1
  <2> HIDE DEF n, T
  <2>2. QED
    BY <2>1
<1>4. \A k \in 1..n, t \in T : g[<<k, t>>] = RemoveNext(d, t)
  <2> HIDE DEF n, T
  <2>1. QED
    OBVIOUS
<1>5. Cleaned(d, r) = it0[1..n]
  <2>1. Cleaned(d, r) = it0[DOMAIN seq]
    BY Zenon DEF Cleaned, FoldLeft, MapThenFoldSet, Start, ListsOf
  <2>2. QED
    BY <1>1, <2>1
<1> HIDE DEF n, seq, T, b, g
<1>6. \A s \in SUBSET (1..n) : s # {} => Max(s) \in 1..n /\ s \ {Max(s)} \in SUBSET (1..n)
  BY <1>1, MaxExists
<1>7. Is(it0)
  <2>1. PICK it \in [SUBSET (1..n) -> T] : Folds(it, b, g, 1..n)
    BY <1>1, <1>2, <1>3, FoldExists DEF HasFold
  <2>2. ASSUME NEW s \in SUBSET (1..n)
        PROVE  it[s] = IF s = {} THEN b ELSE RemoveNext(d, it[s \ {Max(s)}])
    BY <1>4, <1>6, <2>1 DEF Folds
  <2>3. Is(it)
    BY <1>1, <2>1, <2>2, Zenon
  <2>4. QED
    BY <2>3
<1> HIDE DEF it0
<1>8. FoldsIn(T, it0, b, g, 1..n)
  <2>1. \A s \in SUBSET (1..n) : it0[s] = IF s = {} THEN b ELSE RemoveNext(d, it0[s \ {Max(s)}])
    BY <1>1, <1>7
  <2>2. QED
    BY <1>4, <1>6, <2>1 DEF FoldsIn
<1>9. PICK f \in [0..n -> T] :
        f[0] = b /\ (\A k \in 1..n : f[k] = g[<<k, f[k - 1]>>]) /\ f[n] = it0[1..n]
  <2>1. HasSteps(T, it0, b, g, n)
    BY <1>1, <1>2, <1>3, <1>8, FoldSteps
  <2>2. QED
    BY <2>1 DEF HasSteps
<1>10. \A k \in 1..n : f[k] = RemoveNext(d, f[k - 1])
  <2>1. \A k \in 1..n : f[k - 1] \in T
    BY <1>1
  <2>2. QED
    BY <1>4, <1>9, <2>1
<1>11. QED
  BY <1>5, <1>9, <1>10 DEF n, seq, T, b

(* What the loop keeps, after k rounds: it has gone on or removed a vertex *)
(* k times or has come to its end; the vertices that are left are those of *)
(* the ring in their order; every point is among them; no vertex behind    *)
(* the loop equals the one after it; and a list of texture coordinates     *)
(* that matched the ring still does.                                       *)
AtOf(v) == LET p == CHOOSE p \in v : TRUE IN p.at

InOrder(vs) == \A j \in DOMAIN vs : j > 1 => AtOf(vs[j - 1]) < AtOf(vs[j])
PointsOf(d, vs) == {PointOf(d, vs[j]) : j \in DOMAIN vs}
NoneBehind(d, ring) ==
  Len(ring.vertices) > 2 =>
    \A j \in 1..(ring.i - 1) :
      PointOf(d, ring.vertices[j]) # PointOf(d, ring.vertices[(j % Len(ring.vertices)) + 1])
ListsMatch(d, r, ring) ==
  \A c \in ListsOf(d, r) : Matches(d, c) => ring.lists[c] = ring.vertices
Progress(n, k, ring) == Ended(ring) \/ ring.i - 1 + (n - Len(ring.vertices)) = k

LoopInv(d, r, k, ring) ==
  /\ ring.i <= Len(ring.vertices) + 1
  /\ Progress(Len(d.rings[r].points), k, ring)
  /\ InOrder(ring.vertices)
  /\ PointsOf(d, ring.vertices) = Range(d.rings[r].points)
  /\ NoneBehind(d, ring)
  /\ ListsMatch(d, r, ring)

LEMMA AtOfPlace ==
  ASSUME NEW r, NEW k
  PROVE  AtOf({Place(r, k)}) = k
<1> DEFINE p == CHOOSE p \in {Place(r, k)} : TRUE
<1>1. p = Place(r, k)
  OBVIOUS
<1>2. AtOf({Place(r, k)}) = p.at
  BY DEF AtOf
<1> HIDE DEF p
<1>3. QED
  BY <1>1, <1>2 DEF Place

LEMMA LoopStarts ==
  ASSUME NEW d \in Documents, NEW r \in DOMAIN d.rings
  PROVE  LoopInv(d, r, 0, Start(d, r))
<1> DEFINE n == Len(d.rings[r].points)
           vs == VerticesOf(d, r)
           ring == Start(d, r)
<1>1. n \in Nat /\ DOMAIN d.rings[r].points = 1..n /\ Len(vs) = n /\ DOMAIN vs = 1..n
      /\ \A k \in 1..n : vs[k] = {Place(r, k)}
  <2>1. n \in Nat /\ DOMAIN d.rings[r].points = 1..n
    BY DocumentFacts
  <2>2. vs = [k \in 1..n |-> {Place(r, k)}]
    BY <2>1 DEF VerticesOf
  <2>3. Len(vs) = n
    BY RingOfDocument
  <2>4. QED
    BY <2>1, <2>2, <2>3
<1>2. ring.i = 1 /\ ring.vertices = vs /\ \A c \in ListsOf(d, r) : ring.lists[c] = ParsedCoordinates(d)[c]
  BY DEF Start
<1>3. \A k \in 1..n : AtOf(vs[k]) = k /\ PointOf(d, vs[k]) = d.rings[r].points[k]
  <2>1. \A k \in 1..n : AtOf({Place(r, k)}) = k
    BY AtOfPlace
  <2>2. ASSUME NEW k \in 1..n
        PROVE  PointOf(d, {Place(r, k)}) = d.rings[r].points[k]
    <3>1. {Place(r, k)} \in RingPlaces(d, r)
      BY <1>1 DEF RingPlaces
    <3>2. PICK l \in DOMAIN d.rings[r].points :
            {Place(r, k)} = {Place(r, l)} /\ PointOf(d, {Place(r, k)}) = d.rings[r].points[l]
      BY <3>1, RingOfDocument
    <3>3. Place(r, k) = Place(r, l)
      BY <3>2
    <3>4. k = l
      BY <3>3 DEF Place
    <3>5. QED
      BY <3>2, <3>4
  <2>3. QED
    BY <1>1, <2>1, <2>2
<1> HIDE DEF n, vs, ring
<1>4. InOrder(ring.vertices)
  <2>1. \A j \in 1..n : j > 1 => j - 1 \in 1..n /\ j - 1 < j
    BY <1>1
  <2>2. QED
    BY <1>1, <1>2, <1>3, <2>1 DEF InOrder
<1>5. PointsOf(d, ring.vertices) = Range(d.rings[r].points)
  BY <1>1, <1>2, <1>3 DEF PointsOf, Range
<1>6. NoneBehind(d, ring)
  BY <1>2 DEF NoneBehind
<1>7. ListsMatch(d, r, ring)
  <2>1. ASSUME NEW c \in ListsOf(d, r), Matches(d, c)
        PROVE  ParsedCoordinates(d)[c] = vs
    <3>1. d.coordinates[c].length = n /\ d.coordinates[c].ring = r /\ c \in DOMAIN d.coordinates
      BY <2>1 DEF Matches, ListsOf, n
    <3>2. ParsedCoordinates(d)[c] = [k \in 1..n |-> {Place(r, k)}]
      <4>1. ParsedCoordinates(d)[c] =
              [k \in 1..d.coordinates[c].length |-> {Place(d.coordinates[c].ring, k)}]
        BY <3>1, ListsOfDocument
      <4>2. QED
        BY <3>1, <4>1
    <3>3. vs = [k \in 1..n |-> {Place(r, k)}]
      BY <1>1 DEF VerticesOf, vs
    <3>4. QED
      BY <3>2, <3>3
  <2>2. QED
    BY <1>2, <2>1 DEF ListsMatch
<1>8. ring.i <= Len(ring.vertices) + 1 /\ Progress(n, 0, ring)
  BY <1>1, <1>2 DEF Progress
<1>9. QED
  BY <1>4, <1>5, <1>6, <1>7, <1>8 DEF LoopInv, n, ring

(* The vertex after the i-th.                                              *)
LEMMA NextVertex ==
  ASSUME NEW n \in Nat, NEW i \in 1..n
  PROVE  (i % n) + 1 = IF i < n THEN i + 1 ELSE 1
  OBVIOUS

(* One round.                                                              *)
LEMMA LoopGoesOn ==
  ASSUME NEW d \in Documents, NEW r \in DOMAIN d.rings, NEW k \in Nat,
         NEW ring \in Loops(d, r), LoopInv(d, r, k, ring)
  PROVE  LoopInv(d, r, k + 1, RemoveNext(d, ring))
<1> DEFINE n == Len(d.rings[r].points)
           V == RingPlaces(d, r)
           vs == ring.vertices
           m == Len(vs)
           i == ring.i
           next == RemoveNext(d, ring)
           after == (i % m) + 1
<1>1. /\ i \in Nat \ {0} /\ vs \in Seq(V) /\ m \in Nat /\ DOMAIN vs = 1..m
      /\ n \in Nat
  <2>1. i \in Nat \ {0} /\ vs \in Seq(V)
    BY DEF Loops
  <2>2. QED
    BY <2>1, LenProperties, DocumentFacts
<1>2. /\ i <= m + 1
      /\ Ended(ring) \/ i - 1 + (n - m) = k
      /\ InOrder(vs)
      /\ PointsOf(d, vs) = Range(d.rings[r].points)
      /\ m > 2 => \A j \in 1..(i - 1) : PointOf(d, vs[j]) # PointOf(d, vs[(j % m) + 1])
      /\ \A c \in ListsOf(d, r) : Matches(d, c) => ring.lists[c] = vs
  BY DEF LoopInv, Progress, NoneBehind, ListsMatch
<1>3. CASE Ended(ring)
  <2>1. next = ring
    BY <1>3, Rounds
  <2>2. Progress(n, k + 1, ring)
    BY <1>3 DEF Progress
  <2>3. QED
    BY <2>1, <2>2 DEF LoopInv
<1>4. CASE ~Ended(ring) /\ ~Same(d, ring)
  <2>1. next = [ring EXCEPT !.i = i + 1]
    BY <1>4, Rounds
  <2>2. next.i = i + 1 /\ next.vertices = vs /\ next.lists = ring.lists
    BY <2>1 DEF Loops
  <2>3. i <= m /\ m > 2
    BY <1>1, <1>4 DEF Ended
  <2>4. PointOf(d, vs[i]) # PointOf(d, vs[(i % m) + 1])
    BY <1>4 DEF Same
  <2> HIDE DEF i, vs, m, n, next
  <2>5. Progress(n, k + 1, next)
    <3>1. i - 1 + (n - m) = k
      BY <1>2, <1>4
    <3>2. next.i - 1 + (n - Len(next.vertices)) = k + 1
      BY <1>1, <2>2, <3>1, SMTT(60) DEF m
    <3>3. QED
      BY <3>2 DEF Progress
  <2>6. NoneBehind(d, next)
    <3>1. \A j \in 1..(next.i - 1) : j \in 1..(i - 1) \/ j = i
      BY <1>1, <2>2
    <3>2. \A j \in 1..(next.i - 1) : PointOf(d, vs[j]) # PointOf(d, vs[(j % m) + 1])
      BY <1>2, <2>3, <2>4, <3>1
    <3>3. QED
      BY <2>2, <3>2 DEF NoneBehind, m
  <2>7. ListsMatch(d, r, next)
    BY <1>2, <2>2 DEF ListsMatch
  <2>8. next.i <= Len(next.vertices) + 1
    BY <1>1, <2>2, <2>3 DEF m
  <2>9. QED
    BY <1>2, <2>2, <2>5, <2>6, <2>7, <2>8 DEF LoopInv, n, next
<1>5. CASE ~Ended(ring) /\ Same(d, ring)
  <2> DEFINE ws == RemoveAt(vs, i)
  <2>1. next.i = i /\ next.vertices = ws
        /\ \A c \in DOMAIN ring.lists : next.lists[c] = eraseCoordinate(ring.lists[c], i)
    BY <1>5, Rounds DEF Erased
  <2>2. i \in 1..m /\ m > 2 /\ i - 1 + (n - m) = k
    <3>1. ~(i > m) /\ ~(m <= 2)
      BY <1>5 DEF Ended
    <3> HIDE DEF i, m, n
    <3>2. QED
      BY <1>1, <1>2, <1>5, <3>1
  <2>3. PointOf(d, vs[i]) = PointOf(d, vs[after])
    BY <1>5 DEF Same
  <2>4. after = IF i < m THEN i + 1 ELSE 1
    <3> HIDE DEF i, m
    <3>1. QED
      BY <1>1, <2>2, NextVertex
  <2> HIDE DEF i, vs, n, next, after
  <2>5. /\ ws \in Seq(V) /\ Len(ws) = m - 1
        /\ \A j \in 1..(m - 1) : ws[j] = IF j < i THEN vs[j] ELSE vs[j + 1]
    BY <1>1, <2>2, RemoveAtFacts, ZenonT(60)
  <2>6. DOMAIN ws = 1..(m - 1)
    BY <2>5, LenProperties
  <2> HIDE DEF m, ws
  <2>7. next.i <= Len(next.vertices) + 1
    BY <1>1, <2>1, <2>2, <2>5
  <2>8. Progress(n, k + 1, next)
    <3>1. next.i - 1 + (n - Len(next.vertices)) = k + 1
      BY <1>1, <2>1, <2>2, <2>5
    <3>2. QED
      BY <3>1 DEF Progress
  <2>9. InOrder(next.vertices)
    <3>1. \A j \in 1..m : AtOf(vs[j]) \in Nat
      <4>1. ASSUME NEW j \in 1..m
            PROVE  AtOf(vs[j]) \in Nat
        <5>1. vs[j] \in V
          BY <1>1, ElementOfSeq DEF m
        <5>2. PICK l \in DOMAIN d.rings[r].points : vs[j] = {Place(r, l)}
          BY <5>1, RingOfDocument
        <5>3. l \in Nat
          BY <5>2, DocumentFacts
        <5>4. AtOf({Place(r, l)}) = l
          BY AtOfPlace
        <5>5. QED
          BY <5>2, <5>3, <5>4
      <4>2. QED
        BY <4>1
    <3>2. \A j \in 1..m : j > 1 => AtOf(vs[j - 1]) < AtOf(vs[j])
      BY <1>1, <1>2 DEF InOrder
    <3>3. ASSUME NEW j \in 1..(m - 1), j > 1
          PROVE  AtOf(ws[j - 1]) < AtOf(ws[j])
      <4>1. j \in 1..m /\ j - 1 \in 1..m /\ j + 1 \in 1..m /\ j - 1 \in 1..(m - 1)
            /\ j + 1 > 1 /\ (j + 1) - 1 = j /\ (j - 1) + 1 = j
        BY <1>1, <3>3
      <4>2. AtOf(vs[j - 1]) < AtOf(vs[j]) /\ AtOf(vs[j]) < AtOf(vs[j + 1])
        <5>1. AtOf(vs[(j + 1) - 1]) < AtOf(vs[j + 1])
          BY <3>2, <4>1
        <5>2. QED
          BY <3>2, <3>3, <4>1, <5>1
      <4>3. AtOf(vs[j - 1]) < AtOf(vs[j + 1])
        <5>1. AtOf(vs[j - 1]) \in Nat /\ AtOf(vs[j]) \in Nat /\ AtOf(vs[j + 1]) \in Nat
          BY <3>1, <4>1
        <5>2. QED
          BY <4>2, <5>1
      <4>4. ws[j] = IF j < i THEN vs[j] ELSE vs[j + 1]
        BY <2>5
      <4>5. ws[j - 1] = IF j - 1 < i THEN vs[j - 1] ELSE vs[j]
        <5>1. ws[j - 1] = IF j - 1 < i THEN vs[j - 1] ELSE vs[(j - 1) + 1]
          BY <2>5, <4>1
        <5>2. QED
          BY <4>1, <5>1
      <4>6. j < i => j - 1 < i
        BY <1>1, <4>1
      <4>7. QED
        BY <4>2, <4>3, <4>4, <4>5, <4>6
    <3>4. QED
      BY <2>1, <2>6, <3>3 DEF InOrder
  <2>10. PointsOf(d, next.vertices) = Range(d.rings[r].points)
    <3>1. ASSUME NEW j \in 1..(m - 1)
          PROVE  \E l \in 1..m : PointOf(d, ws[j]) = PointOf(d, vs[l])
      <4>1. j \in 1..m /\ j + 1 \in 1..m
        BY <1>1
      <4>2. QED
        BY <2>5, <4>1
    <3>2. ASSUME NEW l \in 1..m
          PROVE  \E j \in 1..(m - 1) : PointOf(d, ws[j]) = PointOf(d, vs[l])
      <4>1. ASSUME NEW q \in 1..m, q # i
            PROVE  \E j \in 1..(m - 1) : ws[j] = vs[q]
        <5>1. CASE q < i
          <6>1. q \in 1..(m - 1)
            BY <1>1, <2>2, <5>1
          <6>2. QED
            BY <2>5, <5>1, <6>1
        <5>2. CASE ~(q < i)
          <6>1. q - 1 \in 1..(m - 1) /\ ~(q - 1 < i) /\ (q - 1) + 1 = q
            BY <1>1, <2>2, <4>1, <5>2
          <6>2. ws[q - 1] = vs[(q - 1) + 1]
            BY <2>5, <6>1
          <6>3. QED
            BY <6>1, <6>2
        <5>3. QED
          BY <5>1, <5>2
      <4>2. CASE l = i
        <5>1. after \in 1..m /\ after # i
          BY <1>1, <2>2, <2>4
        <5>2. PICK j \in 1..(m - 1) : ws[j] = vs[after]
          BY <4>1, <5>1
        <5>3. QED
          BY <2>3, <4>2, <5>2
      <4>3. CASE l # i
        <5>1. PICK j \in 1..(m - 1) : ws[j] = vs[l]
          BY <4>1, <4>3
        <5>2. QED
          BY <5>1
      <4>4. QED
        BY <4>2, <4>3
    <3>3. PointsOf(d, ws) = PointsOf(d, vs)
      BY <1>1, <2>6, <3>1, <3>2 DEF PointsOf
    <3>4. QED
      BY <1>2, <2>1, <3>3
  <2>11. NoneBehind(d, next)
    <3>1. SUFFICES ASSUME m - 1 > 2, NEW j \in 1..(i - 1)
                   PROVE  PointOf(d, ws[j]) # PointOf(d, ws[(j % (m - 1)) + 1])
      BY <2>1, <2>5 DEF NoneBehind
    <3>2. /\ j \in 1..(m - 1) /\ j \in 1..m /\ j < i /\ j < m /\ m - 1 \in Nat
          /\ 1 \in 1..(m - 1) /\ 1 < i
      BY <1>1, <2>2, <3>1
    <3>3. ws[j] = vs[j]
      BY <2>5, <3>2
    <3>4. PointOf(d, vs[j]) # PointOf(d, vs[j + 1])
      <4>1. (j % m) + 1 = j + 1
        BY <1>1, <3>2, NextVertex
      <4>2. QED
        BY <1>2, <2>2, <4>1
    <3>5. (j % (m - 1)) + 1 = IF j < m - 1 THEN j + 1 ELSE 1
      <4> DEFINE q == m - 1
      <4>1. q \in Nat /\ j \in 1..q
        BY <3>2
      <4> HIDE DEF q
      <4>2. (j % q) + 1 = IF j < q THEN j + 1 ELSE 1
        BY <4>1, NextVertex
      <4>3. QED
        BY <4>2 DEF q
    <3>6. CASE j + 1 < i
      <4>1. j + 1 \in 1..(m - 1) /\ j < m - 1
        BY <1>1, <2>2, <3>2, <3>6
      <4>2. ws[j + 1] = vs[j + 1]
        BY <2>5, <3>6, <4>1
      <4>3. QED
        BY <3>3, <3>4, <3>5, <4>1, <4>2
    <3>7. CASE j + 1 = i /\ i < m
      <4>1. j + 1 \in 1..(m - 1) /\ j < m - 1 /\ ~(j + 1 < i)
        BY <1>1, <2>2, <3>2, <3>7
      <4>2. ws[j + 1] = vs[i + 1]
        BY <2>5, <3>7, <4>1
      <4>3. PointOf(d, vs[i]) = PointOf(d, vs[i + 1])
        BY <2>3, <2>4, <3>7
      <4>4. QED
        BY <3>3, <3>4, <3>5, <3>7, <4>1, <4>2, <4>3
    <3>8. CASE j + 1 = i /\ i = m
      <4>1. ~(j < m - 1) /\ ~(i < m)
        BY <1>1, <3>2, <3>8
      <4>2. ws[1] = vs[1]
        BY <2>5, <3>2
      <4>3. PointOf(d, vs[i]) = PointOf(d, vs[1])
        BY <2>3, <2>4, <4>1
      <4>4. QED
        BY <3>3, <3>4, <3>5, <3>8, <4>1, <4>2, <4>3
    <3>9. QED
      BY <1>1, <2>2, <3>2, <3>6, <3>7, <3>8
  <2>12. ListsMatch(d, r, next)
    <3>1. ASSUME NEW c \in ListsOf(d, r), Matches(d, c)
          PROVE  next.lists[c] = ws
      <4>1. ring.lists[c] = vs
        BY <1>2, <3>1
      <4>2. c \in DOMAIN ring.lists
        BY DEF Loops
      <4>3. next.lists[c] = eraseCoordinate(vs, i)
        BY <2>1, <4>1, <4>2
      <4>4. i <= Len(vs)
        BY <2>2 DEF m
      <4>5. QED
        BY <4>3, <4>4 DEF eraseCoordinate, ws
    <3>2. QED
      BY <2>1, <3>1 DEF ListsMatch
  <2>13. QED
    BY <2>7, <2>8, <2>9, <2>10, <2>11, <2>12 DEF LoopInv, n, next
<1>6. QED
  BY <1>3, <1>4, <1>5

(* A ring without its duplicates.                                          *)
LEMMA CleanedRing ==
  ASSUME NEW d \in Documents, NEW r \in DOMAIN d.rings
  PROVE  /\ Cleaned(d, r).vertices \in Seq(RingPlaces(d, r))
         /\ Cleaned(d, r).lists \in [ListsOf(d, r) -> Seq(SUBSET TexturePlacesOf(d))]
         /\ InOrder(Cleaned(d, r).vertices)
         /\ PointsOf(d, Cleaned(d, r).vertices) = Range(d.rings[r].points)
         /\ Len(Cleaned(d, r).vertices) > 2 =>
              \A j \in 1..Len(Cleaned(d, r).vertices) :
                PointOf(d, Cleaned(d, r).vertices[j]) #
                  PointOf(d, Cleaned(d, r).vertices[(j % Len(Cleaned(d, r).vertices)) + 1])
         /\ ListsMatch(d, r, Cleaned(d, r))
<1> DEFINE n == Len(d.rings[r].points)
           ring == Cleaned(d, r)
<1>1. n \in Nat
  BY DocumentFacts
<1>2. PICK f \in [0..n -> Loops(d, r)] :
        /\ f[0] = Start(d, r)
        /\ \A k \in 1..n : f[k] = RemoveNext(d, f[k - 1])
        /\ ring = f[n]
  BY CleanedFold
<1> HIDE DEF n, ring
<1> DEFINE U == {k \in Nat : k <= n => LoopInv(d, r, k, f[k])}
<1>3. 0 \in U
  BY <1>2, LoopStarts
<1>4. ASSUME NEW k \in Nat, k \in U
      PROVE  k + 1 \in U
  <2>1. SUFFICES ASSUME k + 1 <= n
                 PROVE  LoopInv(d, r, k + 1, f[k + 1])
    OBVIOUS
  <2>2. k + 1 \in 1..n /\ k \in 0..n /\ (k + 1) - 1 = k
    BY <1>1, <2>1
  <2>3. f[k] \in Loops(d, r) /\ LoopInv(d, r, k, f[k])
    BY <1>1, <1>4, <2>2
  <2>4. f[k + 1] = RemoveNext(d, f[k])
    <3>1. f[k + 1] = RemoveNext(d, f[(k + 1) - 1])
      BY <1>2, <2>2
    <3>2. QED
      BY <2>2, <3>1
  <2> HIDE DEF U
  <2>5. QED
    BY <2>3, <2>4, LoopGoesOn
<1>5. LoopInv(d, r, n, ring)
  <2>1. \A k \in Nat : k \in U
    <3> HIDE DEF U
    <3>1. QED
      BY <1>3, <1>4, NatInduct
  <2>2. QED
    BY <1>1, <1>2, <2>1
<1>6. ring \in Loops(d, r)
  <2>1. n \in 0..n
    BY <1>1
  <2>2. QED
    BY <1>2, <2>1
<1>7. ring.vertices \in Seq(RingPlaces(d, r)) /\ ring.i \in Nat /\ Len(ring.vertices) \in Nat
      /\ ring.lists \in [ListsOf(d, r) -> Seq(SUBSET TexturePlacesOf(d))]
  <2>1. ring.vertices \in Seq(RingPlaces(d, r)) /\ ring.i \in Nat
        /\ ring.lists \in [ListsOf(d, r) -> Seq(SUBSET TexturePlacesOf(d))]
    BY <1>6 DEF Loops
  <2>2. QED
    BY <2>1, LenProperties
<1>8. Ended(ring)
  <2>1. CASE ring.i - 1 + (n - Len(ring.vertices)) = n
    BY <1>1, <1>7, <2>1 DEF Ended
  <2>2. QED
    BY <1>5, <2>1 DEF LoopInv, Progress, n
<1>9. ASSUME Len(ring.vertices) > 2, NEW j \in 1..Len(ring.vertices)
      PROVE  PointOf(d, ring.vertices[j]) # PointOf(d, ring.vertices[(j % Len(ring.vertices)) + 1])
  <2>1. j \in 1..(ring.i - 1)
    BY <1>7, <1>8, <1>9 DEF Ended
  <2>2. QED
    BY <1>5, <1>9, <2>1 DEF LoopInv, NoneBehind
<1>10. QED
  BY <1>5, <1>7, <1>9 DEF LoopInv, ring

-----------------------------------------------------------------------------
(* The rings and texture coordinates of a polygon.                         *)

RingsOf(d) ==
  {q \in [id : DOMAIN d.rings, vertices : Seq(SUBSET PlacesOf(d))] :
     q.vertices \in Seq(RingPlaces(d, q.id))}

AddedOf(d, r) == [id |-> r, vertices |-> VerticesOf(d, r)]

LEMMA RingType ==
  ASSUME NEW d \in Documents, NEW r \in DOMAIN d.rings, NEW vs \in Seq(RingPlaces(d, r))
  PROVE  [id |-> r, vertices |-> vs] \in RingsOf(d)
<1>1. vs \in Seq(SUBSET PlacesOf(d))
  BY RingOfDocument, SeqMonotonic
<1>2. QED
  BY <1>1 DEF RingsOf

(* addRing keeps rings of the document as they are.                        *)
LEMMA AddedRings ==
  ASSUME NEW d \in Documents
  PROVE  addRings(d) \in Seq({AddedOf(d, r) : r \in DOMAIN d.rings})
<1> DEFINE R == DOMAIN d.rings
           S == {AddedOf(d, r) : r \in R}
           exterior == {r \in R : d.rings[r].exterior}
           first == IF exterior = {} THEN <<>> ELSE <<AddedOf(d, Min(exterior))>>
           rest == [r \in R |-> IF r \in exterior THEN <<>> ELSE <<AddedOf(d, r)>>]
<1>1. Len(d.rings) \in Nat /\ R = 1..Len(d.rings)
  BY DocumentFacts
<1>2. addRings(d) = first \o FlattenSeq(rest)
  BY Zenon DEF addRings, AddedOf
<1>3. first \in Seq(S)
  <2>1. CASE exterior = {}
    BY <2>1, EmptySeq
  <2>2. CASE exterior # {}
    <3>1. exterior \in SUBSET Nat
      BY <1>1
    <3>2. Min(exterior) \in exterior
      <4>1. \E m \in exterior : \A j \in exterior : m <= j
        <5> HIDE DEF exterior
        <5>1. QED
          BY <2>2, <3>1, LeastNumber
      <4>2. QED
        BY <4>1 DEF Min
    <3>3. AddedOf(d, Min(exterior)) \in S
      BY <3>2
    <3> HIDE DEF S, exterior
    <3>4. QED
      BY <2>2, <3>3
  <2>3. QED
    BY <2>1, <2>2
<1>4. rest \in Seq(Seq(S))
  <2>1. ASSUME NEW r \in R
        PROVE  (IF r \in exterior THEN <<>> ELSE <<AddedOf(d, r)>>) \in Seq(S)
    <3>1. AddedOf(d, r) \in S
      OBVIOUS
    <3> HIDE DEF S, exterior, R
    <3>2. QED
      BY <3>1, EmptySeq
  <2>2. rest \in [1..Len(d.rings) -> Seq(S)]
    <3> HIDE DEF S, exterior, R
    <3>1. QED
      BY <1>1, <2>1
  <2> HIDE DEF S, rest, R
  <2>3. QED
    BY <1>1, <2>2
<1> HIDE DEF S, first, rest
<1>5. FlattenSeq(rest) \in Seq(S)
  BY <1>4, FlattenTyped
<1>6. QED
  BY <1>2, <1>3, <1>5, ConcatProperties DEF S, R

LEMMA AddedRing ==
  ASSUME NEW d \in Documents
  PROVE  /\ Len(addRings(d)) \in Nat /\ DOMAIN addRings(d) = 1..Len(addRings(d))
         /\ \A i \in DOMAIN addRings(d) :
              /\ addRings(d)[i].id \in DOMAIN d.rings
              /\ addRings(d)[i].vertices = VerticesOf(d, addRings(d)[i].id)
         /\ addRings(d) \in Seq(RingsOf(d))
<1> DEFINE S == {AddedOf(d, r) : r \in DOMAIN d.rings}
           a == addRings(d)
<1>1. a \in Seq(S)
  BY AddedRings
<1>2. S \subseteq RingsOf(d)
  <2>1. ASSUME NEW r \in DOMAIN d.rings
        PROVE  AddedOf(d, r) \in RingsOf(d)
    BY RingOfDocument, RingType DEF AddedOf
  <2>2. QED
    BY <2>1
<1>3. \A q \in S : q.id \in DOMAIN d.rings /\ q.vertices = VerticesOf(d, q.id)
  BY DEF AddedOf
<1> HIDE DEF S, a
<1>4. Len(a) \in Nat /\ DOMAIN a = 1..Len(a) /\ \A i \in DOMAIN a : a[i] \in S
  BY <1>1, LenProperties, ElementOfSeq
<1>5. a \in Seq(RingsOf(d))
  BY <1>1, <1>2, SeqMonotonic
<1>6. QED
  BY <1>3, <1>4, <1>5 DEF a

(* The rings and coordinates removeDuplicateVertices leaves.               *)
CleanedRings(d) ==
  [i \in DOMAIN addRings(d) |->
     LET r == addRings(d)[i].id IN [id |-> r, vertices |-> Cleaned(d, r).vertices]]

CleanedLists(d) ==
  [c \in DOMAIN d.coordinates |->
     LET r == d.coordinates[c].ring
     IN IF \E i \in DOMAIN addRings(d) : addRings(d)[i].id = r
        THEN Cleaned(d, r).lists[c] ELSE ParsedCoordinates(d)[c]]

LEMMA CleanedRingsType ==
  ASSUME NEW d \in Documents
  PROVE  /\ CleanedRings(d) \in Seq(RingsOf(d))
         /\ Len(CleanedRings(d)) \in Nat
         /\ DOMAIN CleanedRings(d) = 1..Len(CleanedRings(d))
         /\ \A i \in DOMAIN CleanedRings(d) :
              /\ CleanedRings(d)[i].id \in DOMAIN d.rings
              /\ \E j \in DOMAIN addRings(d) : addRings(d)[j].id = CleanedRings(d)[i].id
              /\ CleanedRings(d)[i].vertices = Cleaned(d, CleanedRings(d)[i].id).vertices
<1> DEFINE a == addRings(d)
           n == Len(a)
           q == CleanedRings(d)
           Of(i) == [id |-> a[i].id, vertices |-> Cleaned(d, a[i].id).vertices]
<1>1. n \in Nat /\ DOMAIN a = 1..n /\ \A i \in 1..n : a[i].id \in DOMAIN d.rings
  BY AddedRing
<1>2. q = [i \in 1..n |-> Of(i)]
  BY <1>1, Zenon DEF CleanedRings
<1>3. \A i \in 1..n : Of(i) \in RingsOf(d)
  <2>1. ASSUME NEW i \in 1..n
        PROVE  Of(i) \in RingsOf(d)
    <3>1. Cleaned(d, a[i].id).vertices \in Seq(RingPlaces(d, a[i].id))
      BY <1>1, CleanedRing
    <3>2. QED
      BY <1>1, <3>1, RingType
  <2>2. QED
    BY <2>1
<1>4. q \in [1..n -> RingsOf(d)]
  <2> HIDE DEF n, Of, q
  <2>1. QED
    BY <1>2, <1>3
<1>5. q \in Seq(RingsOf(d)) /\ Len(q) = n /\ DOMAIN q = 1..n
  <2> HIDE DEF n, q
  <2>1. QED
    BY <1>1, <1>4
<1>6. ASSUME NEW i \in 1..n
      PROVE  q[i].id = a[i].id /\ q[i].vertices = Cleaned(d, a[i].id).vertices
  <2>1. q[i] = Of(i)
    <3> HIDE DEF n, Of, q
    <3>1. QED
      BY <1>2
  <2>2. QED
    BY <2>1
<1> HIDE DEF q
<1>7. QED
  BY <1>1, <1>5, <1>6 DEF q

LEMMA CleanedListsType ==
  ASSUME NEW d \in Documents
  PROVE  CleanedLists(d) \in [DOMAIN d.coordinates -> Seq(SUBSET TexturePlacesOf(d))]
<1> DEFINE W == Seq(SUBSET TexturePlacesOf(d))
           Of(c) == LET r == d.coordinates[c].ring
                    IN IF \E i \in DOMAIN addRings(d) : addRings(d)[i].id = r
                       THEN Cleaned(d, r).lists[c] ELSE ParsedCoordinates(d)[c]
<1>1. ASSUME NEW c \in DOMAIN d.coordinates
      PROVE  Of(c) \in W
  <2>1. d.coordinates[c].ring \in DOMAIN d.rings
    BY DocumentFacts
  <2>2. Cleaned(d, d.coordinates[c].ring).lists \in [ListsOf(d, d.coordinates[c].ring) -> W]
    BY <2>1, CleanedRing
  <2>3. c \in ListsOf(d, d.coordinates[c].ring)
    BY DEF ListsOf
  <2>4. Cleaned(d, d.coordinates[c].ring).lists[c] \in W
    <3> HIDE DEF W
    <3>1. QED
      BY <2>2, <2>3
  <2>5. ParsedCoordinates(d)[c] \in W
    BY ListsOfDocument
  <2> HIDE DEF W
  <2>6. QED
    BY <2>4, <2>5
<1>2. CleanedLists(d) = [c \in DOMAIN d.coordinates |-> Of(c)]
  BY Zenon DEF CleanedLists
<1> HIDE DEF W, Of
<1>3. CleanedLists(d) \in [DOMAIN d.coordinates -> W]
  BY <1>1, <1>2
<1>4. QED
  BY <1>3 DEF W

(* A list that matches its ring has the vertices of it, also without the   *)
(* duplicates.                                                             *)
LEMMA CleanedListsMatch ==
  ASSUME NEW d \in Documents, NEW i \in DOMAIN CleanedRings(d), NEW c \in DOMAIN d.coordinates,
         d.coordinates[c].ring = CleanedRings(d)[i].id, Matches(d, c)
  PROVE  CleanedLists(d)[c] = CleanedRings(d)[i].vertices
<1> DEFINE r == d.coordinates[c].ring
<1>1. r \in DOMAIN d.rings /\ (\E j \in DOMAIN addRings(d) : addRings(d)[j].id = r)
      /\ CleanedRings(d)[i].vertices = Cleaned(d, r).vertices
  BY CleanedRingsType
<1>2. CleanedLists(d)[c] = Cleaned(d, r).lists[c]
  BY <1>1 DEF CleanedLists
<1>3. c \in ListsOf(d, r)
  BY DEF ListsOf
<1>4. ListsMatch(d, r, Cleaned(d, r))
  BY <1>1, CleanedRing
<1>5. QED
  BY <1>1, <1>2, <1>3, <1>4 DEF ListsMatch

LEMMA ParsedListsMatch ==
  ASSUME NEW d \in Documents, NEW i \in DOMAIN addRings(d), NEW c \in DOMAIN d.coordinates,
         d.coordinates[c].ring = addRings(d)[i].id, Matches(d, c)
  PROVE  ParsedCoordinates(d)[c] = addRings(d)[i].vertices
<1> DEFINE r == d.coordinates[c].ring
           n == Len(d.rings[r].points)
<1>1. r \in DOMAIN d.rings /\ addRings(d)[i].vertices = VerticesOf(d, r)
  BY AddedRing
<1>2. DOMAIN d.rings[r].points = 1..n
  BY <1>1, DocumentFacts
<1>3. VerticesOf(d, r) = [k \in 1..n |-> {Place(r, k)}]
  BY <1>2 DEF VerticesOf
<1>4. ParsedCoordinates(d)[c] = [k \in 1..n |-> {Place(r, k)}]
  <2>1. ParsedCoordinates(d)[c] = [k \in 1..d.coordinates[c].length |-> {Place(r, k)}]
    BY ListsOfDocument
  <2>2. d.coordinates[c].length = n
    BY DEF Matches
  <2>3. QED
    BY <2>1, <2>2
<1>5. QED
  BY <1>1, <1>3, <1>4

-----------------------------------------------------------------------------
(* The buffers of the tesselator.                                          *)

LEMMA RepeatType ==
  ASSUME NEW W, NEW x \in W, NEW n \in Nat
  PROVE  Repeat(x, n) \in Seq(W) /\ Len(Repeat(x, n)) = n /\ \A i \in 1..n : Repeat(x, n)[i] = x
<1> DEFINE s == [i \in 1..n |-> x]
<1>1. s \in [1..n -> W] /\ \A i \in 1..n : s[i] = x
  OBVIOUS
<1> HIDE DEF s
<1>2. s \in Seq(W) /\ Len(s) = n
  BY <1>1
<1>3. QED
  BY <1>1, <1>2 DEF Repeat, s

LEMMA Joined ==
  ASSUME NEW W, NEW o \in Seq(W), NEW w \in Seq(W)
  PROVE  /\ o \o w \in Seq(W)
         /\ Len(o) \in Nat /\ Len(w) \in Nat
         /\ Len(o \o w) = Len(o) + Len(w)
         /\ \A j \in 1..Len(o) : (o \o w)[j] = o[j]
         /\ \A j \in 1..Len(w) : (o \o w)[Len(o) + j] = w[j]
<1>1. Len(o) \in Nat /\ Len(w) \in Nat
  BY LenProperties
<1>2. /\ o \o w \in Seq(W) /\ Len(o \o w) = Len(o) + Len(w)
      /\ \A i \in 1..(Len(o) + Len(w)) : (o \o w)[i] = IF i <= Len(o) THEN o[i] ELSE w[i - Len(o)]
  BY ConcatProperties
<1> DEFINE c == o \o w
           m == Len(o)
           n == Len(w)
<1>3. m \in Nat /\ n \in Nat /\ Len(c) = m + n
      /\ \A i \in 1..(m + n) : c[i] = IF i <= m THEN o[i] ELSE w[i - m]
  BY <1>1, <1>2
<1> HIDE DEF c, m, n
<1>4. \A j \in 1..m : c[j] = o[j]
  BY <1>3
<1>5. ASSUME NEW j \in 1..n
      PROVE  c[m + j] = w[j]
  <2>1. m + j \in 1..(m + n) /\ ~(m + j <= m) /\ (m + j) - m = j
    BY <1>3
  <2>2. QED
    BY <1>3, <2>1
<1>6. QED
  BY <1>2, <1>3, <1>4, <1>5 DEF c, m, n

LEMMA ResizeFacts ==
  ASSUME NEW W, NEW s \in Seq(W), NEW n \in Nat, Origin \in W
  PROVE  /\ Resize(s, n) \in Seq(W)
         /\ Len(Resize(s, n)) = n
         /\ Len(s) = n => Resize(s, n) = s
         /\ Len(s) = 0 => \A i \in 1..n : Resize(s, n)[i] = Origin
<1>1. Len(s) \in Nat
  BY LenProperties
<1>2. CASE Len(s) >= n
  <2>1. Resize(s, n) = SubSeq(s, 1, n)
    BY <1>2 DEF Resize
  <2>2. \A i \in 1..n : s[i] \in W
    BY <1>1, <1>2, ElementOfSeq
  <2>3. SubSeq(s, 1, n) \in Seq(W) /\ Len(SubSeq(s, 1, n)) = n
    BY <2>2, SubSeqProperties
  <2>4. Len(s) = n => SubSeq(s, 1, n) = s
    BY SubSeqFull
  <2>5. Len(s) = 0 => n = 0
    BY <1>1, <1>2
  <2>6. QED
    BY <2>1, <2>3, <2>4, <2>5
<1>3. CASE ~(Len(s) >= n)
  <2> DEFINE m == n - Len(s)
             f == Repeat(Origin, m)
  <2>1. m \in Nat /\ Len(s) # n
    BY <1>1, <1>3
  <2>2. Resize(s, n) = s \o f
    BY <1>3 DEF Resize
  <2>3. Len(s) + m = n
    BY <1>1
  <2> HIDE DEF m
  <2>4. f \in Seq(W) /\ Len(f) = m /\ \A i \in 1..m : f[i] = Origin
    BY <2>1, RepeatType
  <2> HIDE DEF f
  <2>5. s \o f \in Seq(W) /\ Len(s \o f) = Len(s) + Len(f)
        /\ \A i \in 1..Len(f) : (s \o f)[Len(s) + i] = f[i]
    <3>1. f \in Seq(W)
      BY <2>4
    <3>2. \A p, q \in Seq(W) : /\ p \o q \in Seq(W) /\ Len(p \o q) = Len(p) + Len(q)
                               /\ \A i \in 1..Len(q) : (p \o q)[Len(p) + i] = q[i]
      BY Joined
    <3>3. QED
      BY <3>1, <3>2, Zenon
  <2>6. ASSUME Len(s) = 0, NEW i \in 1..n
        PROVE  (s \o f)[i] = Origin
    <3>1. i \in 1..Len(f) /\ Len(s) + i = i /\ Len(f) = m
      BY <2>1, <2>3, <2>4, <2>6
    <3>2. f[i] = Origin
      BY <2>4, <3>1
    <3>3. (s \o f)[Len(s) + i] = f[i]
      BY <2>5, <3>1
    <3>4. QED
      BY <3>1, <3>2, <3>3
  <2>7. QED
    BY <2>1, <2>2, <2>3, <2>4, <2>5, <2>6
<1>4. QED
  BY <1>2, <1>3

(* The texture coordinates there are for the k-th theme, (0, 0) for each   *)
(* vertex if the list is new.                                              *)
ListBefore(k) ==
  IF k <= Len(texCoordsLists) THEN texCoordsLists[k] ELSE Repeat(Origin, Len(vertices))

ListsFit(size) ==
  /\ (vertices = <<>> /\ texCoordsLists = <<>>) \/ Len(texCoordsLists) = size
  /\ \A k \in DOMAIN texCoordsLists : Len(texCoordsLists[k]) = Len(vertices)

LEMMA ListBeforeType ==
  ASSUME NEW W, Origin \in W, NEW V, vertices \in Seq(V), texCoordsLists \in Seq(Seq(W)),
         NEW size \in Nat, ListsFit(size), NEW k \in 1..size
  PROVE  /\ ListBefore(k) \in Seq(W)
         /\ Len(ListBefore(k)) = Len(vertices)
         /\ \A j \in 1..Len(vertices) : ListBefore(k)[j] = texCoordsLists[k][j]
<1> DEFINE o == ListBefore(k)
<1>1. /\ Len(texCoordsLists) \in Nat /\ DOMAIN texCoordsLists = 1..Len(texCoordsLists)
      /\ Len(vertices) \in Nat
  BY LenProperties
<1>2. CASE k <= Len(texCoordsLists)
  <2>1. k \in DOMAIN texCoordsLists /\ k \in 1..Len(texCoordsLists)
    BY <1>1, <1>2
  <2>2. texCoordsLists[k] \in Seq(W)
    BY <2>1, ElementOfSeq
  <2>3. Len(texCoordsLists[k]) = Len(vertices)
    BY <2>1 DEF ListsFit
  <2>4. ListBefore(k) = texCoordsLists[k]
    BY <1>2 DEF ListBefore
  <2>5. QED
    BY <2>2, <2>3, <2>4
<1>3. CASE ~(k <= Len(texCoordsLists))
  <2>1. Len(texCoordsLists) # size
    <3> DEFINE l == Len(texCoordsLists)
    <3>1. l \in Nat /\ ~(k <= l)
      BY <1>1, <1>3
    <3> HIDE DEF l
    <3>2. l # size
      BY <3>1
    <3>3. QED
      BY <3>2 DEF l
  <2>2. vertices = <<>>
    BY <2>1 DEF ListsFit
  <2>3. Len(vertices) = 0
    BY <2>2
  <2>4. o = Repeat(Origin, Len(vertices))
    BY <1>3 DEF ListBefore
  <2> HIDE DEF o
  <2>5. o \in Seq(W) /\ Len(o) = Len(vertices)
    BY <1>1, <2>4, RepeatType
  <2>6. QED
    BY <2>3, <2>5 DEF o
<1>4. QED
  BY <1>2, <1>3

(* The lists of texture coordinates go on with those of a contour.         *)
AppendedLists(lists, n) == [k \in 1..Len(lists) |-> ListBefore(k) \o Resize(lists[k], n)]

LEMMA AppendedIs ==
  ASSUME NEW W, NEW V, vertices \in Seq(V), texCoordsLists \in Seq(Seq(W)),
         NEW lists \in Seq(Seq(W)), NEW n \in Nat, ListsFit(Len(lists))
  PROVE  AppendedTexCoords(lists, n) = AppendedLists(lists, n)
<1> DEFINE m == Len(lists)
           l == Len(texCoordsLists)
<1>1. m \in Nat /\ l \in Nat
  BY LenProperties
<1>2. l = m \/ l = 0
  BY EmptySeq DEF ListsFit
<1>3. AppendedTexCoords(lists, n)
        = [k \in 1..(IF m > l THEN m ELSE l) |->
             ListBefore(k) \o (IF k <= m THEN Resize(lists[k], n) ELSE Repeat(Origin, n))]
  BY Zenon DEF AppendedTexCoords, ListBefore
<1>4. AppendedLists(lists, n) = [k \in 1..m |-> ListBefore(k) \o Resize(lists[k], n)]
  BY Zenon DEF AppendedLists
<1> HIDE DEF m, l
<1>5. (IF m > l THEN m ELSE l) = m
  BY <1>1, <1>2
<1>6. AppendedTexCoords(lists, n)
        = [k \in 1..m |-> ListBefore(k) \o (IF k <= m THEN Resize(lists[k], n) ELSE Repeat(Origin, n))]
  BY <1>3, <1>5
<1>7. \A k \in 1..m : k <= m
  BY <1>1
<1>8. QED
  BY <1>4, <1>6, <1>7

(* What appending the texture coordinates of a contour needs, and gives.   *)
CanAppend(lists, n, V, W) ==
  /\ Origin \in W
  /\ vertices \in Seq(V)
  /\ texCoordsLists \in Seq(Seq(W))
  /\ lists \in Seq(Seq(W))
  /\ n \in Nat
  /\ ListsFit(Len(lists))

ListsAppended(lists, n, W) ==
  /\ AppendedTexCoords(lists, n) \in Seq(Seq(W))
  /\ Len(AppendedTexCoords(lists, n)) = Len(lists)
  /\ \A k \in 1..Len(lists) :
       /\ Len(AppendedTexCoords(lists, n)[k]) = Len(vertices) + n
       /\ \A j \in 1..Len(vertices) :
            AppendedTexCoords(lists, n)[k][j] = texCoordsLists[k][j]
       /\ \A j \in 1..n :
            AppendedTexCoords(lists, n)[k][Len(vertices) + j] = Resize(lists[k], n)[j]

LEMMA AppendedType ==
  ASSUME NEW lists, NEW n, NEW V, NEW W, CanAppend(lists, n, V, W)
  PROVE  ListsAppended(lists, n, W)
<1>0. /\ Origin \in W /\ vertices \in Seq(V) /\ texCoordsLists \in Seq(Seq(W))
      /\ lists \in Seq(Seq(W)) /\ n \in Nat /\ ListsFit(Len(lists))
  BY DEF CanAppend
<1> USE <1>0
<1> DEFINE a == AppendedTexCoords(lists, n)
           m == Len(lists)
           e(k) == ListBefore(k) \o Resize(lists[k], n)
           v == Len(vertices)
<1>1. m \in Nat /\ DOMAIN lists = 1..m /\ v \in Nat
  BY LenProperties
<1>2. a = [k \in 1..m |-> e(k)]
  BY AppendedIs, Zenon DEF AppendedLists
<1>3. ASSUME NEW k \in 1..m
      PROVE  /\ e(k) \in Seq(W)
             /\ Len(e(k)) = v + n
             /\ \A j \in 1..v : e(k)[j] = texCoordsLists[k][j]
             /\ \A j \in 1..n : e(k)[v + j] = Resize(lists[k], n)[j]
  <2> DEFINE o == ListBefore(k)
             w == Resize(lists[k], n)
  <2>1. o \in Seq(W) /\ Len(o) = v /\ \A j \in 1..v : o[j] = texCoordsLists[k][j]
    BY <1>1, ListBeforeType
  <2>2. w \in Seq(W) /\ Len(w) = n
    <3>1. lists[k] \in Seq(W)
      BY <1>1, ElementOfSeq
    <3>2. QED
      BY <3>1, ResizeFacts
  <2> HIDE DEF o, w, v
  <2>3. /\ o \o w \in Seq(W) /\ Len(o \o w) = Len(o) + Len(w)
        /\ \A j \in 1..Len(o) : (o \o w)[j] = o[j]
        /\ \A j \in 1..Len(w) : (o \o w)[Len(o) + j] = w[j]
    <3>1. o \in Seq(W) /\ w \in Seq(W)
      BY <2>1, <2>2
    <3>2. \A p, q \in Seq(W) : /\ p \o q \in Seq(W) /\ Len(p \o q) = Len(p) + Len(q)
                               /\ \A i \in 1..Len(p) : (p \o q)[i] = p[i]
                               /\ \A i \in 1..Len(q) : (p \o q)[Len(p) + i] = q[i]
      BY Joined
    <3>3. QED
      BY <3>1, <3>2, Zenon
  <2>4. /\ o \o w \in Seq(W) /\ Len(o \o w) = v + n
        /\ \A j \in 1..v : (o \o w)[j] = texCoordsLists[k][j]
        /\ \A j \in 1..n : (o \o w)[v + j] = w[j]
    BY <2>1, <2>2, <2>3
  <2>5. QED
    BY <2>4 DEF o, w
<1> HIDE DEF a, e, m, v
<1>4. a \in [1..m -> Seq(W)]
  BY <1>2, <1>3
<1>5. a \in Seq(Seq(W)) /\ Len(a) = m
  BY <1>1, <1>4
<1>6. \A k \in 1..m : a[k] = e(k)
  BY <1>2
<1>7. /\ a \in Seq(Seq(W))
      /\ Len(a) = m
      /\ \A k \in 1..m : /\ Len(a[k]) = v + n
                         /\ \A j \in 1..v : a[k][j] = texCoordsLists[k][j]
                         /\ \A j \in 1..n : a[k][v + j] = Resize(lists[k], n)[j]
  BY <1>3, <1>5, <1>6, SMTT(60)
<1>8. QED
  BY <1>7, Zenon DEF ListsAppended, a, m, v

-----------------------------------------------------------------------------
(* The inductive invariant: the types, buffers that fit together, and what *)
(* is empty in a phase.                                                    *)

Primitives == {p \in [mode : {Triangles, Fan, Strip}, indices : Seq(Nat)] : Len(p.indices) >= 3}

TesselatorTyped(V, W) ==
  /\ vertices \in Seq(V)
  /\ indices \in Seq(Nat)
  /\ curMode \in {"none", Triangles, Fan, Strip}
  /\ texCoordsLists \in Seq(Seq(W))
  /\ contourQueue \in Seq([index : Nat, length : Nat])
  /\ primitives \in Seq(Primitives)

PolygonTyped ==
  /\ rings \in Seq(RingsOf(document))
  /\ nextRing \in 1..(Len(rings) + 1)
  /\ optimize \in BOOLEAN /\ keepVertices \in BOOLEAN
  /\ polygons \in 0..MaxPolygons
  /\ phase \in {"idle", "contours", "glu", "primitive", "emitted"}
  /\ phase # "idle" =>
       /\ document \in Documents
       /\ coordinates \in [DOMAIN document.coordinates -> Seq(SUBSET TexturePlacesOf(document))]

IndicesParallel ==
  /\ Len(indices) = Len(vertices)
  /\ \A i \in DOMAIN indices : indices[i] = i - 1

QueueWithin ==
  \A c \in DOMAIN contourQueue :
    contourQueue[c].length < 3 \/ contourQueue[c].index + contourQueue[c].length <= Len(vertices)

KnownWithin ==
  /\ known \subseteq 0..(Len(vertices) - 1)
  /\ curIndices \in Seq(known)
  /\ outIndices \in Seq(known)

PhaseInv ==
  /\ phase = "contours" => known = {} /\ curIndices = <<>> /\ outIndices = <<>>
  /\ phase # "contours" => contourQueue = <<>>
  /\ phase = "primitive" => curMode # "none"

BufferInv ==
  /\ TesselatorTyped(SUBSET Places, SUBSET TexturePlacesOf(document))
  /\ PolygonTyped
  /\ IndicesParallel
  /\ ListsFit(Len(document.themes))
  /\ QueueWithin
  /\ KnownWithin
  /\ PhaseInv

LEMMA BuffersInit == Init => BufferInv
<1> SUFFICES ASSUME Init
             PROVE  BufferInv
  OBVIOUS
<1> USE DEF Init, TesselatorInit
<1>1. TesselatorTyped(SUBSET Places, SUBSET TexturePlacesOf(document))
  BY DEF TesselatorTyped
<1>2. PolygonTyped
  BY MaxPolygonsAssumption DEF PolygonTyped
<1>3. IndicesParallel /\ QueueWithin /\ PhaseInv
  BY DEF IndicesParallel, QueueWithin, PhaseInv
<1>4. ListsFit(Len(document.themes))
  BY DEF ListsFit
<1>5. KnownWithin
  BY DEF KnownWithin
<1>6. QED
  BY <1>1, <1>2, <1>3, <1>4, <1>5 DEF BufferInv

(* The rings and coordinates a polygon starts with.                        *)
LEMMA RingsOfPolygon ==
  ASSUME NEW d \in Documents, Finish(d)
  PROVE  /\ rings' \in Seq(RingsOf(d))
         /\ coordinates' \in [DOMAIN d.coordinates -> Seq(SUBSET TexturePlacesOf(d))]
         /\ optimize => rings' = CleanedRings(d) /\ coordinates' = CleanedLists(d)
         /\ ~optimize => rings' = addRings(d) /\ coordinates' = ParsedCoordinates(d)
<1>1. CASE optimize
  <2>1. rings' = CleanedRings(d) /\ coordinates' = CleanedLists(d)
    BY <1>1, Zenon DEF Finish, removeDuplicateVertices, CleanedRings, CleanedLists
  <2>2. QED
    BY <1>1, <2>1, CleanedRingsType, CleanedListsType
<1>2. CASE ~optimize
  <2>1. rings' = addRings(d) /\ coordinates' = ParsedCoordinates(d)
    BY <1>2 DEF Finish
  <2>2. QED
    BY <1>2, <2>1, AddedRing, ListsOfDocument
<1>3. QED
  BY <1>1, <1>2

LEMMA FinishBuffers ==
  ASSUME BufferInv, NEW d \in Documents, Finish(d)
  PROVE  BufferInv'
<1>1. document' = d /\ phase = "idle" /\ phase' = "contours" /\ nextRing' = 1 /\ polygons < MaxPolygons
      /\ polygons' = polygons + 1 /\ UNCHANGED <<optimize, keepVertices>> /\ init
  BY DEF Finish
<1>2. TesselatorTyped(SUBSET Places, SUBSET TexturePlacesOf(document))'
  BY <1>1 DEF BufferInv, TesselatorTyped, init
<1>3. PolygonTyped'
  <2>1. rings' \in Seq(RingsOf(document'))
        /\ coordinates' \in [DOMAIN document'.coordinates -> Seq(SUBSET TexturePlacesOf(document'))]
    BY <1>1, RingsOfPolygon
  <2>2. Len(rings') \in Nat
    BY <2>1, LenProperties
  <2>3. polygons' \in 0..MaxPolygons
    BY <1>1, MaxPolygonsAssumption DEF BufferInv, PolygonTyped
  <2>4. nextRing' \in 1..(Len(rings') + 1)
    BY <1>1, <2>2
  <2>5. optimize' \in BOOLEAN /\ keepVertices' \in BOOLEAN
    BY <1>1 DEF BufferInv, PolygonTyped
  <2>6. QED
    BY <1>1, <2>1, <2>3, <2>4, <2>5 DEF PolygonTyped
<1>4. IndicesParallel' /\ ListsFit(Len(document.themes))' /\ KnownWithin'
  BY <1>1 DEF IndicesParallel, ListsFit, KnownWithin, init
<1>5. contourQueue' = <<>>
  BY <1>1 DEF init, BufferInv, PhaseInv
<1>6. QueueWithin' /\ PhaseInv'
  BY <1>1, <1>5 DEF QueueWithin, PhaseInv, init
<1>7. QED
  BY <1>2, <1>3, <1>4, <1>6 DEF BufferInv

(* The last list of texture coordinates for a ring and theme.              *)
LEMMA TexCoordsOfRing ==
  ASSUME document \in Documents, NEW W,
         coordinates \in [DOMAIN document.coordinates -> Seq(W)],
         NEW ring, NEW definition
  PROVE  /\ TexCoordsForRing(ring, definition) \in Seq(W)
         /\ \/ /\ TexCoordsForRing(ring, definition) = <<>>
               /\ ~\E c \in DOMAIN document.coordinates : /\ document.coordinates[c].of = definition
                                                          /\ document.coordinates[c].ring = ring
            \/ \E c \in DOMAIN document.coordinates :
                 /\ document.coordinates[c].of = definition
                 /\ document.coordinates[c].ring = ring
                 /\ TexCoordsForRing(ring, definition) = coordinates[c]
<1> DEFINE lists == {c \in DOMAIN document.coordinates : /\ document.coordinates[c].of = definition
                                                         /\ document.coordinates[c].ring = ring}
           l == TexCoordsForRing(ring, definition)
<1>1. l = IF lists = {} THEN <<>> ELSE coordinates[Max(lists)]
  BY Zenon DEF TexCoordsForRing
<1>2. CASE lists = {}
  <2>1. l = <<>>
    BY <1>1, <1>2
  <2>2. l \in Seq(W)
    BY <2>1
  <2>3. QED
    BY <1>2, <2>1, <2>2
<1>3. CASE lists # {}
  <2>1. Len(document.coordinates) \in Nat /\ DOMAIN document.coordinates = 1..Len(document.coordinates)
    BY DocumentFacts
  <2>2. lists \in SUBSET (1..Len(document.coordinates))
    BY <2>1
  <2> HIDE DEF lists
  <2>3. Max(lists) \in lists
    BY <1>3, <2>1, <2>2, MaxExists
  <2>4. l = coordinates[Max(lists)]
    BY <1>1, <1>3
  <2> HIDE DEF l
  <2> DEFINE x == Max(lists)
  <2>5. x \in DOMAIN document.coordinates /\ document.coordinates[x].of = definition
        /\ document.coordinates[x].ring = ring /\ l = coordinates[x]
    BY <2>3, <2>4 DEF lists
  <2> HIDE DEF x
  <2>6. coordinates[x] \in Seq(W)
    BY <2>5
  <2>7. QED
    BY <2>5, <2>6 DEF l
<1>4. QED
  BY <1>2, <1>3

(* What AddContour hands to the tesselator for a ring.                     *)
ListsForRing(ring) ==
  [t \in DOMAIN document.themes |-> TexCoordsForRing(ring.id, document.themes[t])]

LEMMA ListsForRingType ==
  ASSUME document \in Documents, NEW W,
         coordinates \in [DOMAIN document.coordinates -> Seq(W)], NEW ring
  PROVE  /\ ListsForRing(ring) \in Seq(Seq(W))
         /\ Len(ListsForRing(ring)) = Len(document.themes)
<1> DEFINE n == Len(document.themes)
           l == ListsForRing(ring)
           e(k) == TexCoordsForRing(ring.id, document.themes[k])
<1>1. n \in Nat /\ DOMAIN document.themes = 1..n
  BY DocumentFacts
<1>2. l = [k \in 1..n |-> e(k)]
  BY <1>1, Zenon DEF ListsForRing
<1>3. \A k \in 1..n : e(k) \in Seq(W)
  <2>1. ASSUME NEW k \in 1..n
        PROVE  e(k) \in Seq(W)
    <3>1. \A q, r : TexCoordsForRing(q, r) \in Seq(W)
      BY TexCoordsOfRing
    <3>2. QED
      BY <3>1, Zenon
  <2>2. QED
    BY <2>1
<1> HIDE DEF n, l, e
<1>4. l \in [1..n -> Seq(W)]
  BY <1>2, <1>3
<1>5. QED
  BY <1>1, <1>4 DEF n, l

(* A contour is appended to the buffers.                                   *)
LEMMA ContourAppended ==
  ASSUME NEW V, NEW W, Origin \in W, TesselatorTyped(V, W), IndicesParallel, QueueWithin,
         NEW pts \in Seq(V), NEW lists \in Seq(Seq(W)), ListsFit(Len(lists)),
         addContour(pts, lists)
  PROVE  /\ TesselatorTyped(V, W)' /\ IndicesParallel' /\ QueueWithin'
         /\ vertices' = vertices \/ vertices' = vertices \o pts
         /\ (vertices' = <<>> /\ texCoordsLists' = <<>>) \/ Len(texCoordsLists') = Len(lists)
         /\ \A k \in DOMAIN texCoordsLists' : Len(texCoordsLists'[k]) = Len(vertices')
         /\ Len(vertices) \in Nat /\ Len(vertices') \in Nat /\ Len(vertices) <= Len(vertices')
<1> DEFINE v == Len(vertices)
           n == Len(pts)
           c == [index |-> v, length |-> n]
<1>1. vertices \in Seq(V) /\ v \in Nat /\ n \in Nat /\ indices \in Seq(Nat)
      /\ texCoordsLists \in Seq(Seq(W)) /\ Len(lists) \in Nat
  BY LenProperties DEF TesselatorTyped
<1>2. contourQueue' = Append(contourQueue, c) /\ UNCHANGED <<curMode, primitives>>
  BY DEF addContour
<1>3. c \in [index : Nat, length : Nat] /\ c.index = v /\ c.length = n
  BY <1>1
<1>4. contourQueue \in Seq([index : Nat, length : Nat])
  BY DEF TesselatorTyped
<1>5. /\ contourQueue' \in Seq([index : Nat, length : Nat])
      /\ \A i \in DOMAIN contourQueue' :
           contourQueue'[i] = c \/ (i \in DOMAIN contourQueue /\ contourQueue'[i] = contourQueue[i])
  <2> HIDE DEF c
  <2>1. QED
    BY <1>2, <1>3, <1>4, AppendElements
<1>6. curMode' \in {"none", Triangles, Fan, Strip} /\ primitives' \in Seq(Primitives)
  BY <1>2 DEF TesselatorTyped
<1>7. CASE n < 3
  <2>1. UNCHANGED <<vertices, indices, texCoordsLists>>
    BY <1>7 DEF addContour
  <2>2. TesselatorTyped(V, W)'
    BY <1>1, <1>5, <1>6, <2>1 DEF TesselatorTyped
  <2>3. IndicesParallel'
    BY <2>1 DEF IndicesParallel
  <2>4. QueueWithin'
    <3> HIDE DEF c, v, n
    <3>1. ASSUME NEW i \in DOMAIN contourQueue'
          PROVE  contourQueue'[i].length < 3
                 \/ contourQueue'[i].index + contourQueue'[i].length <= Len(vertices')
      <4>1. CASE contourQueue'[i] = c
        BY <1>3, <1>7, <4>1
      <4>2. CASE i \in DOMAIN contourQueue /\ contourQueue'[i] = contourQueue[i]
        BY <2>1, <4>2 DEF QueueWithin
      <4>3. QED
        BY <1>5, <4>1, <4>2
    <3>2. QED
      BY <3>1 DEF QueueWithin
  <2>5. QED
    BY <1>1, <2>1, <2>2, <2>3, <2>4 DEF ListsFit
<1>8. CASE ~(n < 3)
  <2> DEFINE a == AppendedTexCoords(lists, n)
             f == [i \in DOMAIN pts |-> v + i - 1]
  <2>1. texCoordsLists' = a /\ vertices' = vertices \o pts /\ indices' = indices \o f
    BY <1>8 DEF addContour
  <2>2. /\ vertices' \in Seq(V) /\ Len(vertices') = v + n
    BY <1>1, <2>1, ConcatProperties
  <2>3. DOMAIN pts = 1..n
    BY LenProperties
  <2>4. f = [i \in 1..n |-> v + i - 1]
    BY <2>3
  <2>5. f \in Seq(Nat) /\ Len(f) = n /\ \A i \in 1..n : f[i] = v + i - 1
    <3>1. \A i \in 1..n : v + i - 1 \in Nat
      BY <1>1
    <3> HIDE DEF v, n, f
    <3>2. f \in [1..n -> Nat] /\ \A i \in 1..n : f[i] = v + i - 1
      BY <2>4, <3>1
    <3>3. QED
      BY <1>1, <3>2
  <2>6. Len(indices) = v /\ \A i \in 1..v : indices[i] = i - 1
    BY <1>1, LenProperties DEF IndicesParallel
  <2> HIDE DEF v, n, a, f, c
  <2>7. /\ indices' \in Seq(Nat) /\ Len(indices') = v + n
        /\ \A i \in 1..(v + n) : indices'[i] = IF i <= v THEN indices[i] ELSE f[i - v]
    BY <1>1, <2>1, <2>5, <2>6, ConcatProperties, ZenonT(60)
  <2>8. ASSUME NEW i \in 1..(v + n)
        PROVE  indices'[i] = i - 1
    <3>1. CASE i <= v
      <4>1. i \in 1..v /\ indices'[i] = indices[i]
        BY <1>1, <2>7, <3>1
      <4>2. QED
        BY <2>6, <4>1
    <3>2. CASE ~(i <= v)
      <4>1. i - v \in 1..n /\ indices'[i] = f[i - v] /\ v + (i - v) - 1 = i - 1
        BY <1>1, <2>7, <3>2
      <4>2. QED
        BY <2>5, <4>1
    <3>3. QED
      BY <3>1, <3>2
  <2>9. DOMAIN indices' = 1..(v + n)
    BY <2>7, LenProperties
  <2>10. IndicesParallel'
    BY <2>2, <2>7, <2>8, <2>9 DEF IndicesParallel
  <2>11. /\ a \in Seq(Seq(W)) /\ Len(a) = Len(lists)
         /\ \A k \in 1..Len(lists) : Len(a[k]) = v + n
    <3>1. CanAppend(lists, n, V, W)
      BY <1>1 DEF CanAppend
    <3>2. ListsAppended(lists, n, W)
      BY <3>1, AppendedType, Zenon
    <3>3. QED
      BY <3>2 DEF ListsAppended, a, v
  <2>12. DOMAIN a = 1..Len(lists)
    BY <2>11, LenProperties
  <2>13. TesselatorTyped(V, W)'
    BY <1>5, <1>6, <2>1, <2>2, <2>7, <2>11 DEF TesselatorTyped
  <2>14. ASSUME NEW i \in DOMAIN contourQueue'
         PROVE  contourQueue'[i].length < 3
                \/ contourQueue'[i].index + contourQueue'[i].length <= Len(vertices')
    <3>1. CASE contourQueue'[i] = c
      BY <1>1, <1>3, <2>2, <3>1
    <3>2. CASE i \in DOMAIN contourQueue /\ contourQueue'[i] = contourQueue[i]
      <4> DEFINE e == contourQueue[i]
      <4>1. e \in [index : Nat, length : Nat]
        BY <1>4, <3>2, LenProperties, ElementOfSeq
      <4>2. e.length < 3 \/ e.index + e.length <= v
        BY <3>2 DEF QueueWithin, v
      <4>3. e.index \in Nat /\ e.length \in Nat
        BY <4>1
      <4> HIDE DEF e
      <4>4. e.length < 3 \/ e.index + e.length <= v + n
        BY <1>1, <4>2, <4>3
      <4>5. QED
        BY <2>2, <3>2, <4>4 DEF e
    <3>3. QED
      BY <1>5, <3>1, <3>2
  <2>15. QueueWithin'
    BY <2>14 DEF QueueWithin
  <2>16. v + n \in Nat /\ v <= v + n
    BY <1>1
  <2>17. QED
    BY <1>1, <2>1, <2>2, <2>10, <2>11, <2>12, <2>13, <2>15, <2>16 DEF v
<1>9. QED
  BY <1>7, <1>8

LEMMA AddContourBuffers ==
  ASSUME BufferInv, AddContour
  PROVE  BufferInv'
<1> DEFINE P == SUBSET Places
           W == SUBSET TexturePlacesOf(document)
           ring == rings[nextRing]
           lists == ListsForRing(ring)
<1>1. /\ phase = "contours" /\ nextRing \in DOMAIN rings
      /\ addContour(ring.vertices, lists)
      /\ UNCHANGED <<document, coordinates, optimize, keepVertices, polygon, polygons, phase>>
      /\ nextRing' = nextRing + 1
      /\ rings' = IF keepVertices THEN rings ELSE [rings EXCEPT ![nextRing].vertices = <<>>]
  BY DEF AddContour, ListsForRing
<1>2. /\ document \in Documents /\ rings \in Seq(RingsOf(document))
      /\ coordinates \in [DOMAIN document.coordinates -> Seq(W)]
  BY <1>1 DEF BufferInv, PolygonTyped
<1>3. ring \in RingsOf(document)
  BY <1>1, <1>2, LenProperties, ElementOfSeq
<1>4. ring.vertices \in Seq(P) /\ ring.id \in DOMAIN document.rings
      /\ ring = [id |-> ring.id, vertices |-> ring.vertices]
  BY <1>3 DEF RingsOf, Places
<1>5. lists \in Seq(Seq(W)) /\ Len(lists) = Len(document.themes)
  BY <1>2, ListsForRingType, SMTT(60)
<1>6. Origin \in W
  BY DEF Origin
<1>7. TesselatorTyped(P, W) /\ IndicesParallel /\ QueueWithin /\ ListsFit(Len(lists))
  BY <1>5 DEF BufferInv
<1> DEFINE pts == ring.vertices
<1>8. addContour(pts, lists) /\ pts \in Seq(P)
  BY <1>1, <1>4
<1>9. UNCHANGED document
  BY <1>1
<1>10. P' = P /\ W' = W
  BY <1>9 DEF Places
<1> HIDE DEF P, W, lists, pts
<1>11. /\ TesselatorTyped(P, W)' /\ IndicesParallel' /\ QueueWithin'
       /\ (vertices' = <<>> /\ texCoordsLists' = <<>>) \/ Len(texCoordsLists') = Len(lists)
       /\ \A k \in DOMAIN texCoordsLists' : Len(texCoordsLists'[k]) = Len(vertices')
  <2>1. PICK X, Y : X = P /\ Y = W
    OBVIOUS
  <2>2. TesselatorTyped(X, Y) /\ Origin \in Y /\ pts \in Seq(X) /\ lists \in Seq(Seq(Y))
    BY <1>5, <1>6, <1>7, <1>8, <2>1
  <2>3. /\ TesselatorTyped(X, Y)' /\ IndicesParallel' /\ QueueWithin'
        /\ (vertices' = <<>> /\ texCoordsLists' = <<>>) \/ Len(texCoordsLists') = Len(lists)
        /\ \A k \in DOMAIN texCoordsLists' : Len(texCoordsLists'[k]) = Len(vertices')
    BY <1>7, <1>8, <2>2, ContourAppended
  <2>4. X = P' /\ Y = W'
    BY <1>10, <2>1
  <2>5. TesselatorTyped(P, W)'
    BY <2>3, <2>4 DEF TesselatorTyped
  <2>6. QED
    BY <2>3, <2>5
<1>12. ListsFit(Len(document.themes))'
  BY <1>5, <1>9, <1>11 DEF ListsFit
<1>13. PolygonTyped'
  <2> DEFINE S == RingsOf(document)
  <2>1. [id |-> ring.id, vertices |-> <<>>] \in S
    <3>1. <<>> \in Seq(RingPlaces(document, ring.id))
      BY EmptySeq
    <3>2. QED
      BY <1>2, <1>4, <3>1, RingType, Zenon
  <2>2. [ring EXCEPT !.vertices = <<>>] = [id |-> ring.id, vertices |-> <<>>]
    BY <1>4
  <2>3. rings' = rings \/ rings' = [rings EXCEPT ![nextRing] = [ring EXCEPT !.vertices = <<>>]]
    BY <1>1
  <2>4. Len(rings) \in Nat /\ DOMAIN rings = 1..Len(rings)
    BY <1>2, LenProperties
  <2>5. rings' = rings \/ rings' = [rings EXCEPT ![nextRing] = [id |-> ring.id, vertices |-> <<>>]]
    BY <2>2, <2>3
  <2> HIDE DEF S, ring
  <2>6. rings \in Seq(S)
    BY <1>2 DEF S
  <2>7. rings' \in Seq(S) /\ Len(rings') = Len(rings)
    BY <1>1, <2>1, <2>5, <2>6, ExceptSeq, SMTT(60)
  <2>8. nextRing' \in 1..(Len(rings') + 1)
    BY <1>1, <2>4, <2>7
  <2>9. QED
    BY <1>1, <2>7, <2>8 DEF BufferInv, PolygonTyped, S
<1>14. KnownWithin' /\ PhaseInv'
  <2>1. known = {} /\ curIndices = <<>> /\ outIndices = <<>>
    BY <1>1 DEF BufferInv, PhaseInv
  <2>2. UNCHANGED <<known, curIndices, outIndices, curMode>>
    BY <1>8 DEF addContour
  <2>3. KnownWithin'
    BY <2>1, <2>2 DEF KnownWithin
  <2>4. PhaseInv'
    BY <1>1, <2>1, <2>2 DEF PhaseInv
  <2>5. QED
    BY <2>3, <2>4
<1>15. QED
  BY <1>11, <1>12, <1>13, <1>14 DEF BufferInv, P, W

(* What is read for the contours is of the indices, those of the vertices. *)
LEMMA ComputeBuffers ==
  ASSUME BufferInv, Compute
  PROVE  BufferInv'
<1> DEFINE v == Len(vertices)
<1>1. /\ phase = "contours" /\ phase' = "glu" /\ contourQueue' = <<>>
      /\ known' = UNION {OfContour(contourQueue[k]) : k \in DOMAIN contourQueue}
      /\ UNCHANGED <<vertices, indices, outIndices, curIndices, curMode, texCoordsLists, primitives>>
      /\ UNCHANGED <<document, rings, coordinates, nextRing, optimize, keepVertices, polygon, polygons>>
  BY DEF Compute, processContours, PolygonStays
<1>2. /\ vertices \in Seq(SUBSET Places) /\ indices \in Seq(Nat) /\ v \in Nat
      /\ contourQueue \in Seq([index : Nat, length : Nat])
  BY LenProperties DEF BufferInv, TesselatorTyped
<1>3. Len(indices) = v /\ \A j \in 1..v : indices[j] = j - 1
  BY <1>2, LenProperties DEF BufferInv, IndicesParallel
<1>4. ASSUME NEW k \in DOMAIN contourQueue
      PROVE  OfContour(contourQueue[k]) \subseteq 0..(v - 1)
  <2> DEFINE c == contourQueue[k]
  <2> HIDE DEF c, v
  <2>1. ASSUME NEW n \in ((c.index + 1)..(c.index + c.length)) \cap DOMAIN indices
        PROVE  indices[n] \in 0..(v - 1)
    <3>1. DOMAIN indices = 1..v
      BY <1>2, <1>3, LenProperties
    <3>2. n \in 1..v /\ v \in Nat
      BY <3>1, <1>2
    <3>3. n - 1 \in 0..(v - 1)
      BY <3>2
    <3>4. QED
      BY <3>2, <3>3, <1>3
  <2>2. QED
    BY <2>1 DEF OfContour, c
<1>5. known' \subseteq 0..(v - 1)
  BY <1>1, <1>4
<1>6. KnownWithin'
  <2>1. curIndices' = <<>> /\ outIndices' = <<>>
    BY <1>1 DEF BufferInv, PhaseInv
  <2>2. QED
    BY <1>1, <1>5, <2>1 DEF KnownWithin
<1>7. TesselatorTyped(SUBSET Places, SUBSET TexturePlacesOf(document))'
  BY <1>1 DEF BufferInv, TesselatorTyped, Places
<1>8. PolygonTyped'
  BY <1>1 DEF BufferInv, PolygonTyped
<1>9. IndicesParallel' /\ ListsFit(Len(document.themes))' /\ QueueWithin' /\ PhaseInv'
  BY <1>1 DEF BufferInv, IndicesParallel, ListsFit, QueueWithin, PhaseInv
<1>10. QED
  BY <1>6, <1>7, <1>8, <1>9 DEF BufferInv

(* A vertex that GLU makes, with the texture coordinates for it.           *)
NewVertex(from) == UNION {vertices[i + 1] : i \in from}
NewTexCoord(k, from) == UNION {texCoordsLists[k][i + 1] : i \in from}

LEMMA VertexMade ==
  ASSUME NEW P, NEW Q, TesselatorTyped(SUBSET P, SUBSET Q), IndicesParallel, QueueWithin, KnownWithin,
         NEW size, ListsFit(size),
         NEW from \in SUBSET known, from # {}, combineCallback(from)
  PROVE  /\ TesselatorTyped(SUBSET P, SUBSET Q)' /\ IndicesParallel' /\ QueueWithin' /\ KnownWithin'
         /\ ListsFit(size)'
         /\ vertices' = Append(vertices, NewVertex(from))
         /\ DOMAIN texCoordsLists' = DOMAIN texCoordsLists
         /\ \A k \in DOMAIN texCoordsLists :
              texCoordsLists'[k] = Append(texCoordsLists[k], NewTexCoord(k, from))
<1> DEFINE v == Len(vertices)
           l == Len(texCoordsLists)
           V == SUBSET P
           W == SUBSET Q
<1>1. /\ indices' = Append(indices, Len(indices))
      /\ vertices' = Append(vertices, NewVertex(from))
      /\ texCoordsLists' = [k \in DOMAIN texCoordsLists |->
           IF texCoordsLists[k] = <<>> THEN <<>>
           ELSE Append(texCoordsLists[k], NewTexCoord(k, from))]
      /\ known' = known \cup {Len(indices)}
      /\ UNCHANGED <<outIndices, curIndices, curMode, contourQueue, primitives>>
  BY DEF combineCallback, NewVertex, NewTexCoord
<1>2. /\ vertices \in Seq(V) /\ v \in Nat /\ indices \in Seq(Nat) /\ Len(indices) = v
      /\ texCoordsLists \in Seq(Seq(W)) /\ l \in Nat /\ DOMAIN texCoordsLists = 1..l
      /\ DOMAIN indices = 1..v /\ \A j \in 1..v : indices[j] = j - 1
      /\ contourQueue \in Seq([index : Nat, length : Nat])
  BY LenProperties DEF TesselatorTyped, IndicesParallel
<1>3. known \subseteq 0..(v - 1)
  BY DEF KnownWithin
<1>4. \A i \in from : i + 1 \in 1..v
  <2> HIDE DEF v
  <2>1. QED
    BY <1>2, <1>3
<1>5. v # 0 /\ vertices # <<>>
  <2>1. PICK i \in from : TRUE
    OBVIOUS
  <2>2. i + 1 \in 1..v
    BY <1>4, <2>1
  <2>3. QED
    BY <1>2, <2>2, EmptySeq
<1>6. NewVertex(from) \in V
  <2>1. \A i \in from : vertices[i + 1] \in V
    BY <1>2, <1>4, ElementOfSeq
  <2>2. QED
    BY <2>1 DEF NewVertex
<1>7. vertices' \in Seq(V) /\ Len(vertices') = v + 1
  <2> HIDE DEF V
  <2>1. QED
    BY <1>1, <1>2, <1>6, AppendProperties
<1>8. ASSUME NEW k \in DOMAIN texCoordsLists
      PROVE  /\ texCoordsLists'[k] = Append(texCoordsLists[k], NewTexCoord(k, from))
             /\ texCoordsLists'[k] \in Seq(W) /\ Len(texCoordsLists'[k]) = v + 1
  <2> DEFINE s == texCoordsLists[k]
  <2>1. s \in Seq(W)
    <3> HIDE DEF W
    <3>1. QED
      BY <1>2, ElementOfSeq
  <2>2. Len(s) = v
    BY DEF ListsFit
  <2>3. s # <<>>
    BY <1>5, <2>2
  <2>4. texCoordsLists'[k] = Append(s, NewTexCoord(k, from))
    BY <1>1, <2>3
  <2>5. \A i \in from : s[i + 1] \in W
    <3> HIDE DEF W, s
    <3>1. QED
      BY <1>4, <2>1, <2>2, ElementOfSeq
  <2>6. NewTexCoord(k, from) \in W
    BY <2>5 DEF NewTexCoord
  <2>7. Append(s, NewTexCoord(k, from)) \in Seq(W) /\ Len(Append(s, NewTexCoord(k, from))) = v + 1
    <3> HIDE DEF W, s
    <3>1. QED
      BY <2>1, <2>2, <2>6, AppendProperties
  <2>8. QED
    BY <2>4, <2>7
<1>9. DOMAIN texCoordsLists' = 1..l
  BY <1>1, <1>2
<1>10. texCoordsLists' \in Seq(Seq(W)) /\ Len(texCoordsLists') = l
  <2> HIDE DEF l, W
  <2>1. texCoordsLists' \in [1..l -> Seq(W)]
    <3>1. texCoordsLists' = [k \in 1..l |-> texCoordsLists'[k]]
      BY <1>1, <1>2
    <3>2. QED
      BY <1>2, <1>8, <3>1
  <2>2. QED
    BY <1>2, <2>1
<1>11. /\ indices' \in Seq(Nat) /\ Len(indices') = v + 1 /\ DOMAIN indices' = 1..(v + 1)
       /\ \A j \in 1..v : indices'[j] = indices[j]
       /\ indices'[v + 1] = v
  <2>1. v \in Nat
    BY <1>2
  <2> HIDE DEF v
  <2>2. indices' = Append(indices, v) /\ indices \in Seq(Nat) /\ Len(indices) = v
    BY <1>1, <1>2
  <2>3. /\ indices' \in Seq(Nat) /\ Len(indices') = v + 1 /\ indices'[v + 1] = v
        /\ \A j \in 1..v : indices'[j] = indices[j]
    BY <2>1, <2>2, AppendLast
  <2>4. DOMAIN indices' = 1..(v + 1)
    BY <2>3, LenProperties
  <2>5. QED
    BY <2>3, <2>4
<1> HIDE DEF v, V, W
<1>12. ASSUME NEW j \in 1..(v + 1)
       PROVE  indices'[j] = j - 1
  <2>1. v \in Nat
    BY <1>2
  <2>2. CASE j \in 1..v
    <3>1. indices'[j] = indices[j]
      BY <1>11, <2>2
    <3>2. indices[j] = j - 1
      BY <1>2, <2>2
    <3>3. QED
      BY <3>1, <3>2
  <2>3. CASE j \notin 1..v
    <3>1. j = v + 1 /\ j - 1 = v
      BY <2>1, <2>3
    <3>2. QED
      BY <1>11, <3>1
  <2>4. QED
    BY <2>2, <2>3
<1>13. TesselatorTyped(V, W)'
  BY <1>1, <1>7, <1>10, <1>11 DEF TesselatorTyped, V, W
<1>14. IndicesParallel'
  BY <1>7, <1>11, <1>12 DEF IndicesParallel
<1>15. QueueWithin'
  <2>1. ASSUME NEW c \in DOMAIN contourQueue
        PROVE  contourQueue[c].length < 3 \/ contourQueue[c].index + contourQueue[c].length <= v + 1
    <3> DEFINE e == contourQueue[c]
    <3>1. e \in [index : Nat, length : Nat]
      BY <1>2, LenProperties, ElementOfSeq
    <3>2. e.length < 3 \/ e.index + e.length <= v
      BY DEF QueueWithin, v
    <3>3. e.index \in Nat /\ e.length \in Nat
      BY <3>1
    <3> HIDE DEF e
    <3>4. e.length < 3 \/ e.index + e.length <= v + 1
      BY <1>2, <3>2, <3>3, SMTT(60)
    <3>5. QED
      BY <3>4 DEF e
  <2>2. QED
    BY <1>1, <1>7, <2>1 DEF QueueWithin
<1>16. KnownWithin'
  <2>1. known' \subseteq 0..v
    BY <1>1, <1>2, <1>3
  <2>2. (v + 1) - 1 = v
    BY <1>2
  <2>3. Seq(known) \subseteq Seq(known')
    BY <1>1, SeqMonotonic
  <2>4. QED
    BY <1>1, <1>7, <2>1, <2>2, <2>3 DEF KnownWithin
<1>17. ListsFit(size)'
  BY <1>2, <1>5, <1>7, <1>8, <1>9, <1>10 DEF ListsFit, l
<1>18. QED
  BY <1>1, <1>2, <1>8, <1>9, <1>13, <1>14, <1>15, <1>16, <1>17 DEF V, W

LEMMA CombineBuffers ==
  ASSUME BufferInv, GluCombine
  PROVE  BufferInv'
<1>1. PICK from \in SUBSET known : Cardinality(from) \in {2, 4} /\ combineCallback(from)
  BY DEF GluCombine
<1>2. from # {}
  BY <1>1, FS_EmptySet
<1>3. phase = "glu"
      /\ UNCHANGED <<document, rings, coordinates, nextRing, optimize, keepVertices, polygon, polygons,
                     phase>>
  BY DEF GluCombine, PolygonStays
<1>4. PICK P, Q, size : P = Places /\ Q = TexturePlacesOf(document) /\ size = Len(document.themes)
  OBVIOUS
<1>5. TesselatorTyped(SUBSET P, SUBSET Q) /\ IndicesParallel /\ QueueWithin /\ KnownWithin /\ ListsFit(size)
  BY <1>4 DEF BufferInv
<1>6. TesselatorTyped(SUBSET P, SUBSET Q)' /\ IndicesParallel' /\ QueueWithin' /\ KnownWithin'
      /\ ListsFit(size)'
  BY <1>1, <1>2, <1>5, VertexMade
<1>7. P = Places' /\ Q = TexturePlacesOf(document)' /\ size = Len(document.themes)'
  BY <1>3, <1>4 DEF Places
<1>8. TesselatorTyped(SUBSET Places, SUBSET TexturePlacesOf(document))'
  BY <1>6, <1>7 DEF TesselatorTyped
<1>9. ListsFit(Len(document.themes))'
  BY <1>6, <1>7 DEF ListsFit
<1>10. PolygonTyped'
  BY <1>3 DEF BufferInv, PolygonTyped
<1>11. PhaseInv'
  BY <1>1, <1>3 DEF BufferInv, PhaseInv, combineCallback
<1>12. QED
  BY <1>6, <1>8, <1>9, <1>10, <1>11 DEF BufferInv

(* The steps that leave the polygon and the vertices alone.                *)
LEMMA BuffersStay ==
  ASSUME BufferInv,
         UNCHANGED <<document, rings, coordinates, nextRing, optimize, keepVertices, polygons>>,
         UNCHANGED <<vertices, indices, texCoordsLists, contourQueue, known>>,
         curMode' \in {"none", Triangles, Fan, Strip},
         primitives' \in Seq(Primitives),
         curIndices' \in Seq(known), outIndices' \in Seq(known),
         phase' \in {"idle", "glu", "primitive", "emitted"},
         phase \in {"glu", "primitive", "emitted"},
         phase' = "primitive" => curMode' # "none"
  PROVE  BufferInv'
<1>1. TesselatorTyped(SUBSET Places, SUBSET TexturePlacesOf(document))'
  BY DEF BufferInv, TesselatorTyped, Places
<1>2. PolygonTyped'
  BY DEF BufferInv, PolygonTyped
<1>3. IndicesParallel' /\ QueueWithin' /\ KnownWithin'
  BY DEF BufferInv, IndicesParallel, QueueWithin, KnownWithin
<1>4. ListsFit(Len(document.themes))'
  BY DEF BufferInv, ListsFit
<1>5. PhaseInv'
  BY DEF BufferInv, PhaseInv
<1>6. QED
  BY <1>1, <1>2, <1>3, <1>4, <1>5 DEF BufferInv

LEMMA BeginBuffers ==
  ASSUME BufferInv, GluBegin
  PROVE  BufferInv'
<1>1. PICK mode \in {Triangles, Fan, Strip} : beginCallback(mode)
  BY DEF GluBegin
<1>2. curMode' \in {Triangles, Fan, Strip} /\ "none" \notin {Triangles, Fan, Strip}
  BY <1>1 DEF beginCallback, Triangles, Fan, Strip
<1>3. UNCHANGED <<vertices, indices, outIndices, curIndices, texCoordsLists, contourQueue, known, primitives>>
  BY <1>1 DEF beginCallback
<1>4. phase \in {"glu", "emitted"} /\ phase' = "primitive"
      /\ UNCHANGED <<document, rings, coordinates, nextRing, optimize, keepVertices, polygons>>
  BY DEF GluBegin, PolygonStays
<1>5. primitives' \in Seq(Primitives) /\ curIndices' \in Seq(known) /\ outIndices' \in Seq(known)
  BY <1>3 DEF BufferInv, TesselatorTyped, KnownWithin
<1>6. curMode' \in {"none", Triangles, Fan, Strip} /\ curMode' # "none"
  BY <1>2
<1>7. QED
  BY <1>3, <1>4, <1>5, <1>6, BuffersStay

LEMMA VertexBuffers ==
  ASSUME BufferInv, GluVertex
  PROVE  BufferInv'
<1>1. PICK i \in known : vertexDataCallback(i)
  BY DEF GluVertex
<1>2. curIndices' = Append(curIndices, i)
      /\ UNCHANGED <<vertices, indices, outIndices, curMode, texCoordsLists, contourQueue, known, primitives>>
  BY <1>1 DEF vertexDataCallback
<1>3. phase = "primitive" /\ phase' = "primitive"
      /\ UNCHANGED <<document, rings, coordinates, nextRing, optimize, keepVertices, polygons>>
  BY DEF GluVertex, PolygonStays
<1>4. curIndices \in Seq(known) /\ outIndices \in Seq(known) /\ primitives \in Seq(Primitives)
      /\ curMode \in {"none", Triangles, Fan, Strip} /\ curMode # "none"
  BY <1>3 DEF BufferInv, TesselatorTyped, KnownWithin, PhaseInv
<1>5. curIndices' \in Seq(known)
  BY <1>1, <1>2, <1>4, AppendProperties
<1>6. QED
  BY <1>2, <1>3, <1>4, <1>5, BuffersStay

(* The triangles of a primitive are made of its indices.                   *)
LEMMA EndStep ==
  ASSUME BufferInv, GluEnd
  PROVE  /\ curMode \in {Triangles, Fan, Strip} /\ curIndices \in Seq(known) /\ Len(curIndices) >= 3
         /\ [mode |-> curMode, indices |-> curIndices] \in Primitives
         /\ outIndices' = outIndices \o TrianglesOf(curMode, curIndices)
         /\ primitives' = Append(primitives, [mode |-> curMode, indices |-> curIndices])
         /\ curIndices' = <<>> /\ phase = "primitive" /\ phase' = "emitted"
         /\ UNCHANGED <<vertices, indices, curMode, texCoordsLists, contourQueue, known>>
         /\ UNCHANGED <<document, rings, coordinates, nextRing, optimize, keepVertices, polygon, polygons>>
<1>1. /\ phase = "primitive" /\ phase' = "emitted" /\ Len(curIndices) >= 3 /\ endCallback
      /\ UNCHANGED <<document, rings, coordinates, nextRing, optimize, keepVertices, polygon, polygons>>
  BY DEF GluEnd, PolygonStays
<1>2. curMode \in {"none", Triangles, Fan, Strip} /\ curMode # "none"
  BY <1>1 DEF BufferInv, TesselatorTyped, PhaseInv
<1>3. curIndices \in Seq(known) /\ known \subseteq Nat
  <2>1. Len(vertices) \in Nat
    BY LenProperties DEF BufferInv, TesselatorTyped
  <2>2. known \subseteq 0..(Len(vertices) - 1) /\ curIndices \in Seq(known)
    BY DEF BufferInv, KnownWithin
  <2> DEFINE v == Len(vertices)
  <2> HIDE DEF v
  <2>3. 0..(v - 1) \subseteq Nat
    OBVIOUS
  <2>4. QED
    BY <2>2, <2>3 DEF v
<1>4. curIndices \in Seq(Nat)
  BY <1>3, SeqMonotonic
<1>5. [mode |-> curMode, indices |-> curIndices] \in Primitives
  BY <1>1, <1>2, <1>4 DEF Primitives
<1>6. QED
  BY <1>1, <1>2, <1>3, <1>5 DEF endCallback

LEMMA EndBuffers ==
  ASSUME BufferInv, GluEnd
  PROVE  BufferInv'
<1> DEFINE p == [mode |-> curMode, indices |-> curIndices]
<1>1. TrianglesOf(curMode, curIndices) \in Seq(known)
  BY EndStep, TrianglesType
<1>2. outIndices \in Seq(known) /\ primitives \in Seq(Primitives)
  BY DEF BufferInv, KnownWithin, TesselatorTyped
<1>3. outIndices' \in Seq(known)
  BY <1>1, <1>2, EndStep, ConcatProperties, ZenonT(60)
<1>4. p \in Primitives /\ primitives' = Append(primitives, p)
  BY EndStep
<1>5. primitives' \in Seq(Primitives)
  <2> HIDE DEF p
  <2>1. QED
    BY <1>2, <1>4, AppendProperties
<1>6. curIndices' \in Seq(known)
  BY EndStep
<1>7. curMode' \in {"none", Triangles, Fan, Strip} /\ phase = "primitive" /\ phase' = "emitted"
      /\ UNCHANGED <<vertices, indices, texCoordsLists, contourQueue, known>>
      /\ UNCHANGED <<document, rings, coordinates, nextRing, optimize, keepVertices, polygons>>
  BY EndStep
<1>8. QED
  BY <1>3, <1>5, <1>6, <1>7, BuffersStay

LEMMA TakeOverBuffers ==
  ASSUME BufferInv, TakeOver
  PROVE  BufferInv'
<1>1. /\ phase \in {"glu", "emitted"} /\ phase' = "idle"
      /\ UNCHANGED tesselatorVars
      /\ UNCHANGED <<document, rings, coordinates, nextRing, optimize, keepVertices, polygons>>
  BY DEF TakeOver
<1>2. UNCHANGED <<vertices, indices, outIndices, curIndices, curMode, texCoordsLists, contourQueue,
                  known, primitives>>
  BY <1>1 DEF tesselatorVars
<1>3. primitives' \in Seq(Primitives) /\ curIndices' \in Seq(known) /\ outIndices' \in Seq(known)
      /\ curMode' \in {"none", Triangles, Fan, Strip}
  BY <1>2 DEF BufferInv, TesselatorTyped, KnownWithin
<1>4. QED
  BY <1>1, <1>2, <1>3, BuffersStay

LEMMA StutterBuffers ==
  ASSUME BufferInv, UNCHANGED vars
  PROVE  BufferInv'
<1>1. /\ UNCHANGED <<vertices, indices, outIndices, curIndices, curMode, texCoordsLists, contourQueue,
                     known, primitives>>
      /\ UNCHANGED <<document, rings, coordinates, nextRing, optimize, keepVertices, polygons, phase>>
  BY DEF vars, tesselatorVars
<1>2. TesselatorTyped(SUBSET Places, SUBSET TexturePlacesOf(document))'
  BY <1>1 DEF BufferInv, TesselatorTyped, Places
<1>3. PolygonTyped'
  BY <1>1 DEF BufferInv, PolygonTyped
<1>4. IndicesParallel' /\ QueueWithin' /\ KnownWithin' /\ PhaseInv'
  BY <1>1 DEF BufferInv, IndicesParallel, QueueWithin, KnownWithin, PhaseInv
<1>5. ListsFit(Len(document.themes))'
  BY <1>1 DEF BufferInv, ListsFit
<1>6. QED
  BY <1>2, <1>3, <1>4, <1>5 DEF BufferInv

LEMMA BuffersStep == BufferInv /\ [Next]_vars => BufferInv'
<1> SUFFICES ASSUME BufferInv, [Next]_vars
             PROVE  BufferInv'
  OBVIOUS
<1>1. CASE \E d \in Documents : Finish(d)
  BY <1>1, FinishBuffers
<1>2. CASE AddContour
  BY <1>2, AddContourBuffers
<1>3. CASE Compute
  BY <1>3, ComputeBuffers
<1>4. CASE GluCombine
  BY <1>4, CombineBuffers
<1>5. CASE GluBegin
  BY <1>5, BeginBuffers
<1>6. CASE GluVertex
  BY <1>6, VertexBuffers
<1>7. CASE GluEnd
  BY <1>7, EndBuffers
<1>8. CASE TakeOver
  BY <1>8, TakeOverBuffers
<1>9. CASE UNCHANGED vars
  BY <1>9, StutterBuffers
<1>10. QED
  BY <1>1, <1>2, <1>3, <1>4, <1>5, <1>6, <1>7, <1>8, <1>9 DEF Next

LEMMA BuffersInvariant == Spec => []BufferInv
<1>1. QED
  BY BuffersInit, BuffersStep, PTL DEF Spec

(* The variables keep to their types: vertices are made of places in rings *)
(* of the polygon and texture coordinates of places its lists give, no     *)
(* others, even after the polygon is finished and before the next (the     *)
(* tesselator of a load is one for all polygons).                          *)
THEOREM TypeCorrect == Spec => []TypeOK
<1>1. BufferInv => TypeOK
  <2> SUFFICES ASSUME BufferInv
               PROVE  TypeOK
    OBVIOUS
  <2>1. Len(vertices) \in Nat
    BY LenProperties DEF BufferInv, TesselatorTyped
  <2>2. known \subseteq Nat
    <3> DEFINE v == Len(vertices)
    <3>1. v \in Nat /\ known \subseteq 0..(v - 1)
      BY <2>1 DEF BufferInv, KnownWithin
    <3> HIDE DEF v
    <3>2. QED
      BY <3>1
  <2>3. Seq(known) \subseteq Seq(Nat)
    BY <2>2, SeqMonotonic
  <2>4. outIndices \in Seq(Nat) /\ curIndices \in Seq(Nat)
    BY <2>3 DEF BufferInv, KnownWithin
  <2> DEFINE W == SUBSET TexturePlacesOf(document)
  <2>5. texCoordsLists \in Seq(Seq(W))
    BY DEF BufferInv, TesselatorTyped
  <2>6. \A k \in DOMAIN texCoordsLists : texCoordsLists[k] \in Seq(W)
    <3> HIDE DEF W
    <3>1. QED
      BY <2>5, LenProperties, ElementOfSeq
  <2>7. QED
    BY <2>2, <2>4, <2>6 DEF TypeOK, BufferInv, TesselatorTyped, PolygonTyped
<1>2. QED
  BY <1>1, BuffersInvariant, PTL

(* What tesselator.cpp, tesselatorbase.cpp and polygon.cpp assert of the   *)
(* indices and texture coordinates, and rely on where they read them.      *)
THEOREM IndicesStayInVertices == Spec => []IndicesInVertices
<1>1. BufferInv => IndicesInVertices
  <2> SUFFICES ASSUME BufferInv
               PROVE  IndicesInVertices
    OBVIOUS
  <2>1. Range(curIndices) \subseteq known /\ Range(outIndices) \subseteq known
    <3>1. \A s \in Seq(known) : Range(s) \subseteq known
      BY ElementOfSeq, LenProperties DEF Range
    <3>2. QED
      BY <3>1 DEF BufferInv, KnownWithin
  <2>2. known \subseteq 0..(Len(vertices) - 1)
    BY DEF BufferInv, KnownWithin
  <2>3. /\ Len(indices) = Len(vertices)
        /\ \A i \in DOMAIN indices : indices[i] = i - 1
    BY DEF BufferInv, IndicesParallel
  <2>4. /\ \A k \in DOMAIN texCoordsLists : Len(texCoordsLists[k]) = Len(vertices)
        /\ vertices # <<>> => Len(texCoordsLists) = Len(document.themes)
    BY DEF BufferInv, ListsFit
  <2>5. \A c \in DOMAIN contourQueue :
          contourQueue[c].length < 3 \/ contourQueue[c].index + contourQueue[c].length <= Len(vertices)
    BY DEF BufferInv, QueueWithin
  <2>6. QED
    BY <2>1, <2>2, <2>3, <2>4, <2>5 DEF IndicesInVertices
<1>2. QED
  BY <1>1, BuffersInvariant, PTL

-----------------------------------------------------------------------------
(* The triangles of a finished polygon.                                    *)

DrawnAll(ps) == FlattenSeq([k \in DOMAIN ps |-> Drawn(ps[k])])

(* What is gathered is taken over when the polygon is finished.            *)
EmittedInv == outIndices = DrawnAll(primitives)
TakenInv ==
  phase = "idle" =>
    polygon = [vertices |-> vertices, indices |-> outIndices,
               texCoords |-> IF vertices = <<>> THEN <<>>
                             ELSE [t \in DOMAIN document.themes |-> texCoordsLists[t]]]

LEMMA DrawnType ==
  ASSUME NEW p \in Primitives
  PROVE  /\ Drawn(p) \in Seq(Nat)
         /\ Drawn(p) = TrianglesOf(p.mode, p.indices)
<1>1. /\ p.mode \in {Triangles, Fan, Strip} /\ p.indices \in Seq(Nat) /\ Len(p.indices) >= 3
      /\ p = [mode |-> p.mode, indices |-> p.indices]
  BY DEF Primitives
<1>2. TrianglesOf(p.mode, p.indices) = Drawn([mode |-> p.mode, indices |-> p.indices])
  BY <1>1, TrianglesDrawn
<1>3. TrianglesOf(p.mode, p.indices) \in Seq(Nat)
  BY <1>1, TrianglesType
<1>4. Drawn([mode |-> p.mode, indices |-> p.indices]) = Drawn(p)
  BY <1>1, Zenon
<1>5. QED
  BY <1>2, <1>3, <1>4

LEMMA DrawnNone == DrawnAll(<<>>) = <<>>
<1>1. [k \in DOMAIN <<>> |-> Drawn(<<>>[k])] = <<>>
  OBVIOUS
<1>2. QED
  BY <1>1, FlattenEmpty DEF DrawnAll

LEMMA DrawnAppend ==
  ASSUME NEW ps \in Seq(Primitives), NEW p \in Primitives
  PROVE  DrawnAll(Append(ps, p)) = DrawnAll(ps) \o Drawn(p)
<1>1. PICK f \in [Primitives -> Seq(Nat)] : \A q \in Primitives : f[q] = Drawn(q)
  <2>1. [q \in Primitives |-> Drawn(q)] \in [Primitives -> Seq(Nat)]
    BY DrawnType
  <2>2. QED
    BY <2>1
<1>2. Mapped(f, ps) \in Seq(Seq(Nat)) /\ Mapped(f, Append(ps, p)) = Append(Mapped(f, ps), f[p])
  <2>1. Maps(f, Primitives, Seq(Nat))
    BY DEF Maps
  <2>2. QED
    BY <2>1, MappedAppend
<1>3. f[p] \in Seq(Nat)
  BY <1>1
<1>4. \A qs \in Seq(Primitives) : DrawnAll(qs) = FlattenSeq(Mapped(f, qs))
  <2>1. ASSUME NEW qs \in Seq(Primitives)
        PROVE  [k \in DOMAIN qs |-> Drawn(qs[k])] = Mapped(f, qs)
    <3>1. \A k \in DOMAIN qs : f[qs[k]] = Drawn(qs[k])
      BY <1>1, LenProperties, ElementOfSeq
    <3>2. QED
      BY <3>1 DEF Mapped
  <2>2. QED
    BY <2>1 DEF DrawnAll
<1>5. FlattenSeq(Mapped(f, Append(ps, p))) = FlattenSeq(Mapped(f, ps)) \o f[p]
  BY <1>2, <1>3, FlattenAppend
<1>6. Append(ps, p) \in Seq(Primitives)
  BY AppendProperties
<1>7. QED
  BY <1>1, <1>4, <1>5, <1>6

LEMMA TrianglesInit == Init => EmittedInv /\ TakenInv
  BY DrawnNone DEF Init, TesselatorInit, EmittedInv, TakenInv, NoPolygon

LEMMA TrianglesStep == BufferInv /\ EmittedInv /\ TakenInv /\ [Next]_vars => EmittedInv' /\ TakenInv'
<1> SUFFICES ASSUME BufferInv, EmittedInv, TakenInv, [Next]_vars
             PROVE  EmittedInv' /\ TakenInv'
  OBVIOUS
<1>1. ASSUME NEW d \in Documents, Finish(d)
      PROVE  EmittedInv' /\ TakenInv'
  BY <1>1, DrawnNone DEF Finish, init, EmittedInv, TakenInv
<1>2. ASSUME UNCHANGED <<outIndices, primitives>>, phase' # "idle"
      PROVE  EmittedInv' /\ TakenInv'
  BY <1>2 DEF EmittedInv, TakenInv
<1>3. CASE AddContour
  <2>1. UNCHANGED <<outIndices, primitives>> /\ phase' # "idle"
    BY <1>3 DEF AddContour, addContour
  <2>2. QED
    BY <1>2, <2>1
<1>4. CASE Compute \/ GluCombine \/ GluBegin \/ GluVertex
  <2>1. UNCHANGED <<outIndices, primitives>>
    BY <1>4 DEF Compute, processContours, GluCombine, combineCallback, GluBegin, beginCallback,
                GluVertex, vertexDataCallback
  <2>2. phase' # "idle"
    BY <1>4 DEF Compute, GluCombine, GluBegin, GluVertex
  <2>3. QED
    BY <1>2, <2>1, <2>2
<1>5. CASE GluEnd
  <2> DEFINE p == [mode |-> curMode, indices |-> curIndices]
             o == TrianglesOf(curMode, curIndices)
  <2>1. /\ p \in Primitives /\ primitives' = Append(primitives, p)
        /\ outIndices' = outIndices \o o /\ phase' = "emitted"
        /\ p.mode = curMode /\ p.indices = curIndices
    BY <1>5, EndStep
  <2>2. primitives \in Seq(Primitives)
    BY DEF BufferInv, TesselatorTyped
  <2>3. Drawn(p) = TrianglesOf(p.mode, p.indices)
    <3>1. p \in Primitives
      BY <2>1
    <3> HIDE DEF p
    <3>2. QED
      BY <3>1, DrawnType
  <2>4. Drawn(p) = o
    BY <2>1, <2>3
  <2> HIDE DEF p, o
  <2>5. DrawnAll(primitives') = DrawnAll(primitives) \o o
    BY <2>1, <2>2, <2>4, DrawnAppend
  <2>6. QED
    BY <2>1, <2>5 DEF EmittedInv, TakenInv
<1>6. CASE TakeOver
  <2>1. UNCHANGED <<outIndices, primitives, vertices, texCoordsLists, document>>
        /\ polygon' = [vertices |-> vertices, indices |-> outIndices,
                       texCoords |-> IF vertices = <<>> THEN <<>>
                                     ELSE [t \in DOMAIN document.themes |-> texCoordsLists[t]]]
    BY <1>6 DEF TakeOver, tesselatorVars
  <2>2. QED
    BY <2>1 DEF EmittedInv, TakenInv
<1>7. CASE UNCHANGED vars
  <2>1. UNCHANGED <<outIndices, primitives, vertices, texCoordsLists, document, polygon, phase>>
    BY <1>7 DEF vars, tesselatorVars
  <2>2. QED
    BY <2>1 DEF EmittedInv, TakenInv
<1>8. QED
  BY <1>1, <1>3, <1>4, <1>5, <1>6, <1>7 DEF Next

(* The indices of a finished polygon are, in order, the triangles OpenGL   *)
(* would draw for the primitives GLU has made for it, of which fans and    *)
(* strips are taken apart vertex by vertex, every second triangle of a     *)
(* strip turned (endCallback).                                             *)
THEOREM TrianglesAsDrawn == Spec => []TrianglesOfPrimitives
<1>1. Init => BufferInv /\ EmittedInv /\ TakenInv
  BY BuffersInit, TrianglesInit
<1>2. BufferInv /\ EmittedInv /\ TakenInv /\ [Next]_vars => (BufferInv /\ EmittedInv /\ TakenInv)'
  BY BuffersStep, TrianglesStep
<1>3. EmittedInv /\ TakenInv => TrianglesOfPrimitives
  BY DEF EmittedInv, TakenInv, TrianglesOfPrimitives, DrawnAll
<1>4. QED
  BY <1>1, <1>2, <1>3, PTL DEF Spec

-----------------------------------------------------------------------------
(* The rings without duplicate vertices.                                   *)

CleanedInv ==
  phase = "contours" /\ nextRing = 1 /\ optimize =>
    rings = CleanedRings(document) /\ coordinates = CleanedLists(document)

LEMMA CleanedStep == BufferInv /\ CleanedInv /\ [Next]_vars => CleanedInv'
<1> SUFFICES ASSUME BufferInv, CleanedInv, [Next]_vars
             PROVE  CleanedInv'
  OBVIOUS
<1>1. ASSUME NEW d \in Documents, Finish(d)
      PROVE  CleanedInv'
  <2>1. document' = d /\ UNCHANGED optimize
    BY <1>1 DEF Finish
  <2>2. optimize => rings' = CleanedRings(d) /\ coordinates' = CleanedLists(d)
    BY <1>1, RingsOfPolygon
  <2>3. QED
    BY <2>1, <2>2 DEF CleanedInv
<1>2. CASE AddContour
  <2>1. nextRing' = nextRing + 1 /\ nextRing \in DOMAIN rings
    BY <1>2 DEF AddContour
  <2>2. rings \in Seq(RingsOf(document))
    BY DEF BufferInv, PolygonTyped
  <2>3. DOMAIN rings = 1..Len(rings) /\ Len(rings) \in Nat
    BY <2>2, LenProperties
  <2>4. nextRing' # 1
    BY <2>1, <2>3
  <2>5. QED
    BY <2>4 DEF CleanedInv
<1>3. CASE Compute \/ GluCombine \/ GluBegin \/ GluVertex \/ GluEnd \/ TakeOver
  <2>1. phase' # "contours"
    BY <1>3 DEF Compute, GluCombine, GluBegin, GluVertex, GluEnd, TakeOver
  <2>2. QED
    BY <2>1 DEF CleanedInv
<1>4. CASE UNCHANGED vars
  BY <1>4 DEF vars, CleanedInv
<1>5. QED
  BY <1>1, <1>2, <1>3, <1>4 DEF Next

LEMMA CleanedIsClean ==
  ASSUME document \in Documents, rings = CleanedRings(document), coordinates = CleanedLists(document)
  PROVE  \A i \in DOMAIN rings :
           LET vs == rings[i].vertices
               Point(k) == PointOf(document, vs[k])
               At(k) == LET p == CHOOSE p \in vs[k] : TRUE IN p.at
           IN /\ Range(vs) \subseteq Range(VerticesOf(document, rings[i].id))
              /\ \A k \in DOMAIN vs : k > 1 => At(k - 1) < At(k)
              /\ {Point(k) : k \in DOMAIN vs} = Range(document.rings[rings[i].id].points)
              /\ Len(vs) > 2 => \A k \in DOMAIN vs : Point(k) # Point((k % Len(vs)) + 1)
              /\ \A c \in DOMAIN coordinates :
                   document.coordinates[c].ring = rings[i].id /\ Matches(document, c) => coordinates[c] = vs
<1> SUFFICES ASSUME NEW i \in DOMAIN rings
             PROVE  LET vs == rings[i].vertices
                        Point(k) == PointOf(document, vs[k])
                        At(k) == LET p == CHOOSE p \in vs[k] : TRUE IN p.at
                    IN /\ Range(vs) \subseteq Range(VerticesOf(document, rings[i].id))
                       /\ \A k \in DOMAIN vs : k > 1 => At(k - 1) < At(k)
                       /\ {Point(k) : k \in DOMAIN vs} = Range(document.rings[rings[i].id].points)
                       /\ Len(vs) > 2 => \A k \in DOMAIN vs : Point(k) # Point((k % Len(vs)) + 1)
                       /\ \A c \in DOMAIN coordinates :
                            document.coordinates[c].ring = rings[i].id /\ Matches(document, c)
                              => coordinates[c] = vs
  BY Zenon
<1> DEFINE r == rings[i].id
           vs == rings[i].vertices
<1>1. r \in DOMAIN document.rings /\ vs = Cleaned(document, r).vertices
  BY CleanedRingsType
<1>2. /\ vs \in Seq(RingPlaces(document, r))
      /\ InOrder(vs)
      /\ PointsOf(document, vs) = Range(document.rings[r].points)
      /\ Len(vs) > 2 =>
           \A j \in 1..Len(vs) : PointOf(document, vs[j]) # PointOf(document, vs[(j % Len(vs)) + 1])
  <2> HIDE DEF r, vs
  <2>1. QED
    BY <1>1, CleanedRing
<1>3. DOMAIN vs = 1..Len(vs)
  BY <1>2, LenProperties
<1>4. Range(vs) \subseteq Range(VerticesOf(document, r))
  <2> HIDE DEF vs, r
  <2>1. \A k \in DOMAIN vs : vs[k] \in RingPlaces(document, r)
    BY <1>2, <1>3, ElementOfSeq
  <2>2. Range(VerticesOf(document, r)) = RingPlaces(document, r)
    BY DEF Range, VerticesOf, RingPlaces
  <2>3. QED
    BY <2>1, <2>2 DEF Range
<1>5. \A c \in DOMAIN coordinates :
        document.coordinates[c].ring = r /\ Matches(document, c) => coordinates[c] = vs
  <2>1. DOMAIN coordinates = DOMAIN document.coordinates
    BY CleanedListsType
  <2>2. QED
    BY <2>1, CleanedListsMatch
<1>6. \A k \in DOMAIN vs :
        k > 1 => (LET p == CHOOSE p \in vs[k - 1] : TRUE IN p.at)
                   < (LET p == CHOOSE p \in vs[k] : TRUE IN p.at)
  BY <1>2 DEF InOrder, AtOf
<1>7. {PointOf(document, vs[k]) : k \in DOMAIN vs} = Range(document.rings[r].points)
  BY <1>2 DEF PointsOf
<1>8. Len(vs) > 2 => \A k \in DOMAIN vs : PointOf(document, vs[k]) # PointOf(document, vs[(k % Len(vs)) + 1])
  BY <1>2, <1>3
<1>9. QED
  BY <1>4, <1>5, <1>6, <1>7, <1>8, Zenon

(* When the reader removes duplicate vertices, those that stay in a ring   *)
(* are vertices of it in their order, every point of it among them and no  *)
(* two neighbours equal, the last and the first included, and the texture  *)
(* coordinates of every list that matches the ring stay with its vertices  *)
(* (LinearRing::removeDuplicateVertices), for rings and lists of any       *)
(* length.                                                                 *)
THEOREM DuplicatesRemoved == Spec => []RingsCleaned
<1>1. Init => BufferInv /\ CleanedInv
  <2>1. Init => CleanedInv
    BY DEF Init, CleanedInv
  <2>2. QED
    BY <2>1, BuffersInit
<1>2. BufferInv /\ CleanedInv /\ [Next]_vars => (BufferInv /\ CleanedInv)'
  BY BuffersStep, CleanedStep
<1>3. BufferInv /\ CleanedInv => RingsCleaned
  <2> SUFFICES ASSUME BufferInv, CleanedInv, phase = "contours" /\ nextRing = 1 /\ optimize
               PROVE  RingsCleaned
    BY DEF RingsCleaned
  <2>1. document \in Documents /\ rings = CleanedRings(document) /\ coordinates = CleanedLists(document)
    BY DEF BufferInv, PolygonTyped, CleanedInv
  <2>2. QED
    BY <2>1, CleanedIsClean, Zenon DEF RingsCleaned
<1>4. QED
  BY <1>1, <1>2, <1>3, PTL DEF Spec

-----------------------------------------------------------------------------
(* The texture coordinates of a finished polygon.                          *)

AllMatch(d) == \A c \in DOMAIN d.coordinates : Matches(d, c)

(* What a document gives for a vertex in its t-th theme.                   *)
HasList(d, t, r) ==
  \E c \in DOMAIN d.coordinates : d.coordinates[c].of = d.themes[t] /\ d.coordinates[c].ring = r
Given(d, t, v) == {p \in v : HasList(d, t, p.ring)}

(* The lists for rings that are still to be added have their vertices, and *)
(* what was added has the coordinates given for it.                        *)
RingsMatch ==
  phase = "contours" =>
    \A i \in DOMAIN rings, c \in DOMAIN document.coordinates :
      i >= nextRing /\ document.coordinates[c].ring = rings[i].id => coordinates[c] = rings[i].vertices

CoordsGiven ==
  \A t \in DOMAIN texCoordsLists, k \in DOMAIN vertices :
    texCoordsLists[t][k] = Given(document, t, vertices[k])

TexturedInv ==
  /\ document \in Documents \cup {NoDocument}
  /\ AllMatch(document) => RingsMatch /\ CoordsGiven

LEMMA TexturedInit == Init => TexturedInv
  BY DEF Init, TesselatorInit, TexturedInv, RingsMatch, CoordsGiven

LEMMA FinishMatches ==
  ASSUME NEW d \in Documents, Finish(d), AllMatch(d)
  PROVE  RingsMatch' /\ CoordsGiven'
<1>1. document' = d /\ vertices' = <<>>
  BY DEF Finish, init
<1>2. \A i \in DOMAIN rings', c \in DOMAIN d.coordinates :
        d.coordinates[c].ring = rings'[i].id => coordinates'[c] = rings'[i].vertices
  <2>1. CASE optimize
    <3>1. rings' = CleanedRings(d) /\ coordinates' = CleanedLists(d)
      BY <2>1, RingsOfPolygon
    <3>2. \A i \in DOMAIN CleanedRings(d), c \in DOMAIN d.coordinates :
            d.coordinates[c].ring = CleanedRings(d)[i].id => CleanedLists(d)[c] = CleanedRings(d)[i].vertices
      BY CleanedListsMatch DEF AllMatch
    <3>3. QED
      BY <3>1, <3>2
  <2>2. CASE ~optimize
    <3>1. rings' = addRings(d) /\ coordinates' = ParsedCoordinates(d)
      BY <2>2, RingsOfPolygon
    <3>2. \A i \in DOMAIN addRings(d), c \in DOMAIN d.coordinates :
            d.coordinates[c].ring = addRings(d)[i].id => ParsedCoordinates(d)[c] = addRings(d)[i].vertices
      BY ParsedListsMatch DEF AllMatch
    <3>3. QED
      BY <3>1, <3>2
  <2>3. QED
    BY <2>1, <2>2
<1>3. RingsMatch'
  BY <1>1, <1>2 DEF RingsMatch
<1>4. CoordsGiven'
  BY <1>1 DEF CoordsGiven
<1>5. QED
  BY <1>3, <1>4

(* The coordinates handed over for a ring are those given for its          *)
(* vertices.                                                               *)
LEMMA ListsGiven ==
  ASSUME BufferInv, phase = "contours", RingsMatch, nextRing \in DOMAIN rings,
         NEW t \in DOMAIN document.themes, NEW j \in DOMAIN rings[nextRing].vertices
  PROVE  Resize(ListsForRing(rings[nextRing])[t], Len(rings[nextRing].vertices))[j]
           = Given(document, t, rings[nextRing].vertices[j])
<1> DEFINE ring == rings[nextRing]
           pts == ring.vertices
           l == TexCoordsForRing(ring.id, document.themes[t])
           W == SUBSET TexturePlacesOf(document)
<1>1. /\ document \in Documents /\ rings \in Seq(RingsOf(document))
      /\ coordinates \in [DOMAIN document.coordinates -> Seq(W)]
  BY DEF BufferInv, PolygonTyped
<1>2. ring \in RingsOf(document)
  BY <1>1, LenProperties, ElementOfSeq
<1>3. ring.id \in DOMAIN document.rings /\ pts \in Seq(RingPlaces(document, ring.id))
  BY <1>2 DEF RingsOf
<1>4. Len(pts) \in Nat /\ DOMAIN pts = 1..Len(pts)
  BY <1>3, LenProperties
<1>5. PICK k \in DOMAIN document.rings[ring.id].points : pts[j] = {Place(ring.id, k)}
  <2> HIDE DEF ring, pts
  <2>1. pts[j] \in RingPlaces(document, ring.id)
    BY <1>3, <1>4, ElementOfSeq DEF ring, pts
  <2>2. QED
    BY <2>1 DEF RingPlaces
<1>6. Place(ring.id, k).ring = ring.id
  BY DEF Place
<1>7. Given(document, t, pts[j]) = IF HasList(document, t, ring.id) THEN pts[j] ELSE {}
  <2> HIDE DEF ring, pts
  <2>1. QED
    BY <1>5, <1>6 DEF Given
<1>8. ListsForRing(ring)[t] = l
  BY DEF ListsForRing
<1>9. /\ l \in Seq(W)
      /\ \/ l = <<>> /\ ~HasList(document, t, ring.id)
         \/ \E c \in DOMAIN document.coordinates :
              /\ document.coordinates[c].of = document.themes[t]
              /\ document.coordinates[c].ring = ring.id
              /\ l = coordinates[c]
  <2>1. \A r, definition :
          /\ TexCoordsForRing(r, definition) \in Seq(W)
          /\ \/ /\ TexCoordsForRing(r, definition) = <<>>
                /\ ~\E c \in DOMAIN document.coordinates : /\ document.coordinates[c].of = definition
                                                           /\ document.coordinates[c].ring = r
             \/ \E c \in DOMAIN document.coordinates :
                  /\ document.coordinates[c].of = definition
                  /\ document.coordinates[c].ring = r
                  /\ TexCoordsForRing(r, definition) = coordinates[c]
    <3> HIDE DEF W
    <3>1. QED
      BY <1>1, TexCoordsOfRing
  <2>2. QED
    BY <2>1, Zenon DEF HasList
<1>10. Origin \in W /\ Origin = {}
  BY DEF Origin
<1>11. CASE l = <<>> /\ ~HasList(document, t, ring.id)
  <2>1. Len(l) = 0
    BY <1>11
  <2>2. \A i \in 1..Len(pts) : Resize(l, Len(pts))[i] = Origin
    <3> DEFINE n == Len(pts)
    <3>1. n \in Nat
      BY <1>4
    <3> HIDE DEF l, W, n
    <3>2. \A i \in 1..n : Resize(l, n)[i] = Origin
      BY <1>9, <1>10, <2>1, <3>1, ResizeFacts
    <3>3. QED
      BY <3>2 DEF n
  <2>3. QED
    BY <1>4, <1>7, <1>8, <1>10, <1>11, <2>2
<1>12. CASE \E c \in DOMAIN document.coordinates :
              /\ document.coordinates[c].of = document.themes[t]
              /\ document.coordinates[c].ring = ring.id
              /\ l = coordinates[c]
  <2>1. PICK c \in DOMAIN document.coordinates :
              /\ document.coordinates[c].of = document.themes[t]
              /\ document.coordinates[c].ring = ring.id
              /\ l = coordinates[c]
    BY <1>12
  <2>2. HasList(document, t, ring.id)
    BY <2>1 DEF HasList
  <2>3. nextRing >= nextRing
    BY DEF BufferInv, PolygonTyped
  <2>4. coordinates[c] = pts
    BY <2>1, <2>3 DEF RingsMatch
  <2>5. Len(l) = Len(pts) /\ l = pts
    BY <2>1, <2>4
  <2>6. Resize(l, Len(pts)) = l
    <3> DEFINE n == Len(pts)
    <3>1. n \in Nat /\ Len(l) = n
      BY <1>4, <2>5
    <3> HIDE DEF l, W, n
    <3>2. Resize(l, n) = l
      BY <1>9, <1>10, <3>1, ResizeFacts
    <3>3. QED
      BY <3>2 DEF n
  <2>7. QED
    BY <1>7, <1>8, <2>2, <2>5, <2>6
<1>13. QED
  BY <1>9, <1>11, <1>12

LEMMA AddContourMatches ==
  ASSUME BufferInv, RingsMatch, CoordsGiven, AddContour
  PROVE  RingsMatch' /\ CoordsGiven'
<1> DEFINE ring == rings[nextRing]
           pts == ring.vertices
           lists == ListsForRing(ring)
           P == SUBSET Places
           W == SUBSET TexturePlacesOf(document)
<1>1. /\ phase = "contours" /\ nextRing \in DOMAIN rings
      /\ addContour(pts, lists)
      /\ UNCHANGED <<document, coordinates>>
      /\ nextRing' = nextRing + 1
      /\ rings' = IF keepVertices THEN rings ELSE [rings EXCEPT ![nextRing].vertices = <<>>]
  BY DEF AddContour, ListsForRing
<1>2. /\ document \in Documents /\ rings \in Seq(RingsOf(document)) /\ nextRing \in 1..(Len(rings) + 1)
      /\ coordinates \in [DOMAIN document.coordinates -> Seq(W)]
  BY <1>1 DEF BufferInv, PolygonTyped
<1>3. RingsMatch'
  <2>1. DOMAIN rings' = DOMAIN rings /\ \A i \in DOMAIN rings : i # nextRing => rings'[i] = rings[i]
    BY <1>1
  <2>2. DOMAIN rings = 1..Len(rings) /\ Len(rings) \in Nat
    BY <1>2, LenProperties
  <2>3. \A i \in DOMAIN rings : i >= nextRing + 1 => i >= nextRing /\ i # nextRing
    BY <1>2, <2>2
  <2>4. ASSUME NEW i \in DOMAIN rings', NEW c \in DOMAIN document.coordinates, i >= nextRing + 1,
               document.coordinates[c].ring = rings'[i].id
        PROVE  coordinates[c] = rings'[i].vertices
    <3>1. i \in DOMAIN rings /\ i >= nextRing /\ rings'[i] = rings[i]
      BY <2>1, <2>3, <2>4
    <3>2. QED
      BY <1>1, <2>4, <3>1 DEF RingsMatch
  <2>5. QED
    BY <1>1, <2>4 DEF RingsMatch
<1>4. ring \in RingsOf(document)
  BY <1>1, <1>2, LenProperties, ElementOfSeq
<1>5. pts \in Seq(P)
  BY <1>4 DEF RingsOf, Places
<1>6. lists \in Seq(Seq(W)) /\ Len(lists) = Len(document.themes) /\ Origin \in W
  <2>1. Origin \in W
    BY DEF Origin
  <2> HIDE DEF W, ring
  <2>2. lists \in Seq(Seq(W)) /\ Len(lists) = Len(document.themes)
    BY <1>2, ListsForRingType
  <2>3. QED
    BY <2>1, <2>2
<1>7. vertices \in Seq(P) /\ texCoordsLists \in Seq(Seq(W)) /\ ListsFit(Len(lists))
  BY <1>6 DEF BufferInv, TesselatorTyped
<1>8. CASE Len(pts) < 3
  <2>1. UNCHANGED <<vertices, texCoordsLists, document>>
    BY <1>1, <1>8 DEF addContour
  <2>2. CoordsGiven'
    BY <2>1 DEF CoordsGiven
  <2>3. QED
    BY <1>3, <2>2
<1>9. CASE ~(Len(pts) < 3)
  <2> DEFINE v == Len(vertices)
             n == Len(pts)
             a == AppendedTexCoords(lists, n)
  <2>1. texCoordsLists' = a /\ vertices' = vertices \o pts
    BY <1>1, <1>9 DEF addContour
  <2>2. v \in Nat /\ n \in Nat /\ DOMAIN pts = 1..n
    BY <1>5, <1>7, LenProperties
  <2>3. /\ a \in Seq(Seq(W)) /\ Len(a) = Len(lists)
        /\ \A k \in 1..Len(lists) :
             /\ Len(a[k]) = v + n
             /\ \A j \in 1..v : a[k][j] = texCoordsLists[k][j]
             /\ \A j \in 1..n : a[k][v + j] = Resize(lists[k], n)[j]
    <3>1. CanAppend(lists, n, P, W)
      BY <1>6, <1>7, <2>2 DEF CanAppend
    <3> HIDE DEF P, W, lists, n, a, v
    <3>2. ListsAppended(lists, n, W)
      BY <3>1, AppendedType, Zenon
    <3>3. QED
      BY <3>2, Zenon DEF ListsAppended, a, v
  <2>4. DOMAIN a = 1..Len(lists) /\ DOMAIN document.themes = 1..Len(lists)
    <3>1. DOMAIN document.themes = 1..Len(document.themes)
      BY <1>2, DocumentFacts
    <3>2. DOMAIN a = 1..Len(a)
      <4> HIDE DEF a, W
      <4>1. QED
        BY <2>3, LenProperties
    <3>3. QED
      BY <1>6, <2>3, <3>1, <3>2
  <2>5. /\ Len(vertices \o pts) = v + n
        /\ \A j \in 1..v : (vertices \o pts)[j] = vertices[j]
        /\ \A j \in 1..n : (vertices \o pts)[v + j] = pts[j]
    <3> HIDE DEF pts, P
    <3>1. QED
      BY <1>5, <1>7, Joined
  <2>6. vertices \o pts \in Seq(P)
    <3> HIDE DEF pts, P
    <3>1. QED
      BY <1>5, <1>7, Joined
  <2>7. DOMAIN (vertices \o pts) = 1..(v + n)
    <3> HIDE DEF pts, P, v, n
    <3>1. QED
      BY <2>5, <2>6, LenProperties
  <2>8. \A k \in 1..Len(lists), j \in 1..n : Resize(lists[k], n)[j] = Given(document, k, pts[j])
    BY <1>1, <2>2, <2>4, ListsGiven
  <2>9. \A k \in 1..Len(lists), j \in 1..v : texCoordsLists[k][j] = Given(document, k, vertices[j])
    <3>1. ASSUME NEW k \in 1..Len(lists), NEW j \in 1..v
          PROVE  texCoordsLists[k][j] = Given(document, k, vertices[j])
      <4>1. j \in DOMAIN vertices
        BY <1>7, LenProperties
      <4>2. vertices # <<>>
        BY <2>2
      <4>3. Len(texCoordsLists) = Len(lists)
        BY <1>7, <4>2 DEF ListsFit
      <4>4. k \in DOMAIN texCoordsLists
        <5> HIDE DEF W
        <5>1. QED
          BY <1>7, <4>3, LenProperties
      <4>5. QED
        BY <4>1, <4>4 DEF CoordsGiven
    <3>2. QED
      BY <3>1
  <2> HIDE DEF v, n, a, lists, pts
  <2>10. ASSUME NEW k \in 1..Len(lists), NEW j \in 1..(v + n)
         PROVE  a[k][j] = Given(document, k, (vertices \o pts)[j])
    <3>1. CASE j \in 1..v
      BY <2>3, <2>5, <2>9, <3>1
    <3>2. CASE j \notin 1..v
      <4>1. PICK i \in 1..n : j = v + i
        <5>1. j - v \in 1..n /\ j = v + (j - v)
          BY <2>2, <3>2
        <5>2. QED
          BY <5>1
      <4>2. a[k][v + i] = Resize(lists[k], n)[i]
        BY <2>3
      <4>3. (vertices \o pts)[v + i] = pts[i]
        BY <2>5
      <4>4. Resize(lists[k], n)[i] = Given(document, k, pts[i])
        BY <2>8
      <4>5. QED
        BY <4>1, <4>2, <4>3, <4>4
    <3>3. QED
      BY <3>1, <3>2
  <2>11. CoordsGiven'
    BY <1>1, <2>1, <2>4, <2>7, <2>10 DEF CoordsGiven
  <2>12. QED
    BY <1>3, <2>11
<1>10. QED
  BY <1>8, <1>9

(* Coordinates given for vertices make those given for a vertex between.   *)
LEMMA CombineMatches ==
  ASSUME BufferInv, CoordsGiven, GluCombine
  PROVE  CoordsGiven'
<1> DEFINE v == Len(vertices)
<1>1. PICK from \in SUBSET known : Cardinality(from) \in {2, 4} /\ combineCallback(from)
  BY DEF GluCombine
<1>2. from # {}
  BY <1>1, FS_EmptySet
<1>3. document' = document
  BY DEF GluCombine, PolygonStays
<1>4. /\ vertices' = Append(vertices, NewVertex(from))
      /\ DOMAIN texCoordsLists' = DOMAIN texCoordsLists
      /\ \A k \in DOMAIN texCoordsLists :
           texCoordsLists'[k] = Append(texCoordsLists[k], NewTexCoord(k, from))
  <2>1. PICK P, Q, size : P = Places /\ Q = TexturePlacesOf(document) /\ size = Len(document.themes)
    OBVIOUS
  <2>2. TesselatorTyped(SUBSET P, SUBSET Q) /\ IndicesParallel /\ QueueWithin /\ KnownWithin
        /\ ListsFit(size)
    BY <2>1 DEF BufferInv
  <2>3. QED
    BY <1>1, <1>2, <2>2, VertexMade
<1>5. vertices \in Seq(SUBSET Places) /\ v \in Nat /\ DOMAIN vertices = 1..v
  BY LenProperties DEF BufferInv, TesselatorTyped
<1>6. \A i \in from : i + 1 \in 1..v
  <2>1. known \subseteq 0..(v - 1)
    BY DEF BufferInv, KnownWithin
  <2> HIDE DEF v
  <2>2. QED
    BY <1>5, <2>1
<1>7. NewVertex(from) \in SUBSET Places
  <2>1. \A i \in from : vertices[i + 1] \in SUBSET Places
    BY <1>5, <1>6, ElementOfSeq
  <2>2. QED
    BY <2>1 DEF NewVertex
<1>8. /\ DOMAIN vertices' = 1..(v + 1)
      /\ \A j \in 1..v : vertices'[j] = vertices[j]
      /\ vertices'[v + 1] = NewVertex(from)
  <2>1. \A x \in SUBSET Places :
          /\ DOMAIN Append(vertices, x) = 1..(v + 1)
          /\ \A j \in 1..v : Append(vertices, x)[j] = vertices[j]
          /\ Append(vertices, x)[v + 1] = x
    BY <1>5, AppendProperties
  <2>2. QED
    BY <1>4, <1>7, <2>1
<1>9. ASSUME NEW t \in DOMAIN texCoordsLists, NEW j \in 1..(v + 1)
      PROVE  texCoordsLists'[t][j] = Given(document, t, vertices'[j])
  <2> DEFINE l == texCoordsLists[t]
             W == SUBSET TexturePlacesOf(document)
  <2>1. l \in Seq(W)
    <3>1. texCoordsLists \in Seq(Seq(W))
      BY DEF BufferInv, TesselatorTyped
    <3> HIDE DEF W
    <3>2. QED
      BY <3>1, LenProperties, ElementOfSeq
  <2>2. Len(l) = v
    BY DEF BufferInv, ListsFit
  <2>3. \A i \in 1..v : l[i] = Given(document, t, vertices[i])
    BY <1>5 DEF CoordsGiven
  <2>4. \A i \in from : l[i + 1] = Given(document, t, vertices[i + 1])
    BY <1>6, <2>3
  <2>5. NewTexCoord(t, from) = Given(document, t, NewVertex(from))
    <3>1. NewTexCoord(t, from) = UNION {l[i + 1] : i \in from}
      BY DEF NewTexCoord
    <3>2. NewVertex(from) = UNION {vertices[i + 1] : i \in from}
      BY DEF NewVertex
    <3> HIDE DEF l
    <3>3. ASSUME NEW p
          PROVE  p \in NewTexCoord(t, from) <=> p \in Given(document, t, NewVertex(from))
      <4>1. p \in NewTexCoord(t, from) <=> \E i \in from : p \in l[i + 1]
        BY <3>1
      <4>2. \A i \in from :
              p \in l[i + 1] <=> p \in vertices[i + 1] /\ HasList(document, t, p.ring)
        BY <2>4 DEF Given
      <4>3. p \in Given(document, t, NewVertex(from)) <=>
              (\E i \in from : p \in vertices[i + 1]) /\ HasList(document, t, p.ring)
        BY <3>2 DEF Given
      <4>4. QED
        BY <4>1, <4>2, <4>3
    <3>4. QED
      BY <3>3
  <2>6. NewTexCoord(t, from) \in W
    <3>1. \A i \in from : l[i + 1] \in W
      <4> HIDE DEF W, l
      <4>1. QED
        BY <1>6, <2>1, <2>2, ElementOfSeq
    <3>2. QED
      BY <3>1 DEF NewTexCoord
  <2>7. /\ \A i \in 1..v : Append(l, NewTexCoord(t, from))[i] = l[i]
        /\ Append(l, NewTexCoord(t, from))[v + 1] = NewTexCoord(t, from)
    <3> HIDE DEF W, l
    <3>1. QED
      BY <2>1, <2>2, <2>6, AppendProperties
  <2>8. texCoordsLists'[t] = Append(l, NewTexCoord(t, from))
    BY <1>4
  <2> HIDE DEF l
  <2>9. CASE j \in 1..v
    BY <1>8, <2>3, <2>7, <2>8, <2>9
  <2>10. CASE j \notin 1..v
    <3>1. j = v + 1
      BY <1>5, <2>10
    <3>2. QED
      BY <1>8, <2>5, <2>7, <2>8, <3>1
  <2>11. QED
    BY <2>9, <2>10
<1>10. QED
  BY <1>3, <1>4, <1>8, <1>9 DEF CoordsGiven

LEMMA TexturedStep == BufferInv /\ TexturedInv /\ [Next]_vars => TexturedInv'
<1> SUFFICES ASSUME BufferInv, TexturedInv, [Next]_vars
             PROVE  TexturedInv'
  OBVIOUS
<1>1. ASSUME NEW d \in Documents, Finish(d)
      PROVE  TexturedInv'
  <2>1. document' = d
    BY <1>1 DEF Finish
  <2>2. AllMatch(d) => RingsMatch' /\ CoordsGiven'
    BY <1>1, FinishMatches
  <2>3. QED
    BY <2>1, <2>2 DEF TexturedInv
<1>2. ASSUME UNCHANGED <<document, vertices, texCoordsLists>>, phase' # "contours"
      PROVE  TexturedInv'
  BY <1>2 DEF TexturedInv, RingsMatch, CoordsGiven
<1>3. CASE AddContour
  <2>1. document' = document
    BY <1>3 DEF AddContour
  <2>2. RingsMatch /\ CoordsGiven => RingsMatch' /\ CoordsGiven'
    BY <1>3, AddContourMatches
  <2>3. QED
    BY <2>1, <2>2 DEF TexturedInv
<1>4. CASE GluCombine
  <2>1. document' = document /\ phase' # "contours"
    BY <1>4 DEF GluCombine, PolygonStays
  <2>2. CoordsGiven => CoordsGiven'
    BY <1>4, CombineMatches
  <2>3. QED
    BY <2>1, <2>2 DEF TexturedInv, RingsMatch
<1>5. CASE Compute \/ GluBegin \/ GluVertex \/ GluEnd \/ TakeOver
  <2>1. UNCHANGED <<document, vertices, texCoordsLists>>
    BY <1>5 DEF Compute, processContours, GluBegin, beginCallback, GluVertex, vertexDataCallback,
                GluEnd, endCallback, TakeOver, PolygonStays, tesselatorVars
  <2>2. phase' # "contours"
    BY <1>5 DEF Compute, GluBegin, GluVertex, GluEnd, TakeOver
  <2>3. QED
    BY <1>2, <2>1, <2>2
<1>6. CASE UNCHANGED vars
  <2>1. UNCHANGED <<document, vertices, texCoordsLists, rings, coordinates, nextRing, phase>>
    BY <1>6 DEF vars, tesselatorVars
  <2>2. QED
    BY <2>1 DEF TexturedInv, RingsMatch, CoordsGiven
<1>7. QED
  BY <1>1, <1>3, <1>4, <1>5, <1>6 DEF Next

(* In every theme a vertex of a finished polygon has the coordinates the   *)
(* document gives for the vertices it is made of, (0, 0) where it gives    *)
(* none, for any number of themes, rings and lists, whatever GLU makes     *)
(* (getTexCoordsForRingAndTheme, addContour, combineCallback).             *)
THEOREM CoordinatesGiven == Spec => []OwnTexCoords
<1>1. Init => BufferInv /\ TexturedInv /\ TakenInv /\ EmittedInv
  BY BuffersInit, TexturedInit, TrianglesInit
<1>2. BufferInv /\ TexturedInv /\ TakenInv /\ EmittedInv /\ [Next]_vars
        => (BufferInv /\ TexturedInv /\ TakenInv /\ EmittedInv)'
  BY BuffersStep, TexturedStep, TrianglesStep
<1>3. BufferInv /\ TexturedInv /\ TakenInv => OwnTexCoords
  <2> SUFFICES ASSUME BufferInv, TexturedInv, TakenInv, phase = "idle", AllMatch(document),
                      NEW t \in DOMAIN polygon.texCoords
               PROVE  /\ Len(polygon.texCoords[t]) = Len(polygon.vertices)
                      /\ \A k \in DOMAIN polygon.vertices :
                           polygon.texCoords[t][k] =
                             {p \in polygon.vertices[k] : \E c \in DOMAIN document.coordinates :
                                /\ document.coordinates[c].of = document.themes[t]
                                /\ document.coordinates[c].ring = p.ring}
    BY Zenon DEF OwnTexCoords, AllMatch
  <2>1. /\ polygon.vertices = vertices
        /\ polygon.texCoords = IF vertices = <<>> THEN <<>>
                               ELSE [i \in DOMAIN document.themes |-> texCoordsLists[i]]
    BY DEF TakenInv
  <2>2. vertices # <<>>
    BY <2>1
  <2>3. polygon.texCoords = [i \in DOMAIN document.themes |-> texCoordsLists[i]]
    BY <2>1, <2>2
  <2>4. t \in DOMAIN document.themes /\ polygon.texCoords[t] = texCoordsLists[t]
    BY <2>3
  <2>5. Len(texCoordsLists) = Len(document.themes)
        /\ \A k \in DOMAIN texCoordsLists : Len(texCoordsLists[k]) = Len(vertices)
    BY <2>2 DEF BufferInv, ListsFit
  <2>6. t \in DOMAIN texCoordsLists
    <3>1. DOMAIN document.themes = 1..Len(document.themes)
      <4>1. CASE document \in Documents
        BY <4>1, DocumentFacts
      <4>2. CASE document = NoDocument
        <5>1. document.themes = <<>>
          BY <4>2 DEF NoDocument
        <5>2. QED
          BY <2>4, <5>1
      <4>3. QED
        BY <4>1, <4>2 DEF TexturedInv
    <3> DEFINE W == SUBSET TexturePlacesOf(document)
    <3>2. texCoordsLists \in Seq(Seq(W))
      BY DEF BufferInv, TesselatorTyped
    <3> HIDE DEF W
    <3>3. DOMAIN texCoordsLists = 1..Len(texCoordsLists)
      BY <3>2, LenProperties
    <3>4. QED
      BY <2>4, <2>5, <3>1, <3>3
  <2>7. \A k \in DOMAIN vertices : texCoordsLists[t][k] = Given(document, t, vertices[k])
    BY <2>6 DEF TexturedInv, CoordsGiven
  <2>8. QED
    BY <2>1, <2>4, <2>5, <2>6, <2>7 DEF Given, HasList
<1>4. QED
  BY <1>1, <1>2, <1>3, PTL DEF Spec

-----------------------------------------------------------------------------
(* The vertices of a finished polygon.                                     *)

(* The contour of a ring is made of vertices of it, none of them twice.    *)
ContourFor(d, r, cleaned) == IF cleaned THEN Cleaned(d, r).vertices ELSE VerticesOf(d, r)

LEMMA ContourType ==
  ASSUME NEW d \in Documents, NEW r \in DOMAIN d.rings, NEW cleaned \in BOOLEAN
  PROVE  /\ ContourFor(d, r, cleaned) \in Seq(RingPlaces(d, r))
         /\ IsInjective(ContourFor(d, r, cleaned))
<1>1. ASSUME NEW vs \in Seq(RingPlaces(d, r)), InOrder(vs)
      PROVE  IsInjective(vs)
  <2> DEFINE n == Len(vs)
             f == [j \in 1..n |-> AtOf(vs[j])]
  <2>1. n \in Nat /\ DOMAIN vs = 1..n /\ \A j \in 1..n : vs[j] \in RingPlaces(d, r)
    BY LenProperties, ElementOfSeq
  <2>2. \A v \in RingPlaces(d, r) : AtOf(v) \in Nat
    <3>1. ASSUME NEW k \in DOMAIN d.rings[r].points
          PROVE  AtOf({Place(r, k)}) \in Nat
      <4>1. k \in Nat
        BY DocumentFacts
      <4>2. AtOf({Place(r, k)}) = k
        BY AtOfPlace
      <4>3. QED
        BY <4>1, <4>2
    <3>2. QED
      BY <3>1 DEF RingPlaces
  <2>3. f \in [1..n -> Nat]
    BY <2>1, <2>2
  <2>4. \A j \in 1..n : j > 1 => f[j - 1] < f[j]
    <3>1. ASSUME NEW j \in 1..n, j > 1
          PROVE  f[j - 1] < f[j]
      <4>1. j - 1 \in 1..n
        BY <2>1, <3>1
      <4>2. AtOf(vs[j - 1]) < AtOf(vs[j])
        BY <1>1, <2>1, <3>1 DEF InOrder
      <4>3. QED
        BY <4>1, <4>2
    <3>2. QED
      BY <3>1
  <2>5. \A i, j \in 1..n : f[i] = f[j] => i = j
    <3> HIDE DEF n, f
    <3>1. QED
      BY <2>1, <2>3, <2>4, IncreasingOnce
  <2>6. QED
    BY <2>1, <2>5 DEF IsInjective
<1>2. CASE cleaned
  BY <1>1, <1>2, CleanedRing DEF ContourFor
<1>3. CASE ~cleaned
  <2> DEFINE vs == VerticesOf(d, r)
  <2>1. vs \in Seq(RingPlaces(d, r))
    BY RingOfDocument
  <2>2. InOrder(vs)
    <3>1. vs = [k \in DOMAIN d.rings[r].points |-> {Place(r, k)}]
      BY DEF VerticesOf
    <3>2. DOMAIN d.rings[r].points = 1..Len(d.rings[r].points) /\ Len(d.rings[r].points) \in Nat
      BY DocumentFacts
    <3> DEFINE n == Len(d.rings[r].points)
    <3> HIDE DEF vs, n
    <3>3. \A k \in 1..n : AtOf(vs[k]) = k
      BY <3>1, <3>2, AtOfPlace DEF n
    <3>4. DOMAIN vs = 1..n /\ n \in Nat
      BY <3>1, <3>2 DEF n
    <3>5. ASSUME NEW j \in 1..n, j > 1
          PROVE  AtOf(vs[j - 1]) < AtOf(vs[j])
      <4>1. j - 1 \in 1..n
        BY <3>4, <3>5
      <4>2. AtOf(vs[j - 1]) = j - 1 /\ AtOf(vs[j]) = j
        BY <3>3, <4>1
      <4>3. QED
        BY <4>2
    <3>6. QED
      BY <3>4, <3>5 DEF InOrder
  <2>3. QED
    BY <1>1, <1>3, <2>1, <2>2 DEF ContourFor
<1>4. QED
  BY <1>2, <1>3

(* addRing puts every ring of the document there once at most, an exterior *)
(* one, if there is any, first, and it is the first of them.               *)
LEMMA RingsAddedOnce ==
  ASSUME NEW d \in Documents
  PROVE  /\ \A i, j \in DOMAIN addRings(d) : addRings(d)[i].id = addRings(d)[j].id => i = j
         /\ \A i \in DOMAIN addRings(d), r \in DOMAIN d.rings :
              d.rings[r].exterior =>
                /\ d.rings[addRings(d)[i].id].exterior <=> i = 1
                /\ addRings(d)[1].id <= r
<1> DEFINE R == DOMAIN d.rings
           N == Len(d.rings)
           S == {AddedOf(d, r) : r \in R}
           exterior == {r \in R : d.rings[r].exterior}
           first == IF exterior = {} THEN <<>> ELSE <<AddedOf(d, Min(exterior))>>
           part == [r \in R |-> IF r \in exterior THEN <<>> ELSE <<AddedOf(d, r)>>]
           To(n) == FlattenSeq([r \in 1..n |-> part[r]])
           O(n) == {AddedOf(d, r) : r \in {q \in 1..n : q \in R \ exterior}}
           A(n) == /\ To(n) \in Seq(S) /\ IsInjective(To(n))
                   /\ \A i \in DOMAIN To(n) : To(n)[i] \in O(n)
           U == {n \in Nat : n <= N => A(n)}
<1>1. N \in Nat /\ R = 1..N
  BY DocumentFacts
<1>2. addRings(d) = first \o FlattenSeq(part)
  BY Zenon DEF addRings, AddedOf
<1>3. \A q, r \in R : AddedOf(d, q) = AddedOf(d, r) => q = r
  <2>1. \A r \in R : AddedOf(d, r).id = r
    BY DEF AddedOf
  <2>2. QED
    BY <2>1
<1>4. \A r \in R : AddedOf(d, r) \in S
  OBVIOUS
<1>5. ASSUME NEW r \in R
      PROVE  /\ part[r] \in Seq(S) /\ IsInjective(part[r])
             /\ \A i \in DOMAIN part[r] : part[r][i] = AddedOf(d, r) /\ r \notin exterior
  <2> DEFINE e == AddedOf(d, r)
  <2>1. part[r] = IF r \in exterior THEN <<>> ELSE <<e>>
    OBVIOUS
  <2>2. e \in S
    BY <1>4
  <2> HIDE DEF e, part, exterior, S
  <2>3. CASE r \in exterior
    <3>1. part[r] = <<>>
      BY <2>1, <2>3
    <3>2. QED
      BY <3>1, EmptySeq DEF IsInjective
  <2>4. CASE r \notin exterior
    <3>1. part[r] = <<e>>
      BY <2>1, <2>4
    <3>2. <<e>> \in Seq(S) /\ DOMAIN <<e>> = {1} /\ <<e>>[1] = e
      BY <2>2
    <3>3. QED
      BY <2>4, <3>1, <3>2 DEF IsInjective, e
  <2>5. QED
    BY <2>3, <2>4
<1> HIDE DEF S, part, exterior
<1>6. 0 \in U
  <2>1. [r \in 1..0 |-> part[r]] = <<>>
    OBVIOUS
  <2>2. To(0) = <<>>
    BY <2>1, FlattenEmpty
  <2> HIDE DEF To
  <2>3. A(0)
    <3>1. To(0) \in Seq(S)
      BY <2>2, EmptySeq
    <3>2. IsInjective(<<>>) /\ DOMAIN <<>> = {}
      BY DEF IsInjective
    <3>3. IsInjective(To(0)) /\ DOMAIN To(0) = {}
      BY <2>2, <3>2, Zenon
    <3>4. \A i \in DOMAIN To(0) : To(0)[i] \in O(0)
      BY <3>3
    <3> HIDE DEF O
    <3>5. QED
      BY <3>1, <3>3, <3>4
  <2> HIDE DEF A
  <2>4. QED
    BY <2>3
<1>7. ASSUME NEW n \in Nat, n \in U
      PROVE  n + 1 \in U
  <2>1. SUFFICES ASSUME n + 1 <= N
                 PROVE  A(n + 1)
    <3> HIDE DEF A
    <3>1. QED
      OBVIOUS
  <2>2. n + 1 \in R /\ 1..(n + 1) \subseteq R /\ 1..n \subseteq 1..(n + 1)
    BY <1>1, <2>1
  <2> DEFINE f == [r \in 1..(n + 1) |-> part[r]]
             s == To(n)
             t == part[n + 1]
  <2>3. f \in [1..(n + 1) -> Seq(S)] /\ f[n + 1] = t
    BY <1>5, <2>2
  <2>4. [j \in 1..n |-> f[j]] = [j \in 1..n |-> part[j]]
    BY <2>2
  <2>5. To(n + 1) = s \o t
    <3>1. FlattenSeq(f) = FlattenSeq([j \in 1..n |-> f[j]]) \o f[n + 1]
      <4> HIDE DEF f
      <4>1. QED
        BY <2>3, FlattenTo
    <3>2. QED
      BY <2>3, <2>4, <3>1
  <2>6. s \in Seq(S) /\ IsInjective(s) /\ \A i \in DOMAIN s : s[i] \in O(n)
    <3>1. A(n)
      <4> HIDE DEF A
      <4>1. QED
        BY <1>1, <1>7, <2>1
    <3> HIDE DEF To, O
    <3>2. QED
      BY <3>1
  <2>7. /\ t \in Seq(S) /\ IsInjective(t)
        /\ \A i \in DOMAIN t : t[i] = AddedOf(d, n + 1) /\ n + 1 \notin exterior
    BY <1>5, <2>2
  <2>8. AddedOf(d, n + 1) \notin O(n)
    <3>1. \A q \in 1..n : q # n + 1
      OBVIOUS
    <3>2. QED
      BY <1>3, <2>2, <3>1
  <2>9. O(n) \subseteq O(n + 1) /\ (n + 1 \notin exterior => AddedOf(d, n + 1) \in O(n + 1))
    BY <2>2
  <2> HIDE DEF f, s, t, To, O
  <2>10. IsInjective(s \o t)
    BY <2>6, <2>7, <2>8, ConcatApart
  <2>11. s \o t \in Seq(S) /\ \A i \in DOMAIN (s \o t) : (s \o t)[i] \in O(n + 1)
    <3>1. ASSUME NEW i \in DOMAIN (s \o t)
          PROVE  (s \o t)[i] \in O(n + 1)
      <4>1. \/ i \in DOMAIN s /\ (s \o t)[i] = s[i]
            \/ \E j \in DOMAIN t : (s \o t)[i] = t[j]
        BY <2>6, <2>7, EitherOf
      <4>2. QED
        BY <2>6, <2>7, <2>9, <4>1
    <3>2. QED
      BY <2>6, <2>7, <3>1, ConcatProperties
  <2>12. QED
    BY <2>5, <2>10, <2>11
<1>8. FlattenSeq(part) = To(N)
  BY <1>1 DEF part
<1> DEFINE rest == FlattenSeq(part)
<1>9. rest \in Seq(S) /\ IsInjective(rest) /\ \A i \in DOMAIN rest : \E r \in R \ exterior : rest[i] = AddedOf(d, r)
  <2>1. \A n \in Nat : n \in U
    <3> HIDE DEF U
    <3>1. QED
      BY <1>6, <1>7, NatInduct
  <2>2. To(N) \in Seq(S) /\ IsInjective(To(N)) /\ \A i \in DOMAIN To(N) : To(N)[i] \in O(N)
    <3>1. A(N)
      <4> HIDE DEF A
      <4>1. QED
        BY <1>1, <2>1
    <3> HIDE DEF To, O
    <3>2. QED
      BY <3>1
  <2>3. \A x \in O(N) : \E r \in R \ exterior : x = AddedOf(d, r)
    OBVIOUS
  <2> HIDE DEF To, O
  <2>4. QED
    BY <1>8, <2>2, <2>3
<1>10. \A r \in R : AddedOf(d, r).id = r
  BY DEF AddedOf
<1>11. \A r \in R : r \in exterior <=> d.rings[r].exterior
  BY DEF exterior
<1>12. CASE exterior = {}
  <2>1. addRings(d) = rest
    <3>1. addRings(d) = <<>> \o rest
      BY <1>2, <1>12
    <3> HIDE DEF rest
    <3>2. <<>> \o rest = rest
      BY <1>9, ConcatEmptySeq
    <3>3. QED
      BY <3>1, <3>2
  <2> HIDE DEF rest, first, R
  <2>2. \A i, j \in DOMAIN rest : rest[i].id = rest[j].id => i = j
    BY <1>9, <1>10 DEF IsInjective
  <2>3. QED
    BY <1>11, <1>12, <2>1, <2>2 DEF R
<1>13. CASE exterior # {}
  <2> DEFINE m == Min(exterior)
             e == AddedOf(d, m)
  <2>1. m \in exterior /\ \A r \in exterior : m <= r
    <3>1. exterior \in SUBSET Nat
      BY <1>1 DEF exterior
    <3>2. \E x \in exterior : \A j \in exterior : x <= j
      BY <1>13, <3>1, LeastNumber
    <3>3. QED
      BY <3>2 DEF Min
  <2>2. m \in R /\ e \in S /\ e.id = m
    <3>1. m \in R
      BY <2>1 DEF exterior
    <3>2. QED
      BY <1>4, <1>10, <3>1
  <2>3. addRings(d) = <<e>> \o rest
    BY <1>2, <1>13
  <2> HIDE DEF m, rest, first, R
  <2>4. <<e>> \in Seq(S) /\ IsInjective(<<e>>) /\ DOMAIN <<e>> = {1} /\ <<e>>[1] = e /\ Len(<<e>>) = 1
    <3> HIDE DEF e
    <3>1. <<e>> \in Seq(S) /\ DOMAIN <<e>> = {1} /\ <<e>>[1] = e /\ Len(<<e>>) = 1
      BY <2>2
    <3>2. QED
      BY <3>1 DEF IsInjective
  <2>5. \A j \in DOMAIN rest : rest[j].id \in R \ exterior /\ rest[j] # e
    BY <1>9, <1>10, <2>1, <2>2
  <2> DEFINE u == <<e>> \o rest
             o == <<e>>
  <2>6. IsInjective(u)
    <3>1. \A i \in DOMAIN o, j \in DOMAIN rest : o[i] # rest[j]
      BY <2>4, <2>5
    <3> HIDE DEF o
    <3>2. IsInjective(o \o rest)
      BY <1>9, <2>4, <3>1, ConcatApart DEF o
    <3>3. QED
      BY <3>2 DEF o
  <2>7. /\ DOMAIN u = 1..(1 + Len(rest)) /\ Len(rest) \in Nat /\ u[1] = e
        /\ \A i \in DOMAIN u : i # 1 => \E j \in DOMAIN rest : u[i] = rest[j]
    <3> HIDE DEF e
    <3>1. /\ DOMAIN u = 1..(Len(o) + Len(rest)) /\ Len(rest) \in Nat
          /\ \A i \in 1..Len(o) : u[i] = o[i]
          /\ \A i \in 1..Len(rest) : u[Len(o) + i] = rest[i]
      <4> HIDE DEF o
      <4>1. QED
        BY <1>9, <2>4, ConcatFacts DEF o
    <3>2. DOMAIN rest = 1..Len(rest)
      BY <1>9, LenProperties
    <3> HIDE DEF u
    <3>3. ASSUME NEW i \in DOMAIN u, i # 1
          PROVE  \E j \in DOMAIN rest : u[i] = rest[j]
      <4>1. i - 1 \in 1..Len(rest) /\ 1 + (i - 1) = i
        BY <2>4, <3>1, <3>3
      <4>2. u[1 + (i - 1)] = rest[i - 1]
        BY <2>4, <3>1, <4>1
      <4>3. QED
        BY <3>2, <4>1, <4>2
    <3>4. QED
      BY <2>4, <3>1, <3>3
  <2>8. addRings(d) = u
    BY <2>3
  <2> HIDE DEF u, e, o
  <2>9. \A i \in DOMAIN u : u[i].id \in R /\ (u[i].id \in exterior <=> i = 1) /\ AddedOf(d, u[i].id) = u[i]
    <3>1. AddedOf(d, e.id) = e
      BY <2>2 DEF e
    <3>2. \A j \in DOMAIN rest : AddedOf(d, rest[j].id) = rest[j]
      BY <1>9, <1>10
    <3>3. QED
      BY <2>1, <2>2, <2>5, <2>7, <3>1, <3>2
  <2>10. \A i, j \in DOMAIN u : u[i].id = u[j].id => i = j
    BY <2>6, <2>9 DEF IsInjective
  <2>11. \A i \in DOMAIN u, r \in R : d.rings[r].exterior => (d.rings[u[i].id].exterior <=> i = 1) /\ u[1].id <= r
    BY <1>11, <2>1, <2>2, <2>7, <2>9
  <2>12. QED
    BY <2>8, <2>10, <2>11 DEF R
<1>14. QED
  BY <1>12, <1>13

-----------------------------------------------------------------------------
(* The inductive invariant: every ring is there once and, as long as it is *)
(* not added, as it was parsed or cleaned; the vertices are the contours   *)
(* so far, no vertex twice, and GLU adds to them between two of them.      *)
Part(i) == IF Len(ContourOf(i)) < 3 THEN <<>> ELSE ContourOf(i)

ContoursTo(n) == FlattenSeq([i \in 1..n |-> Part(i)])

ExteriorFirst ==
  \A i \in DOMAIN rings, r \in DOMAIN document.rings :
    document.rings[r].exterior =>
      /\ document.rings[rings[i].id].exterior <=> i = 1
      /\ rings[1].id <= r

RingsOwn ==
  /\ \A i, j \in DOMAIN rings : rings[i].id = rings[j].id => i = j
  /\ ExteriorFirst
  /\ \A i \in DOMAIN rings : i >= nextRing \/ keepVertices => rings[i].vertices = ContourOf(i)

VerticesOwn ==
  phase = "contours" =>
    /\ vertices = ContoursTo(nextRing - 1)
    /\ IsInjective(vertices)
    /\ \A k \in DOMAIN vertices :
         \E i \in 1..(nextRing - 1) : vertices[k] \in RingPlaces(document, rings[i].id)

OnePlaceEach(s) == IsInjective(s) /\ \A k \in DOMAIN s : \E p \in s[k] : s[k] = {p}

MadeBetween(v, c) == (\E p, q \in v : p # q) /\ v \subseteq UNION Range(c)

Extends(vs, c) ==
  /\ Len(c) <= Len(vs)
  /\ \A k \in 1..Len(c) : vs[k] = c[k]
  /\ \A k \in DOMAIN vs : k > Len(c) => MadeBetween(vs[k], c)

MadeOwn ==
  phase # "contours" =>
    /\ Contours \in Seq(SUBSET Places)
    /\ OnePlaceEach(Contours)
    /\ Extends(vertices, Contours)

WholeTriangles == Len(outIndices) % 3 = 0

OwnInv == RingsOwn /\ VerticesOwn /\ MadeOwn /\ WholeTriangles

LEMMA OwnInit == Init => OwnInv
<1> SUFFICES ASSUME Init
             PROVE  OwnInv
  OBVIOUS
<1>1. rings = <<>> /\ vertices = <<>> /\ outIndices = <<>> /\ phase = "idle"
  BY DEF Init, TesselatorInit
<1>2. RingsOwn /\ VerticesOwn /\ WholeTriangles
  BY <1>1 DEF RingsOwn, ExteriorFirst, VerticesOwn, WholeTriangles
<1>3. Contours = <<>>
  <2>1. [i \in DOMAIN rings |-> IF Len(ContourOf(i)) < 3 THEN <<>> ELSE ContourOf(i)] = <<>>
    BY <1>1
  <2>2. QED
    BY <2>1, FlattenEmpty DEF Contours
<1>4. MadeOwn
  <2>1. Contours \in Seq(SUBSET Places)
    BY <1>3, EmptySeq
  <2>2. OnePlaceEach(Contours)
    BY <1>3 DEF OnePlaceEach, IsInjective
  <2>3. Extends(vertices, Contours)
    BY <1>1, <1>3 DEF Extends
  <2>4. QED
    BY <2>1, <2>2, <2>3 DEF MadeOwn
<1>5. QED
  BY <1>2, <1>4 DEF OwnInv

(* The contours are those of the rings' numbers.                           *)
LEMMA ContoursSame ==
  ASSUME UNCHANGED <<document, optimize>>, DOMAIN rings' = DOMAIN rings,
         \A i \in DOMAIN rings : rings'[i].id = rings[i].id
  PROVE  /\ \A i \in DOMAIN rings : ContourOf(i)' = ContourOf(i)
         /\ Contours' = Contours
         /\ \A n : 1..n \subseteq DOMAIN rings => ContoursTo(n)' = ContoursTo(n)
<1>1. ASSUME NEW i \in DOMAIN rings
      PROVE  ContourOf(i)' = ContourOf(i)
  BY <1>1 DEF ContourOf
<1>2. ASSUME NEW i \in DOMAIN rings
      PROVE  Part(i)' = Part(i)
  BY <1>1 DEF Part
<1>3. Contours' = Contours
  <2>1. Contours = FlattenSeq([i \in DOMAIN rings |-> Part(i)])
    BY DEF Contours, Part
  <2>2. Contours' = FlattenSeq([i \in DOMAIN rings' |-> Part(i)'])
    BY DEF Contours, Part
  <2>3. [i \in DOMAIN rings' |-> Part(i)'] = [i \in DOMAIN rings |-> Part(i)]
    BY <1>2
  <2>4. QED
    BY <2>1, <2>2, <2>3
<1>4. ASSUME NEW n, 1..n \subseteq DOMAIN rings
      PROVE  ContoursTo(n)' = ContoursTo(n)
  <2>1. [i \in 1..n |-> Part(i)'] = [i \in 1..n |-> Part(i)]
    BY <1>2, <1>4
  <2>2. QED
    BY <2>1 DEF ContoursTo
<1>5. QED
  BY <1>1, <1>3, <1>4

LEMMA RingsStay ==
  ASSUME OwnInv, UNCHANGED <<document, rings, nextRing, optimize, keepVertices>>
  PROVE  RingsOwn' /\ Contours' = Contours
<1>1. Contours' = Contours /\ \A i \in DOMAIN rings : ContourOf(i)' = ContourOf(i)
  BY ContoursSame
<1>2. ExteriorFirst'
  BY DEF OwnInv, RingsOwn, ExteriorFirst
<1>3. \A i \in DOMAIN rings' : i >= nextRing' \/ keepVertices' => rings'[i].vertices = ContourOf(i)'
  BY <1>1 DEF OwnInv, RingsOwn
<1>4. \A i, j \in DOMAIN rings' : rings'[i].id = rings'[j].id => i = j
  BY DEF OwnInv, RingsOwn
<1>5. QED
  BY <1>1, <1>2, <1>3, <1>4 DEF RingsOwn

LEMMA FinishOwn ==
  ASSUME NEW d \in Documents, Finish(d), optimize \in BOOLEAN
  PROVE  OwnInv'
<1>1. document' = d /\ phase' = "contours" /\ nextRing' = 1 /\ UNCHANGED <<optimize, keepVertices>>
      /\ vertices' = <<>> /\ outIndices' = <<>>
  BY DEF Finish, init
<1> DEFINE a == addRings(d)
<1>2. /\ DOMAIN rings' = DOMAIN a
      /\ \A i \in DOMAIN a : /\ rings'[i].id = a[i].id
                             /\ rings'[i].vertices = ContourFor(d, a[i].id, optimize)
  <2>1. CASE optimize
    <3>1. rings' = CleanedRings(d)
      BY <2>1, RingsOfPolygon
    <3>2. CleanedRings(d) = [i \in DOMAIN a |-> [id |-> a[i].id, vertices |-> Cleaned(d, a[i].id).vertices]]
      BY Zenon DEF CleanedRings
    <3> HIDE DEF a
    <3>3. QED
      BY <2>1, <3>1, <3>2 DEF ContourFor
  <2>2. CASE ~optimize
    <3>1. rings' = a
      BY <2>2, RingsOfPolygon
    <3>2. \A i \in DOMAIN a : a[i].vertices = VerticesOf(d, a[i].id)
      BY AddedRing
    <3> HIDE DEF a
    <3>3. QED
      BY <2>2, <3>1, <3>2 DEF ContourFor
  <2>3. QED
    BY <2>1, <2>2
<1>3. /\ \A i, j \in DOMAIN a : a[i].id = a[j].id => i = j
      /\ \A i \in DOMAIN a, r \in DOMAIN d.rings :
           d.rings[r].exterior => (d.rings[a[i].id].exterior <=> i = 1) /\ a[1].id <= r
      /\ DOMAIN a = 1..Len(a) /\ Len(a) \in Nat
  BY RingsAddedOnce, AddedRing
<1> HIDE DEF a
<1>4. \A i \in DOMAIN rings' : ContourOf(i)' = ContourFor(d, rings'[i].id, optimize)
  BY <1>1 DEF ContourOf, ContourFor
<1>5. \A i \in DOMAIN rings' : rings'[i].vertices = ContourOf(i)'
  BY <1>2, <1>4
<1>6. ExteriorFirst'
  <2>1. ASSUME NEW i \in DOMAIN rings', NEW r \in DOMAIN d.rings, d.rings[r].exterior
        PROVE  (d.rings[rings'[i].id].exterior <=> i = 1) /\ rings'[1].id <= r
    <3>1. 1 \in DOMAIN a
      BY <1>2, <1>3, <2>1
    <3>2. rings'[1].id = a[1].id /\ rings'[i].id = a[i].id /\ i \in DOMAIN a
      BY <1>2, <2>1, <3>1
    <3>3. QED
      BY <1>3, <2>1, <3>2
  <2>2. QED
    BY <1>1, <2>1 DEF ExteriorFirst
<1>7. \A i, j \in DOMAIN rings' : rings'[i].id = rings'[j].id => i = j
  BY <1>2, <1>3
<1>8. RingsOwn'
  BY <1>5, <1>6, <1>7 DEF RingsOwn
<1>9. VerticesOwn'
  <2>1. ContoursTo(0)' = <<>>
    <3>1. [i \in 1..0 |-> Part(i)'] = <<>>
      OBVIOUS
    <3>2. QED
      BY <3>1, FlattenEmpty DEF ContoursTo
  <2>2. nextRing' - 1 = 0
    BY <1>1
  <2>3. ContoursTo(nextRing - 1)' = <<>>
    BY <2>1, <2>2 DEF ContoursTo
  <2>4. QED
    BY <1>1, <2>3 DEF VerticesOwn, IsInjective
<1>10. MadeOwn' /\ WholeTriangles'
  BY <1>1 DEF MadeOwn, WholeTriangles
<1>11. QED
  BY <1>8, <1>9, <1>10 DEF OwnInv

LEMMA AddContourOwn ==
  ASSUME BufferInv, OwnInv, AddContour
  PROVE  OwnInv'
<1> DEFINE n == nextRing
           m == n - 1
           ring == rings[n]
           pts == ring.vertices
           V == SUBSET Places
<1>1. /\ phase = "contours" /\ n \in DOMAIN rings /\ nextRing' = n + 1
      /\ addContour(pts, ListsForRing(ring))
      /\ UNCHANGED <<document, optimize, keepVertices, phase>>
      /\ rings' = IF keepVertices THEN rings ELSE [rings EXCEPT ![n].vertices = <<>>]
  BY DEF AddContour, ListsForRing
<1>2. /\ document \in Documents /\ rings \in Seq(RingsOf(document)) /\ optimize \in BOOLEAN
      /\ Len(rings) \in Nat /\ DOMAIN rings = 1..Len(rings)
      /\ vertices \in Seq(V)
  BY <1>1, LenProperties DEF BufferInv, PolygonTyped, TesselatorTyped
<1>3. n \in Nat /\ m \in Nat /\ n = m + 1 /\ n <= Len(rings)
  BY <1>1, <1>2
<1>4. \A i \in DOMAIN rings : rings[i] \in RingsOf(document) /\ rings[i].id \in DOMAIN document.rings
  <2>1. \A q \in RingsOf(document) : q.id \in DOMAIN document.rings
    BY DEF RingsOf
  <2>2. QED
    BY <1>2, <2>1, ElementOfSeq
<1>5. /\ DOMAIN rings' = DOMAIN rings
      /\ \A i \in DOMAIN rings : /\ rings'[i].id = rings[i].id
                                 /\ i # n \/ keepVertices => rings'[i] = rings[i]
  <2>1. \A q \in RingsOf(document) : [q EXCEPT !.vertices = <<>>].id = q.id
    BY DEF RingsOf
  <2>2. rings' = rings \/ (~keepVertices /\ rings' = [rings EXCEPT ![n] = [rings[n] EXCEPT !.vertices = <<>>]])
    BY <1>1
  <2>3. QED
    BY <1>1, <1>4, <2>1, <2>2
<1>6. /\ \A i \in DOMAIN rings : ContourOf(i)' = ContourOf(i)
      /\ \A k : 1..k \subseteq DOMAIN rings => ContoursTo(k)' = ContoursTo(k)
  BY <1>1, <1>5, ContoursSame
<1>7. RingsOwn'
  <2>1. ExteriorFirst'
    <3>1. ASSUME NEW i \in DOMAIN rings
          PROVE  1 \in DOMAIN rings
      BY <1>2
    <3>2. ExteriorFirst
      BY DEF OwnInv, RingsOwn
    <3>3. QED
      BY <1>1, <1>5, <3>1, <3>2 DEF ExteriorFirst
  <2>2. ASSUME NEW i \in DOMAIN rings', i >= nextRing' \/ keepVertices'
        PROVE  rings'[i].vertices = ContourOf(i)'
    <3>1. i \in DOMAIN rings /\ (i >= n \/ keepVertices) /\ (i # n \/ keepVertices)
      BY <1>1, <1>2, <1>3, <1>5, <2>2
    <3>2. rings[i].vertices = ContourOf(i)
      BY <3>1 DEF OwnInv, RingsOwn
    <3>3. QED
      BY <1>5, <1>6, <3>1, <3>2
  <2>3. \A i, j \in DOMAIN rings' : rings'[i].id = rings'[j].id => i = j
    BY <1>5 DEF OwnInv, RingsOwn
  <2>4. QED
    BY <2>1, <2>2, <2>3 DEF RingsOwn
<1>8. /\ pts = ContourOf(n) /\ pts \in Seq(RingPlaces(document, ring.id)) /\ IsInjective(pts)
      /\ pts \in Seq(V) /\ Len(pts) \in Nat /\ DOMAIN pts = 1..Len(pts)
  <2>1. pts = ContourOf(n)
    BY <1>1, <1>3 DEF OwnInv, RingsOwn
  <2>2. ContourOf(n) = ContourFor(document, ring.id, optimize)
    BY DEF ContourOf, ContourFor
  <2>3. ring.id \in DOMAIN document.rings
    BY <1>1, <1>4
  <2> HIDE DEF pts, ring
  <2>4. pts \in Seq(RingPlaces(document, ring.id)) /\ IsInjective(pts)
    BY <1>2, <2>1, <2>2, <2>3, ContourType
  <2>5. RingPlaces(document, ring.id) \subseteq V
    BY <1>2, <2>3, RingOfDocument DEF Places
  <2>6. QED
    BY <2>1, <2>4, <2>5, SeqMonotonic, LenProperties
<1>9. /\ vertices = ContoursTo(m) /\ IsInjective(vertices)
      /\ \A k \in DOMAIN vertices : \E i \in 1..m : vertices[k] \in RingPlaces(document, rings[i].id)
  BY <1>1 DEF OwnInv, VerticesOwn
<1>10. ContoursTo(n) = ContoursTo(m) \o Part(n)
  <2> DEFINE f == [i \in 1..n |-> Part(i)]
  <2>1. \A i \in 1..n : Part(i) \in Seq(V)
    <3>1. ASSUME NEW i \in 1..n
          PROVE  Part(i) \in Seq(V)
      <4>1. i \in DOMAIN rings
        BY <1>2, <1>3
      <4>2. rings[i].id \in DOMAIN document.rings
        BY <1>4, <4>1
      <4>3. ContourOf(i) = ContourFor(document, rings[i].id, optimize)
        BY DEF ContourOf, ContourFor
      <4>4. ContourOf(i) \in Seq(RingPlaces(document, rings[i].id))
        BY <1>2, <4>2, <4>3, ContourType
      <4>5. RingPlaces(document, rings[i].id) \subseteq V
        BY <1>2, <4>2, RingOfDocument DEF Places
      <4>6. ContourOf(i) \in Seq(V)
        BY <4>4, <4>5, SeqMonotonic
      <4> HIDE DEF V
      <4>7. QED
        BY <4>6, EmptySeq DEF Part
    <3>2. QED
      BY <3>1
  <2>2. f \in [1..(m + 1) -> Seq(V)]
    <3> HIDE DEF V
    <3>1. QED
      BY <1>3, <2>1
  <2>3. [j \in 1..m |-> f[j]] = [j \in 1..m |-> Part(j)] /\ f[m + 1] = Part(n)
    BY <1>3
  <2>4. ContoursTo(n) = FlattenSeq(f) /\ ContoursTo(m) = FlattenSeq([j \in 1..m |-> Part(j)])
    BY DEF ContoursTo
  <2> HIDE DEF f, V, m, n
  <2>5. FlattenSeq(f) = FlattenSeq([j \in 1..m |-> f[j]]) \o f[m + 1]
    BY <1>3, <2>2, FlattenTo
  <2>6. QED
    BY <2>3, <2>4, <2>5
<1>11. /\ ContoursTo(nextRing - 1)' = ContoursTo(n)
       /\ nextRing' - 1 = n
  <2>1. 1..n \subseteq DOMAIN rings /\ nextRing' - 1 = n
    BY <1>1, <1>2, <1>3
  <2>2. PICK h : h = n
    OBVIOUS
  <2>3. ContoursTo(h)' = ContoursTo(h)
    BY <1>6, <2>1, <2>2
  <2>4. nextRing' - 1 = h
    BY <2>1, <2>2
  <2>5. ContoursTo(nextRing - 1)' = ContoursTo(h)'
    BY <2>4 DEF ContoursTo
  <2>6. QED
    BY <2>1, <2>2, <2>3, <2>5
<1>12. \A i \in 1..n : rings'[i].id = rings[i].id
  BY <1>2, <1>3, <1>5
<1>13. CASE Len(pts) < 3
  <2>1. vertices' = vertices
    BY <1>1, <1>13 DEF addContour
  <2>2. Part(n) = <<>>
    BY <1>8, <1>13 DEF Part
  <2>3. vertices' = ContoursTo(n)
    <3>1. vertices \o <<>> = vertices
      <4> HIDE DEF V
      <4>1. QED
        BY <1>2, ConcatEmptySeq
    <3>2. QED
      BY <1>9, <1>10, <2>1, <2>2, <3>1
  <2>4. \A k \in DOMAIN vertices' : \E i \in 1..n : vertices'[k] \in RingPlaces(document', rings'[i].id)
    <3>1. 1..m \subseteq 1..n
      BY <1>3
    <3>2. QED
      BY <1>1, <1>9, <1>12, <2>1, <3>1
  <2>5. VerticesOwn'
    BY <1>9, <1>11, <2>1, <2>3, <2>4 DEF VerticesOwn
  <2>6. QED
    BY <1>1, <1>7, <2>5 DEF OwnInv, MadeOwn, WholeTriangles, addContour
<1>14. CASE ~(Len(pts) < 3)
  <2>1. vertices' = vertices \o pts
    BY <1>1, <1>14 DEF addContour
  <2>2. Part(n) = pts
    BY <1>8, <1>14 DEF Part
  <2>3. vertices' = ContoursTo(n)
    BY <1>9, <1>10, <2>1, <2>2
  <2>4. \A k \in DOMAIN pts : pts[k] \in RingPlaces(document, ring.id)
    <3> HIDE DEF pts, ring
    <3>1. QED
      BY <1>8, ElementOfSeq
  <2>5. \A i \in DOMAIN vertices, j \in DOMAIN pts : vertices[i] # pts[j]
    <3>1. ASSUME NEW i \in DOMAIN vertices, NEW j \in DOMAIN pts, vertices[i] = pts[j]
          PROVE  FALSE
      <4>1. PICK k \in 1..m : vertices[i] \in RingPlaces(document, rings[k].id)
        BY <1>9
      <4>2. PICK a, b : vertices[i] = {Place(rings[k].id, a)} /\ pts[j] = {Place(ring.id, b)}
        BY <2>4, <4>1 DEF RingPlaces
      <4>3. rings[k].id = ring.id
        <5>1. Place(rings[k].id, a) = Place(ring.id, b)
          BY <3>1, <4>2, Zenon
        <5>2. \A x, y : Place(x, y).ring = x
          BY DEF Place
        <5> HIDE DEF ring
        <5>3. QED
          BY <5>1, <5>2, Zenon
      <4>4. k \in DOMAIN rings /\ k # n
        BY <1>2, <1>3
      <4>5. k = n
        BY <1>1, <4>3, <4>4 DEF OwnInv, RingsOwn
      <4>6. QED
        BY <4>4, <4>5
    <3>2. QED
      BY <3>1
  <2>6. IsInjective(vertices')
    <3> HIDE DEF pts, V
    <3>1. QED
      BY <1>2, <1>8, <1>9, <2>1, <2>5, ConcatApart
  <2>7. ASSUME NEW k \in DOMAIN vertices'
        PROVE  \E i \in 1..n : vertices'[k] \in RingPlaces(document', rings'[i].id)
    <3>1. (k \in DOMAIN vertices /\ vertices'[k] = vertices[k]) \/ (\E j \in DOMAIN pts : vertices'[k] = pts[j])
      <4> HIDE DEF pts, V
      <4>1. QED
        BY <1>2, <1>8, <2>1, <2>7, EitherOf
    <3>2. 1..m \subseteq 1..n /\ n \in 1..n
      BY <1>3
    <3>3. CASE k \in DOMAIN vertices /\ vertices'[k] = vertices[k]
      BY <1>1, <1>9, <1>12, <3>2, <3>3
    <3>4. CASE \E j \in DOMAIN pts : vertices'[k] = pts[j]
      <4>1. vertices'[k] \in RingPlaces(document, ring.id)
        BY <2>4, <3>4
      <4>2. QED
        BY <1>1, <1>12, <3>2, <4>1
    <3>5. QED
      BY <3>1, <3>3, <3>4
  <2>8. VerticesOwn'
    BY <1>11, <2>3, <2>6, <2>7 DEF VerticesOwn
  <2>9. QED
    BY <1>1, <1>7, <2>8 DEF OwnInv, MadeOwn, WholeTriangles, addContour
<1>15. QED
  BY <1>13, <1>14

(* All contours are handed to GLU.                                         *)
LEMMA ComputeOwn ==
  ASSUME BufferInv, OwnInv, Compute
  PROVE  OwnInv'
<1>1. /\ phase = "contours" /\ phase' = "glu" /\ nextRing \notin DOMAIN rings
      /\ UNCHANGED <<document, rings, nextRing, optimize, keepVertices, vertices, outIndices>>
  BY DEF Compute, processContours, PolygonStays
<1>2. /\ document \in Documents /\ rings \in Seq(RingsOf(document))
      /\ nextRing \in 1..(Len(rings) + 1) /\ vertices \in Seq(SUBSET Places)
  BY <1>1 DEF BufferInv, PolygonTyped, TesselatorTyped
<1>3. Len(rings) \in Nat /\ DOMAIN rings = 1..Len(rings)
  BY <1>2, LenProperties
<1>4. DOMAIN rings = 1..(nextRing - 1)
  BY <1>1, <1>2, <1>3
<1>5. Contours = ContoursTo(nextRing - 1)
  BY <1>4 DEF Contours, ContoursTo, Part
<1>6. /\ vertices = Contours /\ IsInjective(vertices)
      /\ \A k \in DOMAIN vertices : \E i \in DOMAIN rings : vertices[k] \in RingPlaces(document, rings[i].id)
  BY <1>1, <1>4, <1>5 DEF OwnInv, VerticesOwn
<1>7. RingsOwn' /\ Contours' = Contours
  BY <1>1, RingsStay
<1>8. OnePlaceEach(vertices)
  BY <1>6 DEF OnePlaceEach, RingPlaces
<1>9. Extends(vertices, vertices)
  BY <1>2, LenProperties DEF Extends
<1>10. MadeOwn'
  <2>1. Places' = Places
    BY <1>1 DEF Places
  <2>2. vertices' = vertices /\ Contours' = vertices
    BY <1>1, <1>6, <1>7
  <2>3. Contours' \in Seq(SUBSET Places') /\ OnePlaceEach(Contours') /\ Extends(vertices', Contours')
    BY <1>2, <1>8, <1>9, <2>1, <2>2
  <2>4. QED
    BY <2>3 DEF MadeOwn, OnePlaceEach, Extends, IsInjective
<1>11. VerticesOwn' /\ WholeTriangles'
  BY <1>1 DEF OwnInv, VerticesOwn, WholeTriangles
<1>12. QED
  BY <1>7, <1>10, <1>11 DEF OwnInv

LEMMA TwoOf ==
  ASSUME NEW T, Cardinality(T) \in {2, 4}
  PROVE  \E x, y \in T : x # y
<1>1. T # {}
  BY FS_EmptySet
<1>2. PICK x \in T : TRUE
  BY <1>1
<1>3. T # {x}
  <2>1. Cardinality({x}) = 1
    BY FS_Singleton
  <2>2. QED
    BY <2>1
<1>4. QED
  BY <1>2, <1>3

(* A vertex GLU makes is between two of those that are there, which are    *)
(* one place each and no two the same, or between more places already.     *)
LEMMA MadeFrom ==
  ASSUME NEW V, NEW vs \in Seq(V), NEW c \in Seq(V), OnePlaceEach(c), Extends(vs, c),
         NEW from \in SUBSET (0..(Len(vs) - 1)), \E x, y \in from : x # y
  PROVE  MadeBetween(UNION {vs[i + 1] : i \in from}, c)
<1> DEFINE n == Len(c)
           m == Len(vs)
           v == UNION {vs[i + 1] : i \in from}
<1>1. n \in Nat /\ m \in Nat /\ DOMAIN c = 1..n /\ DOMAIN vs = 1..m
  BY LenProperties
<1>2. \A k \in DOMAIN c : \E p \in c[k] : c[k] = {p}
  BY DEF OnePlaceEach
<1>3. \A k \in 1..n : vs[k] = c[k]
  BY DEF Extends
<1>4. \A k \in 1..m : k > n => MadeBetween(vs[k], c)
  BY <1>1 DEF Extends
<1>5. \A i \in from : i + 1 \in 1..m /\ i \in Int
  <2> HIDE DEF m
  <2>1. QED
    BY <1>1 DEF m
<1> HIDE DEF n, m
<1>6. ASSUME NEW k \in 1..m
      PROVE  vs[k] \subseteq UNION Range(c)
  <2>1. CASE k <= n
    <3>1. k \in DOMAIN c /\ vs[k] = c[k]
      BY <1>1, <1>3, <2>1
    <3>2. c[k] \in Range(c)
      BY <3>1 DEF Range
    <3>3. QED
      BY <3>1, <3>2
  <2>2. CASE ~(k <= n)
    <3>1. k > n
      BY <1>1, <2>2
    <3>2. QED
      BY <1>4, <3>1 DEF MadeBetween
  <2>3. QED
    BY <2>1, <2>2
<1>7. v \subseteq UNION Range(c)
  BY <1>5, <1>6
<1>8. \A i \in from : vs[i + 1] \subseteq v
  OBVIOUS
<1>9. \E p, q \in v : p # q
  <2>1. PICK x \in from, y \in from : x # y
    OBVIOUS
  <2>2. x + 1 \in 1..m /\ y + 1 \in 1..m /\ x + 1 # y + 1
    BY <1>5, <2>1
  <2>3. CASE x + 1 > n
    <3>1. MadeBetween(vs[x + 1], c)
      BY <1>4, <2>2, <2>3
    <3> HIDE DEF v
    <3>2. QED
      BY <1>8, <2>1, <3>1 DEF MadeBetween
  <2>4. CASE y + 1 > n
    <3>1. MadeBetween(vs[y + 1], c)
      BY <1>4, <2>2, <2>4
    <3> HIDE DEF v
    <3>2. QED
      BY <1>8, <2>1, <3>1 DEF MadeBetween
  <2>5. CASE ~(x + 1 > n) /\ ~(y + 1 > n)
    <3>1. x + 1 \in 1..n /\ y + 1 \in 1..n
      BY <1>1, <2>2, <2>5
    <3>2. c[x + 1] # c[y + 1]
      BY <1>1, <2>2, <3>1 DEF OnePlaceEach, IsInjective
    <3>3. vs[x + 1] = c[x + 1] /\ vs[y + 1] = c[y + 1]
      BY <1>3, <3>1
    <3>4. PICK p \in c[x + 1] : c[x + 1] = {p}
      BY <1>1, <1>2, <3>1
    <3>5. PICK q \in c[y + 1] : c[y + 1] = {q}
      BY <1>1, <1>2, <3>1
    <3>6. p # q
      BY <3>2, <3>4, <3>5
    <3>7. p \in v /\ q \in v
      BY <1>8, <2>1, <3>3, <3>4, <3>5
    <3>8. QED
      BY <3>6, <3>7
  <2>6. QED
    BY <2>3, <2>4, <2>5
<1>10. QED
  BY <1>7, <1>9 DEF MadeBetween

LEMMA CombineOwn ==
  ASSUME BufferInv, OwnInv, GluCombine
  PROVE  OwnInv'
<1>1. PICK from \in SUBSET known : Cardinality(from) \in {2, 4} /\ combineCallback(from)
  BY DEF GluCombine
<1>2. phase = "glu" /\ UNCHANGED <<document, rings, nextRing, optimize, keepVertices, phase>>
  BY DEF GluCombine, PolygonStays
<1> DEFINE e == UNION {vertices[i + 1] : i \in from}
           m == Len(vertices)
           V == SUBSET Places
           c == Contours
<1>3. vertices' = Append(vertices, e) /\ UNCHANGED outIndices
  BY <1>1 DEF combineCallback
<1>4. vertices \in Seq(V) /\ m \in Nat /\ DOMAIN vertices = 1..m /\ known \subseteq 0..(m - 1)
  BY LenProperties DEF BufferInv, TesselatorTyped, KnownWithin
<1>5. c \in Seq(V) /\ OnePlaceEach(c) /\ Extends(vertices, c)
  BY <1>2 DEF OwnInv, MadeOwn
<1>6. MadeBetween(e, c)
  <2>1. \E x, y \in from : x # y
    BY <1>1, TwoOf
  <2>2. from \in SUBSET (0..(m - 1))
    BY <1>4
  <2> HIDE DEF V, c
  <2>3. QED
    BY <1>4, <1>5, <2>1, <2>2, MadeFrom
<1>7. e \in V
  <2>1. \A i \in from : i + 1 \in 1..m
    <3> HIDE DEF m
    <3>1. QED
      BY <1>4
  <2>2. \A i \in from : vertices[i + 1] \in V
    BY <1>4, <2>1, ElementOfSeq
  <2>3. QED
    BY <2>2
<1> HIDE DEF e, V, c
<1>8. /\ Len(vertices') = m + 1 /\ vertices'[m + 1] = e
      /\ DOMAIN vertices' = 1..(m + 1)
      /\ \A k \in 1..m : vertices'[k] = vertices[k]
  <2>1. Append(vertices, e) \in Seq(V) /\ Len(Append(vertices, e)) = m + 1
        /\ Append(vertices, e)[m + 1] = e
        /\ \A k \in 1..m : Append(vertices, e)[k] = vertices[k]
    BY <1>4, <1>7, AppendLast
  <2>2. DOMAIN Append(vertices, e) = 1..(m + 1)
    BY <2>1, LenProperties
  <2>3. QED
    BY <1>3, <2>1, <2>2
<1>9. Extends(vertices', c)
  <2>1. Len(c) \in Nat /\ Len(c) <= m /\ \A k \in 1..Len(c) : vertices[k] = c[k]
    BY <1>5, LenProperties DEF Extends
  <2> HIDE DEF m
  <2>2. Len(c) <= Len(vertices')
    BY <1>4, <1>8, <2>1
  <2>3. \A k \in 1..Len(c) : vertices'[k] = c[k]
    BY <1>4, <1>8, <2>1
  <2>4. ASSUME NEW k \in DOMAIN vertices', k > Len(c)
        PROVE  MadeBetween(vertices'[k], c)
    <3>1. CASE k = m + 1
      BY <1>6, <1>8, <3>1
    <3>2. CASE k # m + 1
      <4>1. k \in 1..m
        BY <1>4, <1>8, <2>4, <3>2
      <4>2. QED
        BY <1>4, <1>5, <1>8, <2>4, <4>1 DEF Extends
    <3>3. QED
      BY <3>1, <3>2
  <2>5. QED
    BY <2>2, <2>3, <2>4 DEF Extends
<1>10. RingsOwn' /\ Contours' = Contours
  BY <1>2, RingsStay
<1>11. MadeOwn'
  <2>1. V = SUBSET Places'
    BY <1>2 DEF Places, V
  <2>2. PICK x, y : x = Contours /\ y = vertices'
    OBVIOUS
  <2>3. x \in Seq(SUBSET Places') /\ OnePlaceEach(x) /\ Extends(y, x)
    BY <1>5, <1>9, <2>1, <2>2 DEF c
  <2>4. Contours' = x /\ vertices' = y
    BY <1>10, <2>2
  <2>5. QED
    BY <2>3, <2>4 DEF MadeOwn, OnePlaceEach, Extends, IsInjective
<1>12. VerticesOwn' /\ WholeTriangles'
  BY <1>2, <1>3 DEF OwnInv, VerticesOwn, WholeTriangles
<1>13. QED
  BY <1>10, <1>11, <1>12 DEF OwnInv

(* The steps that leave rings and vertices alone.                          *)
LEMMA OwnStays ==
  ASSUME OwnInv, UNCHANGED <<document, rings, nextRing, optimize, keepVertices, vertices>>,
         (phase # "contours" /\ phase' # "contours") \/ UNCHANGED phase,
         WholeTriangles'
  PROVE  OwnInv'
<1>1. RingsOwn' /\ Contours' = Contours
  BY RingsStay
<1>2. MadeOwn'
  <2>1. ASSUME phase' # "contours"
        PROVE  Contours' \in Seq(SUBSET Places') /\ OnePlaceEach(Contours)' /\ Extends(vertices, Contours)'
    <3>1. Contours \in Seq(SUBSET Places) /\ OnePlaceEach(Contours) /\ Extends(vertices, Contours)
      BY <2>1 DEF OwnInv, MadeOwn
    <3>2. Places' = Places
      BY DEF Places
    <3>3. QED
      BY <1>1, <3>1, <3>2 DEF OnePlaceEach, Extends, IsInjective
  <2>2. QED
    BY <2>1 DEF MadeOwn
<1>3. VerticesOwn'
  <2>1. CASE phase' # "contours"
    BY <2>1 DEF VerticesOwn
  <2>2. CASE phase' = "contours"
    <3>1. phase = "contours"
      BY <2>2
    <3>2. vertices = ContoursTo(nextRing - 1) /\ IsInjective(vertices)
          /\ \A k \in DOMAIN vertices :
               \E i \in 1..(nextRing - 1) : vertices[k] \in RingPlaces(document, rings[i].id)
      BY <3>1 DEF OwnInv, VerticesOwn
    <3>3. ContoursTo(nextRing - 1)' = ContoursTo(nextRing - 1)
      BY DEF ContoursTo, Part, ContourOf
    <3>4. QED
      BY <3>2, <3>3 DEF VerticesOwn, IsInjective
  <2>3. QED
    BY <2>1, <2>2
<1>4. QED
  BY <1>1, <1>2, <1>3 DEF OwnInv

(* Three indices after the other make a number that three divides.         *)
LEMMA TriplesFlat ==
  ASSUME NEW V, NEW ss \in Seq({s \in Seq(V) : Len(s) = 3})
  PROVE  Len(FlattenSeq(ss)) % 3 = 0
<1> DEFINE T == {s \in Seq(V) : Len(s) = 3}
           Whole(tt) == FlattenSeq(tt) \in Seq(V) /\ Len(FlattenSeq(tt)) % 3 = 0
           U == {tt \in Seq(T) : Whole(tt)}
<1>1. <<>> \in U
  <2>1. Whole(<<>>)
    <3>1. Len(<<>>) = 0 /\ 0 % 3 = 0
      OBVIOUS
    <3>2. <<>> \in Seq(V)
      BY EmptySeq
    <3>3. QED
      BY <3>1, <3>2, FlattenEmpty
  <2> HIDE DEF Whole, T
  <2>2. QED
    BY <2>1, EmptySeq
<1>2. ASSUME NEW tt \in Seq(T), NEW s \in T, tt \in U
      PROVE  Append(tt, s) \in U
  <2>1. s \in Seq(V) /\ Len(s) = 3
    OBVIOUS
  <2>2. Whole(tt)
    <3> HIDE DEF Whole
    <3>1. QED
      BY <1>2
  <2>3. tt \in Seq(Seq(V))
    <3>1. T \subseteq Seq(V)
      OBVIOUS
    <3> HIDE DEF T
    <3>2. QED
      BY <3>1, SeqMonotonic
  <2>4. Append(tt, s) \in Seq(T)
    <3> HIDE DEF T
    <3>1. QED
      BY AppendProperties
  <2> DEFINE o == FlattenSeq(tt)
             e == FlattenSeq(Append(tt, s))
  <2>5. e = o \o s
    BY <2>1, <2>3, FlattenAppend
  <2>6. o \in Seq(V) /\ Len(o) % 3 = 0
    BY <2>2
  <2> HIDE DEF o, e
  <2>7. e \in Seq(V) /\ Len(e) = Len(o) + 3 /\ Len(o) \in Nat
    <3>1. o \in Seq(V) /\ s \in Seq(V)
      BY <2>1, <2>6
    <3> HIDE DEF T
    <3>2. o \o s \in Seq(V) /\ Len(o) \in Nat /\ Len(o \o s) = Len(o) + Len(s)
      BY <3>1, ConcatFacts
    <3>3. QED
      BY <2>1, <2>5, <3>2
  <2>8. \A n \in Nat : n % 3 = 0 => (n + 3) % 3 = 0
    OBVIOUS
  <2>9. Whole(Append(tt, s))
    BY <2>6, <2>7, <2>8 DEF e
  <2> HIDE DEF Whole
  <2>10. QED
    BY <2>4, <2>9
<1>3. \A tt \in Seq(T) : tt \in U
  <2> HIDE DEF T, U
  <2>1. QED
    BY <1>1, <1>2, SeqInduct
<1>4. Whole(ss)
  <2> HIDE DEF Whole
  <2>1. QED
    BY <1>3
<1>5. QED
  BY <1>4

LEMMA WholePrimitive ==
  ASSUME NEW p \in Primitives, p.mode = Triangles => Len(p.indices) % 3 = 0
  PROVE  Len(Drawn(p)) % 3 = 0
<1> DEFINE cur == p.indices
           mode == p.mode
           D == [k \in 1..(Len(cur) - 2) |-> DrawnAt(mode, cur, k)]
           T == {s \in Seq(Nat) : Len(s) = 3}
<1>1. mode \in {Triangles, Fan, Strip} /\ cur \in Seq(Nat) /\ Len(cur) >= 3
      /\ p = [mode |-> mode, indices |-> cur]
  BY DEF Primitives
<1>2. Len(cur) \in Nat
  BY <1>1, LenProperties
<1>3. CASE mode = Triangles
  <2>1. p.mode = Triangles
    BY <1>3
  <2> HIDE DEF cur, mode
  <2>2. Drawn(p) = p.indices
    BY <2>1 DEF Drawn, Triangles, Fan, Strip
  <2>3. QED
    BY <2>1, <2>2
<1>4. CASE mode \in {Fan, Strip}
  <2>1. Drawn(p) = FlattenSeq(D)
    <3>1. Drawn([mode |-> mode, indices |-> cur]) = FlattenSeq(D)
      <4> HIDE DEF cur, mode
      <4>1. QED
        BY <1>1, <1>4, DrawnTriples
    <3> HIDE DEF D
    <3>2. QED
      BY <1>1, <3>1, Zenon
  <2> HIDE DEF cur, mode
  <2>2. ASSUME NEW k \in 1..(Len(cur) - 2)
        PROVE  DrawnAt(mode, cur, k) \in T
    <3>1. 1 \in 1..Len(cur) /\ k \in 1..Len(cur) /\ k + 1 \in 1..Len(cur) /\ k + 2 \in 1..Len(cur)
      BY <1>2, <1>1
    <3>2. cur[1] \in Nat /\ cur[k] \in Nat /\ cur[k + 1] \in Nat /\ cur[k + 2] \in Nat
      BY <1>1, <3>1, ElementOfSeq
    <3>3. \A x, y, z \in Nat : <<x, y, z>> \in Seq(Nat) /\ Len(<<x, y, z>>) = 3
      OBVIOUS
    <3>4. QED
      BY <3>2, <3>3 DEF DrawnAt
  <2>3. D \in Seq(T)
    <3> HIDE DEF T
    <3>1. D \in [1..(Len(cur) - 2) -> T]
      BY <2>2
    <3>2. Len(cur) - 2 \in Nat
      BY <1>2, <1>1
    <3>3. QED
      BY <3>1, <3>2
  <2> HIDE DEF D
  <2>4. QED
    BY <2>1, <2>3, TriplesFlat
<1>5. QED
  BY <1>1, <1>3, <1>4

LEMMA EndOwn ==
  ASSUME BufferInv, OwnInv, GluEnd
  PROVE  OwnInv'
<1> DEFINE p == [mode |-> curMode, indices |-> curIndices]
           o == TrianglesOf(curMode, curIndices)
<1>1. /\ p \in Primitives /\ p.mode = curMode /\ p.indices = curIndices
      /\ outIndices' = outIndices \o o
      /\ phase = "primitive" /\ phase' = "emitted"
      /\ UNCHANGED <<document, rings, nextRing, optimize, keepVertices, vertices>>
  BY EndStep
<1>2. curMode = Triangles => Len(curIndices) % 3 = 0
  BY DEF GluEnd
<1>3. outIndices \in Seq(Nat)
  <2>1. known \subseteq Nat
    <3> DEFINE v == Len(vertices)
    <3>1. v \in Nat /\ known \subseteq 0..(v - 1)
      BY LenProperties DEF BufferInv, TesselatorTyped, KnownWithin
    <3> HIDE DEF v
    <3>2. QED
      BY <3>1
  <2>2. QED
    BY <2>1, SeqMonotonic DEF BufferInv, KnownWithin
<1> HIDE DEF p
<1>4. Drawn(p) = o /\ Drawn(p) \in Seq(Nat) /\ Len(Drawn(p)) % 3 = 0
  BY <1>1, <1>2, DrawnType, WholePrimitive
<1>5. WholeTriangles'
  <2> DEFINE x == Len(outIndices)
             y == Len(o)
  <2> HIDE DEF o
  <2>1. Len(outIndices') = x + y /\ x \in Nat /\ y \in Nat
    BY <1>1, <1>3, <1>4, ConcatFacts
  <2>2. x % 3 = 0 /\ y % 3 = 0
    BY <1>4 DEF OwnInv, WholeTriangles
  <2> HIDE DEF x, y
  <2>3. (x + y) % 3 = 0
    BY <2>1, <2>2
  <2>4. QED
    BY <2>1, <2>3 DEF WholeTriangles
<1>6. phase # "contours" /\ phase' # "contours"
  BY <1>1
<1>7. QED
  BY <1>1, <1>5, <1>6, OwnStays

LEMMA OwnStep == BufferInv /\ OwnInv /\ [Next]_vars => OwnInv'
<1> SUFFICES ASSUME BufferInv, OwnInv, [Next]_vars
             PROVE  OwnInv'
  OBVIOUS
<1>1. CASE \E d \in Documents : Finish(d)
  <2>1. optimize \in BOOLEAN
    BY DEF BufferInv, PolygonTyped
  <2>2. QED
    BY <1>1, <2>1, FinishOwn
<1>2. CASE AddContour
  BY <1>2, AddContourOwn
<1>3. CASE Compute
  BY <1>3, ComputeOwn
<1>4. CASE GluCombine
  BY <1>4, CombineOwn
<1>5. CASE GluBegin \/ GluVertex \/ TakeOver
  <2>1. UNCHANGED <<document, rings, nextRing, optimize, keepVertices, vertices, outIndices>>
    BY <1>5 DEF GluBegin, beginCallback, GluVertex, vertexDataCallback, TakeOver, tesselatorVars, PolygonStays
  <2>2. phase # "contours" /\ phase' # "contours"
    BY <1>5 DEF GluBegin, GluVertex, TakeOver
  <2>3. WholeTriangles'
    BY <2>1 DEF OwnInv, WholeTriangles
  <2>4. QED
    BY <2>1, <2>2, <2>3, OwnStays
<1>6. CASE GluEnd
  BY <1>6, EndOwn
<1>7. CASE UNCHANGED vars
  <2>1. UNCHANGED <<document, rings, nextRing, optimize, keepVertices, vertices, outIndices, phase>>
    BY <1>7 DEF vars, tesselatorVars
  <2>2. WholeTriangles'
    BY <2>1 DEF OwnInv, WholeTriangles
  <2>3. QED
    BY <2>1, <2>2, OwnStays
<1>8. QED
  BY <1>1, <1>2, <1>3, <1>4, <1>5, <1>6, <1>7 DEF Next

(* A finished polygon has the vertices of its own rings, without their     *)
(* duplicates if they are removed, every ring of three vertices or more    *)
(* and none twice, of exterior rings the first, before the interior ones;  *)
(* then come vertices GLU has made between two or more of them, and the    *)
(* indices are whole triangles: nothing is left of another polygon. With   *)
(* keepVertices the rings keep theirs (Polygon::finish, Tesselator).       *)
THEOREM VerticesAreOwn == Spec => []OwnVertices
<1>1. Init => BufferInv /\ OwnInv /\ TakenInv /\ EmittedInv
  BY BuffersInit, OwnInit, TrianglesInit
<1>2. BufferInv /\ OwnInv /\ TakenInv /\ EmittedInv /\ [Next]_vars
        => (BufferInv /\ OwnInv /\ TakenInv /\ EmittedInv)'
  BY BuffersStep, OwnStep, TrianglesStep
<1>3. BufferInv /\ OwnInv /\ TakenInv => OwnVertices
  <2> SUFFICES ASSUME BufferInv, OwnInv, TakenInv, phase = "idle"
               PROVE  OwnVertices
    BY DEF OwnVertices
  <2>1. polygon.vertices = vertices /\ polygon.indices = outIndices
    BY DEF TakenInv
  <2>2. Contours \in Seq(SUBSET Places) /\ Extends(vertices, Contours) /\ vertices \in Seq(SUBSET Places)
    BY DEF OwnInv, MadeOwn, BufferInv, TesselatorTyped
  <2>3. IsPrefix(Contours, polygon.vertices)
    <3> DEFINE V == SUBSET Places
    <3>1. Contours \in Seq(V) /\ vertices \in Seq(V)
      BY <2>2
    <3> HIDE DEF V
    <3>2. QED
      BY <2>1, <2>2, <3>1, PrefixOf DEF Extends
  <2>4. \A k \in DOMAIN polygon.vertices : k > Len(Contours) =>
          /\ \E p, q \in polygon.vertices[k] : p # q
          /\ polygon.vertices[k] \subseteq UNION Range(Contours)
    BY <2>1, <2>2 DEF Extends, MadeBetween
  <2>5. \A i \in DOMAIN rings, r \in DOMAIN document.rings :
          document.rings[r].exterior =>
            /\ document.rings[rings[i].id].exterior <=> i = 1
            /\ rings[1].id <= r
    BY DEF OwnInv, RingsOwn, ExteriorFirst
  <2>6. keepVertices => \A i \in DOMAIN rings : rings[i].vertices = ContourOf(i)
    BY DEF OwnInv, RingsOwn
  <2>7. Len(polygon.indices) % 3 = 0
    BY <2>1 DEF OwnInv, WholeTriangles
  <2>8. QED
    BY <2>3, <2>4, <2>5, <2>6, <2>7 DEF OwnVertices
<1>4. QED
  BY <1>1, <1>2, <1>3, PTL DEF Spec
=============================================================================
