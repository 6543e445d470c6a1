----------------------- MODULE CityGMLSerializer_proofs ----------------------
(***************************************************************************)
(* Proofs about XMLWriter and CityGMLSerializer. First the writer:         *)
(* whatever calls are made, and whichever of them fail, elements are a     *)
(* tree and those that are open lie in each other. Then the calls: each    *)
(* serialize function is a walk over the stacks of open elements that ends *)
(* where it began, so that what recurs is written where its caller was.    *)
(* From that the serializer: what is still to be written can be written    *)
(* where the writer is, unless a call of it has failed.                    *)
(***************************************************************************)
EXTENDS CityGMLSerializer, SequenceLemmas

-----------------------------------------------------------------------------
(* Elements are a sequence of records.                                     *)
Parts  == {elements[e] : e \in 1..Len(elements)}
Fields == {"name", "namespace", "declared", "of", "parent", "content"}

ElementsAreRecords ==
  /\ elements \in Seq(Parts)
  /\ \A e \in 1..Len(elements) : DOMAIN elements[e] = Fields

(* The parents of the elements come before them.                           *)
ParentsBefore == \A e \in 1..Len(elements) : elements[e].parent \in 0..(e - 1)

(* The state of the writer.                                                *)
WriterTypeOK ==
  /\ document \in 0..Len(elements)
  /\ currentElement \in 0..Len(elements)
  /\ elementStack \in Seq(1..Len(elements))
  /\ hasError \in BOOLEAN

WriterInv ==
  /\ ElementsAreRecords
  /\ ParentsBefore
  /\ WriterTypeOK
  /\ OpenElementsNested

CallerInv ==
  /\ documents \in 0..MaxDocuments
  /\ result \in {"none", "true", "false"}
  /\ file \in {"none", "whole", "partial"}

LEMMA LengthOfElements ==
  ASSUME ElementsAreRecords
  PROVE  Len(elements) \in Nat
  BY DEF ElementsAreRecords

(* A longer sequence.                                                      *)
LEMMA Appended ==
  ASSUME NEW S, NEW s \in Seq(S), NEW x \in S, NEW t, t = Append(s, x)
  PROVE  /\ Len(t) = Len(s) + 1
         /\ \A i \in 1..Len(s) : t[i] = s[i]
         /\ t[Len(s) + 1] = x
         /\ t \in Seq(S)
  OBVIOUS

(* A sequence is one of the values it has.                                 *)
LEMMA SeqOfValues ==
  ASSUME NEW S, NEW s \in Seq(S), NEW T, \A i \in 1..Len(s) : s[i] \in T
  PROVE  s \in Seq(T)
<1>1. s = [i \in 1..Len(s) |-> s[i]]
  OBVIOUS
<1>2. QED
  BY <1>1

(* A function on the first numbers is a sequence.                          *)
LEMMA FunctionIsSeq ==
  ASSUME NEW S, NEW n \in Nat, NEW f \in [1..n -> S]
  PROVE  f \in Seq(S) /\ Len(f) = n
  OBVIOUS

(* A writer that is left alone, but for the latch.                         *)
LEMMA WriterStays ==
  ASSUME WriterInv, UNCHANGED <<elements, document, currentElement, elementStack>>,
         hasError' \in BOOLEAN
  PROVE  WriterInv'
  BY DEF WriterInv, ElementsAreRecords, Parts, ParentsBefore, WriterTypeOK, OpenElementsNested

LEMMA FailsInv ==
  ASSUME WriterInv, Fails
  PROVE  WriterInv'
  BY WriterStays DEF Fails

LEMMA ReturnsInv ==
  ASSUME WriterInv, Returns
  PROVE  WriterInv'
  BY WriterStays DEF Returns, WriterInv, WriterTypeOK

(* A new element that becomes the current and the last open one, in the    *)
(* last open one or in none.                                               *)
LEMMA NewElement ==
  ASSUME WriterInv,
         NEW x, DOMAIN x = Fields,
         x.parent \in 0..Len(elements),
         elementStack # <<>> => x.parent \in {Last(elementStack), NoElement},
         elements' = Append(elements, x),
         currentElement' = Len(elements) + 1,
         elementStack' = Append(elementStack, Len(elements) + 1),
         document' \in {document, Len(elements) + 1},
         hasError' \in BOOLEAN
  PROVE  WriterInv'
<1> DEFINE n == Len(elements)
<1>1. elements \in Seq(Parts) /\ n \in Nat
  BY LengthOfElements DEF WriterInv, ElementsAreRecords
<1>2. /\ Len(elements') = n + 1
      /\ \A e \in 1..n : elements'[e] = elements[e]
      /\ elements'[n + 1] = x
      /\ elements' \in Seq(Parts \cup {x})
  <2>1. elements \in Seq(Parts \cup {x}) /\ x \in Parts \cup {x}
    BY <1>1
  <2>2. QED
    BY <2>1, Appended
<1>3. \A e \in 1..(n + 1) : e \in 1..n \/ e = n + 1
  BY <1>1
<1>4. ElementsAreRecords'
  <2>1. \A e \in 1..(n + 1) : DOMAIN elements'[e] = Fields
    BY <1>2, <1>3 DEF WriterInv, ElementsAreRecords
  <2>2. Parts' = {elements'[e] : e \in 1..(n + 1)}
    BY <1>2 DEF Parts
  <2>3. elements' \in Seq(Parts')
    BY <1>2, <2>2, SeqOfValues
  <2>4. QED
    BY <1>2, <2>1, <2>3 DEF ElementsAreRecords
<1>5. ParentsBefore'
  BY <1>1, <1>2, <1>3 DEF WriterInv, ParentsBefore
<1>6. /\ elementStack \in Seq(1..(n + 1))
      /\ Len(elementStack') = Len(elementStack) + 1
      /\ \A i \in 1..Len(elementStack) : elementStack'[i] = elementStack[i]
      /\ elementStack'[Len(elementStack) + 1] = n + 1
      /\ elementStack' \in Seq(1..(n + 1))
  <2>1. elementStack \in Seq(1..(n + 1)) /\ n + 1 \in 1..(n + 1)
    BY <1>1 DEF WriterInv, WriterTypeOK
  <2>2. QED
    BY <2>1, Appended
<1>7. WriterTypeOK'
  BY <1>1, <1>2, <1>6 DEF WriterInv, WriterTypeOK
<1>8. OpenElementsNested'
  <2>1. Last(elementStack)' = currentElement'
    BY <1>6 DEF Last
  <2>2. ASSUME NEW i \in 1..(Len(elementStack') - 1)
        PROVE  elements'[elementStack'[i + 1]].parent \in {elementStack'[i], NoElement}
    <3>0. Len(elementStack) \in Nat /\ i \in 1..Len(elementStack)
      BY <1>6
    <3>1. CASE i = Len(elementStack)
      <4>1. elementStack # <<>> /\ elementStack'[i] = Last(elementStack)
        BY <3>0, <3>1, <1>6 DEF Last
      <4>2. elements'[elementStack'[i + 1]] = x
        BY <3>1, <1>2, <1>6
      <4>3. QED
        BY <4>1, <4>2
    <3>2. CASE i # Len(elementStack)
      <4>1. i \in 1..(Len(elementStack) - 1) /\ i + 1 \in 1..Len(elementStack)
        BY <3>0, <3>2
      <4>2. elementStack'[i] = elementStack[i] /\ elementStack'[i + 1] = elementStack[i + 1]
        BY <3>0, <4>1, <1>6
      <4>3. elementStack[i + 1] \in 1..n
        BY <4>1 DEF WriterInv, WriterTypeOK
      <4>4. elements'[elementStack'[i + 1]] = elements[elementStack[i + 1]]
        BY <4>2, <4>3, <1>2
      <4>5. QED
        BY <4>1, <4>2, <4>4 DEF WriterInv, OpenElementsNested
    <3>3. QED
      BY <3>1, <3>2
  <2>3. QED
    BY <2>1, <2>2 DEF OpenElementsNested
<1>9. QED
  BY <1>4, <1>5, <1>7, <1>8 DEF WriterInv

LEMMA NewDocumentInv ==
  ASSUME WriterInv, NEW root, NewDocument(root), hasError' \in BOOLEAN
  PROVE  WriterInv'
<1>1. Len(elements) \in Nat
  BY LengthOfElements DEF WriterInv
<1> DEFINE x == Element(root, "", 0, NoElement)
<1>2. DOMAIN x = Fields /\ x.parent = NoElement
  BY DEF Element, Fields
<1>3. /\ elements' = Append(elements, x)
      /\ document' = Len(elements) + 1
      /\ currentElement' = Len(elements) + 1
      /\ elementStack' = Append(elementStack, Len(elements) + 1)
  BY DEF NewDocument
<1> HIDE DEF x
<1>4. QED
  BY <1>1, <1>2, <1>3, NewElement DEF NoElement

LEMMA startElementInv ==
  ASSUME WriterInv, NEW name, NEW namespace, NEW of, startElement(name, namespace, of)
  PROVE  WriterInv'
<1> DEFINE x == Element(name, namespace, of, currentElement)
<1>1. CASE /\ elements' = Append(elements, x)
           /\ currentElement' = Len(elements) + 1
           /\ elementStack' = Append(elementStack, Len(elements) + 1)
           /\ UNCHANGED <<document, hasError>>
  <2>1. DOMAIN x = Fields /\ x.parent = currentElement
    BY DEF Element, Fields
  <2>2. currentElement \in 0..Len(elements) /\ hasError' \in BOOLEAN
    BY <1>1 DEF WriterInv, WriterTypeOK
  <2>3. elementStack # <<>> => currentElement = Last(elementStack)
    BY DEF WriterInv, OpenElementsNested
  <2> HIDE DEF x
  <2>4. QED
    BY <1>1, <2>1, <2>2, <2>3, NewElement
<1>2. CASE Fails
  BY <1>2, FailsInv
<1>3. CASE Returns
  BY <1>3, ReturnsInv
<1>4. QED
  BY <1>1, <1>2, <1>3 DEF startElement

LEMMA endElementInv ==
  ASSUME WriterInv, endElement
  PROVE  WriterInv'
<1>1. CASE /\ elementStack # <<>>
           /\ elementStack' = Front(elementStack)
           /\ currentElement' = IF elementStack' = <<>> THEN currentElement ELSE Last(elementStack')
           /\ UNCHANGED <<elements, document, hasError>>
  <2> DEFINE m == Len(elementStack) - 1
  <2>1. elementStack \in Seq(1..Len(elements)) /\ m \in Nat /\ Len(elementStack) = m + 1
    BY <1>1 DEF WriterInv, WriterTypeOK
  <2>2. /\ elementStack' \in Seq(1..Len(elements))
        /\ Len(elementStack') = m
        /\ \A i \in 1..m : elementStack'[i] = elementStack[i]
    BY <1>1, <2>1 DEF Front
  <2> HIDE DEF m
  <2>3. currentElement' \in 0..Len(elements)
    <3>1. CASE elementStack' = <<>>
      BY <1>1, <3>1 DEF WriterInv, WriterTypeOK
    <3>2. CASE elementStack' # <<>>
      BY <1>1, <2>1, <2>2, <3>2, LengthOfElements DEF WriterInv, Last
    <3>3. QED
      BY <3>1, <3>2
  <2>4. WriterTypeOK'
    BY <1>1, <2>2, <2>3 DEF WriterInv, WriterTypeOK
  <2>5. OpenElementsNested'
    <3>1. \A i \in 1..(m - 1) : i \in 1..m /\ i + 1 \in 1..m /\ i \in 1..(Len(elementStack) - 1)
      BY <2>1
    <3>2. \A i \in 1..(m - 1) : elements'[elementStack'[i + 1]].parent \in {elementStack'[i], NoElement}
      BY <1>1, <2>2, <3>1 DEF WriterInv, OpenElementsNested
    <3>3. QED
      BY <1>1, <2>2, <3>2 DEF OpenElementsNested, Last
  <2>6. QED
    BY <1>1, <2>4, <2>5 DEF WriterInv, ElementsAreRecords, Parts, ParentsBefore
<1>2. CASE Returns
  BY <1>2, ReturnsInv
<1>3. QED
  BY <1>1, <1>2 DEF endElement

LEMMA writeContentInv ==
  ASSUME WriterInv, NEW name, NEW value, writeContent(name, value)
  PROVE  WriterInv'
<1> DEFINE new == {c \in elements[currentElement].content : c[1] # name \/ name = "text"}
                  \cup {<<name, value>>}
<1>1. CASE /\ currentElement # NoElement
           /\ elements' = [elements EXCEPT ![currentElement].content = new]
           /\ UNCHANGED <<document, currentElement, elementStack, hasError>>
  <2> HIDE DEF new
  <2>0. Len(elements) \in Nat /\ elements \in Seq(Parts) /\ DOMAIN elements = 1..Len(elements)
    BY LengthOfElements DEF WriterInv, ElementsAreRecords
  <2>1. currentElement \in 1..Len(elements)
    BY <1>1, <2>0 DEF WriterInv, WriterTypeOK, NoElement
  <2>2. /\ DOMAIN elements' = 1..Len(elements)
        /\ \A e \in 1..Len(elements) :
             elements'[e] = IF e = currentElement THEN [elements[e] EXCEPT !.content = new]
                            ELSE elements[e]
    BY <1>1, <2>0, <2>1
  <2>3. elements' = [e \in 1..Len(elements) |-> elements'[e]]
    BY <1>1, <2>0
  <2>4. Len(elements') = Len(elements)
    BY <2>0, <2>3
  <2>5. ASSUME NEW e \in 1..Len(elements)
        PROVE  DOMAIN elements'[e] = Fields /\ elements'[e].parent = elements[e].parent
    <3>1. DOMAIN elements[e] = Fields
      BY DEF WriterInv, ElementsAreRecords
    <3>2. QED
      BY <2>2, <3>1 DEF Fields
  <2>6. ElementsAreRecords'
    <3>1. Parts' = {elements'[e] : e \in 1..Len(elements)}
      BY <2>4 DEF Parts
    <3>2. elements' \in Seq(Parts')
      BY <2>0, <2>3, <3>1
    <3>3. QED
      BY <2>4, <2>5, <3>2 DEF ElementsAreRecords
  <2>7. ParentsBefore'
    BY <2>4, <2>5 DEF WriterInv, ParentsBefore
  <2>8. WriterTypeOK'
    BY <1>1, <2>4 DEF WriterInv, WriterTypeOK
  <2>9. OpenElementsNested'
    <3>1. ASSUME NEW i \in 1..(Len(elementStack) - 1)
          PROVE  elements'[elementStack[i + 1]].parent \in {elementStack[i], NoElement}
      <4>1. i + 1 \in 1..Len(elementStack)
        BY DEF WriterInv, WriterTypeOK
      <4>2. elementStack[i + 1] \in 1..Len(elements)
        BY <4>1 DEF WriterInv, WriterTypeOK
      <4>3. QED
        BY <4>2, <2>5 DEF WriterInv, OpenElementsNested
    <3>2. QED
      BY <1>1, <3>1 DEF WriterInv, OpenElementsNested
  <2>10. QED
    BY <2>6, <2>7, <2>8, <2>9 DEF WriterInv
<1>2. CASE Fails
  BY <1>2, FailsInv
<1>3. CASE Returns
  BY <1>3, ReturnsInv
<1>4. QED
  BY <1>1, <1>2, <1>3 DEF writeContent

-----------------------------------------------------------------------------
(* What is still to be written, as a walk over stacks. An open element is  *)
(* known by the part of the model it is for, 0 if it is for none, and by   *)
(* the part around what is written into it.                                *)
Item == [of : Nat, inside : Nat]
Stacks == Seq(Item)

Inner(of, top) == [of |-> of, inside |-> IF of # CityModelNode THEN of ELSE top.inside]
Under(s, of) == Append(s, Inner(of, Last(s)))

(* Owners, of a city model.                                                *)
OwnersIn(m, x) ==
  {CityModelNode : i \in {i \in DOMAIN m.roots : m.roots[i] = x}}
  \cup {o \in DOMAIN m.type : x \in Range(m.children[o]) \cup Range(m.geometries[o])}
  \cup {g \in DOMAIN m.parts : x \in Range(m.parts[g]) \cup Range(m.polygons[g])
                                       \cup Range(m.lines[g])}

Fits(m, name, of, inside) ==
  of # CityModelNode =>
    IF name = "Appearance" THEN inside = of ELSE inside \in OwnersIn(m, of)

(* A call is legal with the stack s, and the stack is t after it: an       *)
(* element is in one of the namespaces A and lies in what holds its part   *)
(* of the model, and an id is that of the part.                            *)
Turns(m, A, c, s, t) ==
  /\ s \in Stacks /\ s # <<>> /\ t \in Stacks
  /\ \/ /\ c[1] = "start" /\ c[4] \in Nat /\ c[3] \in A
        /\ Fits(m, c[2], c[4], Last(s).inside)
        /\ t = Under(s, c[4])
     \/ c[1] = "end" /\ t = Front(s) /\ t # <<>>
     \/ /\ c[1] = "content" /\ t = s
        /\ c[2] = "gml:id" /\ Last(s).of # CityModelNode => c[3] = Last(s).of
     \/ c[1] = "object" /\ t = s /\ c[2] \in DOMAIN m.type /\ Last(s).inside \in OwnersIn(m, c[2])
     \/ c[1] = "geometry" /\ t = s /\ c[2] \in DOMAIN m.parts /\ Last(s).inside \in OwnersIn(m, c[2])

(* The calls are legal one after the other; w: the stacks in between.      *)
Walks(m, A, calls, w) == \A i \in 1..Len(calls) : Turns(m, A, calls[i], w[i], w[i + 1])

Runs(m, A, calls, s, t) ==
  /\ calls \in Seq(Range(calls))
  /\ \E w \in Seq(Stacks) :
       /\ Len(w) = Len(calls) + 1 /\ w[1] = s /\ w[Len(calls) + 1] = t
       /\ Walks(m, A, calls, w)

(* A sequence is one of its own values, and of any set that has them.      *)
LEMMA ValuesOfSeq ==
  ASSUME NEW S, NEW c \in Seq(S)
  PROVE  /\ c \in Seq(Range(c))
         /\ Range(c) \in SUBSET S
         /\ Len(c) \in Nat
<1>1. \A i \in 1..Len(c) : c[i] \in Range(c) /\ c[i] \in S
  BY DEF Range
<1>2. Range(c) \in SUBSET S
  BY DEF Range
<1>3. c \in Seq(Range(c))
  BY <1>1, SeqOfValues
<1>4. Len(c) \in Nat
  BY LenProperties
<1>5. QED
  BY <1>2, <1>3, <1>4

LEMMA SeqWider ==
  ASSUME NEW S, NEW T, S \in SUBSET T, NEW c \in Seq(S)
  PROVE  c \in Seq(T)
<1>1. \A i \in 1..Len(c) : c[i] \in T
  OBVIOUS
<1>2. QED
  BY <1>1, SeqOfValues

LEMMA RunsTyped ==
  ASSUME NEW m, NEW A, NEW calls, NEW s, NEW t, Runs(m, A, calls, s, t)
  PROVE  s \in Stacks /\ t \in Stacks /\ calls \in Seq(Range(calls)) /\ Len(calls) \in Nat
<1>1. calls \in Seq(Range(calls)) /\ Len(calls) \in Nat
  BY DEF Runs
<1>2. PICK w \in Seq(Stacks) : Len(w) = Len(calls) + 1 /\ w[1] = s /\ w[Len(calls) + 1] = t
  BY DEF Runs
<1> HIDE DEF Stacks
<1>3. w[1] \in Stacks /\ w[Len(calls) + 1] \in Stacks
  BY <1>1, <1>2
<1>4. QED
  BY <1>1, <1>2, <1>3

(* No calls.                                                               *)
LEMMA RunsNothing ==
  ASSUME NEW m, NEW A, NEW s \in Stacks
  PROVE  Runs(m, A, <<>>, s, s)
<1> DEFINE w == <<s>>
<1>1. w \in Seq(Stacks) /\ Len(w) = 1 /\ w[1] = s
  OBVIOUS
<1>2. <<>> \in Seq(Range(<<>>)) /\ Len(<<>>) = 0
  OBVIOUS
<1> HIDE DEF w
<1>3. Walks(m, A, <<>>, w)
  BY <1>2 DEF Walks
<1>4. QED
  BY <1>1, <1>2, <1>3 DEF Runs

(* One call.                                                               *)
LEMMA RunsOne ==
  ASSUME NEW m, NEW A, NEW c, NEW s, NEW t, Turns(m, A, c, s, t)
  PROVE  Runs(m, A, <<c>>, s, t)
<1> DEFINE w == <<s, t>>
<1>1. s \in Stacks /\ t \in Stacks
  BY DEF Turns
<1>2. w \in Seq(Stacks) /\ Len(w) = 2 /\ w[1] = s /\ w[2] = t
  BY <1>1
<1>3. <<c>> \in Seq({c}) /\ Len(<<c>>) = 1 /\ <<c>>[1] = c
  OBVIOUS
<1>4. <<c>> \in Seq(Range(<<c>>))
  BY <1>3, ValuesOfSeq
<1> DEFINE cs == <<c>>
<1>5. cs \in Seq(Range(cs)) /\ Len(cs) = 1 /\ cs[1] = c
  BY <1>3, <1>4
<1> HIDE DEF w, cs
<1>6. Walks(m, A, cs, w)
  BY <1>2, <1>5 DEF Walks
<1>7. Runs(m, A, cs, s, t)
  BY <1>2, <1>5, <1>6 DEF Runs
<1>8. QED
  BY <1>7 DEF cs

(* Calls after calls.                                                      *)
LEMMA RunsJoin ==
  ASSUME NEW m, NEW A, NEW a, NEW b, NEW s, NEW t, NEW u,
         Runs(m, A, a, s, t), Runs(m, A, b, t, u)
  PROVE  Runs(m, A, a \o b, s, u)
<1> DEFINE S == Range(a) \cup Range(b)
           n == Len(a)
           k == Len(b)
           c == a \o b
<1>1. a \in Seq(Range(a)) /\ b \in Seq(Range(b)) /\ n \in Nat /\ k \in Nat
  BY RunsTyped
<1>2. PICK v \in Seq(Stacks) : /\ Len(v) = n + 1 /\ v[1] = s /\ v[n + 1] = t
                               /\ Walks(m, A, a, v)
  BY DEF Runs
<1>3. PICK w \in Seq(Stacks) : /\ Len(w) = k + 1 /\ w[1] = t /\ w[k + 1] = u
                               /\ Walks(m, A, b, w)
  BY DEF Runs
<1>4. a \in Seq(S) /\ b \in Seq(S)
  <2>1. Range(a) \in SUBSET S /\ Range(b) \in SUBSET S
    OBVIOUS
  <2> HIDE DEF S
  <2>2. QED
    BY <1>1, <2>1, SeqWider
<1>5. /\ c \in Seq(S) /\ Len(c) = n + k
      /\ \A i \in 1..n : c[i] = a[i]
      /\ \A i \in 1..k : c[n + i] = b[i]
  <2> HIDE DEF S
  <2>1. QED
    BY <1>4, ConcatFacts
<1> DEFINE z == [i \in 1..(n + k + 1) |-> IF i <= n THEN v[i] ELSE w[i - n]]
<1> HIDE DEF S, n, k, c, Stacks
<1>6. c \in Seq(Range(c))
  BY <1>5, ValuesOfSeq
<1>7. z \in Seq(Stacks) /\ Len(z) = n + k + 1
  <2>1. \A i \in 1..(n + k + 1) : i <= n => i \in 1..(n + 1)
    BY <1>1
  <2>2. \A i \in 1..(n + k + 1) : ~(i <= n) => i - n \in 1..(k + 1)
    BY <1>1
  <2>3. \A i \in 1..(n + k + 1) : z[i] \in Stacks
    BY <1>2, <1>3, <2>1, <2>2
  <2>4. z \in [1..(n + k + 1) -> Stacks]
    BY <2>3
  <2>5. n + k + 1 \in Nat
    BY <1>1
  <2>6. QED
    BY <2>4, <2>5
<1>8. \A i \in 1..(n + k + 1) : i <= n + 1 => z[i] = v[i]
  BY <1>1, <1>2, <1>3
<1>9. \A i \in 1..(k + 1) : z[n + i] = w[i]
  BY <1>1, <1>2, <1>3
<1> HIDE DEF z
<1>10. z[1] = s /\ z[n + k + 1] = u
  <2>1. 1 \in 1..(n + k + 1) /\ 1 <= n + 1 /\ k + 1 \in 1..(k + 1) /\ n + (k + 1) = n + k + 1
    BY <1>1
  <2>2. z[1] = v[1]
    BY <1>8, <2>1
  <2>3. z[n + k + 1] = w[k + 1]
    BY <1>9, <2>1
  <2>4. QED
    BY <1>2, <1>3, <2>2, <2>3
<1>11. Walks(m, A, c, z)
  <2>1. ASSUME NEW i \in 1..(n + k)
        PROVE  Turns(m, A, c[i], z[i], z[i + 1])
    <3>1. CASE i <= n
      <4>1. i \in 1..n /\ z[i] = v[i] /\ z[i + 1] = v[i + 1] /\ c[i] = a[i]
        BY <1>1, <1>5, <1>8, <3>1
      <4>2. QED
        BY <1>2, <4>1 DEF Walks, n
    <3>2. CASE ~(i <= n)
      <4>1. PICK j \in 1..k : i = n + j
        <5>1. i - n \in 1..k /\ i = n + (i - n)
          BY <1>1, <3>2
        <5>2. QED
          BY <5>1
      <4>2. /\ j \in 1..(k + 1) /\ j + 1 \in 1..(k + 1)
            /\ n + (j + 1) = i + 1
        BY <1>1, <4>1
      <4>3. c[i] = b[j] /\ z[i] = w[j] /\ z[i + 1] = w[j + 1]
        BY <1>5, <1>9, <4>1, <4>2
      <4>4. QED
        BY <1>3, <4>3 DEF Walks, k
    <3>3. QED
      BY <3>1, <3>2
  <2>2. QED
    BY <1>5, <2>1 DEF Walks
<1>12. Runs(m, A, c, s, u)
  BY <1>5, <1>6, <1>7, <1>10, <1>11 DEF Runs
<1>13. QED
  BY <1>12 DEF c

(* Sequences that are written out.                                         *)
LEMMA OneAndOne ==
  ASSUME NEW a, NEW b
  PROVE  <<a>> \o <<b>> = <<a, b>>
<1> DEFINE S == {a, b}
           p == <<a>>
           q == <<b>>
           r == <<a, b>>
<1>1. p \in Seq(S) /\ q \in Seq(S) /\ r \in Seq(S)
  OBVIOUS
<1>2. Len(p) = 1 /\ Len(q) = 1 /\ Len(r) = 2 /\ p[1] = a /\ q[1] = b /\ r[1] = a /\ r[2] = b
  OBVIOUS
<1> HIDE DEF S, p, q, r
<1>3. p \o q \in Seq(S) /\ Len(p \o q) = 2 /\ (p \o q)[1] = a /\ (p \o q)[1 + 1] = b
  <2>1. /\ p \o q \in Seq(S) /\ Len(p \o q) = 1 + 1
        /\ \A i \in 1..1 : (p \o q)[i] = p[i]
        /\ \A i \in 1..1 : (p \o q)[1 + i] = q[i]
    <3>1. /\ p \o q \in Seq(S) /\ Len(p \o q) = Len(p) + Len(q)
          /\ \A i \in 1..Len(p) : (p \o q)[i] = p[i]
          /\ \A i \in 1..Len(q) : (p \o q)[Len(p) + i] = q[i]
      BY <1>1, ConcatFacts
    <3>2. QED
      BY <1>2, <3>1
  <2>2. 1 \in 1..1 /\ 1 + 1 = 2
    OBVIOUS
  <2>3. QED
    BY <1>2, <2>1, <2>2
<1>4. \A i \in 1..Len(r) : (p \o q)[i] = r[i]
  <2>1. \A i \in 1..2 : i = 1 \/ i = 1 + 1
    OBVIOUS
  <2>2. QED
    BY <1>2, <1>3, <2>1
<1>5. p \o q = r
  BY <1>1, <1>2, <1>3, <1>4, SeqEqual
<1>6. QED
  BY <1>5 DEF p, q, r

LEMMA OneAndTwo ==
  ASSUME NEW a, NEW b, NEW c
  PROVE  <<a>> \o <<b, c>> = <<a, b, c>>
<1> DEFINE S == {a, b, c}
           p == <<a>>
           q == <<b, c>>
           r == <<a, b, c>>
<1>1. p \in Seq(S) /\ q \in Seq(S) /\ r \in Seq(S)
  OBVIOUS
<1>2. /\ Len(p) = 1 /\ Len(q) = 2 /\ Len(r) = 3
      /\ p[1] = a /\ q[1] = b /\ q[2] = c
      /\ r[1] = a /\ r[2] = b /\ r[3] = c
  OBVIOUS
<1> HIDE DEF S, p, q, r
<1>3. /\ p \o q \in Seq(S) /\ Len(p \o q) = 3
      /\ (p \o q)[1] = a /\ (p \o q)[1 + 1] = b /\ (p \o q)[1 + 2] = c
  <2>1. /\ p \o q \in Seq(S) /\ Len(p \o q) = 1 + 2
        /\ \A i \in 1..1 : (p \o q)[i] = p[i]
        /\ \A i \in 1..2 : (p \o q)[1 + i] = q[i]
    BY <1>1, <1>2, ConcatFacts, SMTT(60)
  <2>2. 1 \in 1..1 /\ 1 \in 1..2 /\ 2 \in 1..2 /\ 1 + 2 = 3
    OBVIOUS
  <2>3. QED
    BY <1>2, <2>1, <2>2
<1>4. \A i \in 1..Len(r) : (p \o q)[i] = r[i]
  <2>1. \A i \in 1..3 : i = 1 \/ i = 1 + 1 \/ i = 1 + 2
    OBVIOUS
  <2>2. QED
    BY <1>2, <1>3, <2>1
<1>5. p \o q = r
  BY <1>1, <1>2, <1>3, <1>4, SeqEqual
<1>6. QED
  BY <1>5 DEF p, q, r

LEMMA RunsTwo ==
  ASSUME NEW m, NEW A, NEW a, NEW b, NEW s, NEW t, NEW u,
         Turns(m, A, a, s, t), Turns(m, A, b, t, u)
  PROVE  Runs(m, A, <<a, b>>, s, u)
<1>1. Runs(m, A, <<a>>, s, t) /\ Runs(m, A, <<b>>, t, u)
  BY RunsOne
<1>2. Runs(m, A, <<a>> \o <<b>>, s, u)
  BY <1>1, RunsJoin
<1>3. <<a>> \o <<b>> = <<a, b>>
  BY OneAndOne
<1>4. QED
  BY <1>2, <1>3

LEMMA RunsThree ==
  ASSUME NEW m, NEW A, NEW a, NEW b, NEW c, NEW s, NEW t, NEW u, NEW v,
         Turns(m, A, a, s, t), Turns(m, A, b, t, u), Turns(m, A, c, u, v)
  PROVE  Runs(m, A, <<a, b, c>>, s, v)
<1>1. Runs(m, A, <<a>>, s, t) /\ Runs(m, A, <<b, c>>, t, v)
  BY RunsOne, RunsTwo
<1>2. Runs(m, A, <<a>> \o <<b, c>>, s, v)
  BY <1>1, RunsJoin
<1>3. <<a>> \o <<b, c>> = <<a, b, c>>
  BY OneAndTwo
<1>4. QED
  BY <1>2, <1>3

(* The first call is made.                                                 *)
LEMMA RunsFirst ==
  ASSUME NEW m, NEW A, NEW calls, NEW s, NEW t, Runs(m, A, calls, s, t), calls # <<>>
  PROVE  \E u : Turns(m, A, Head(calls), s, u) /\ Runs(m, A, Tail(calls), u, t)
<1> DEFINE n == Len(calls) - 1
           r == Tail(calls)
<1>1. calls \in Seq(Range(calls)) /\ n \in Nat /\ Len(calls) = n + 1
  BY RunsTyped
<1>2. PICK w \in Seq(Stacks) : /\ Len(w) = n + 2 /\ w[1] = s /\ w[n + 2] = t
                               /\ Walks(m, A, calls, w)
  BY <1>1 DEF Runs
<1>3. Head(calls) = calls[1] /\ 1 \in 1..Len(calls)
  BY <1>1
<1>4. Turns(m, A, Head(calls), s, w[2])
  BY <1>2, <1>3 DEF Walks
<1>5. /\ r \in Seq(Range(calls)) /\ Len(r) = n
      /\ \A i \in 1..n : r[i] = calls[i + 1]
  BY <1>1
<1> DEFINE z == Tail(w)
<1>6. z \in Seq(Stacks) /\ Len(z) = n + 1 /\ \A i \in 1..(n + 1) : z[i] = w[i + 1]
  <2> HIDE DEF Stacks, n
  <2>1. w # <<>> /\ Len(w) - 1 = n + 1
    BY <1>1, <1>2
  <2>2. QED
    BY <1>1, <1>2, <2>1
<1> HIDE DEF z, r, Stacks, n
<1>7. Walks(m, A, r, z)
  <2>1. \A i \in 1..n : /\ i \in 1..(n + 1) /\ i + 1 \in 1..(n + 1) /\ i + 1 \in 1..Len(calls)
    BY <1>1
  <2>2. \A i \in 1..n : r[i] = calls[i + 1] /\ z[i] = w[i + 1] /\ z[i + 1] = w[(i + 1) + 1]
    BY <1>5, <1>6, <2>1
  <2>3. \A i \in 1..n : Turns(m, A, calls[i + 1], w[i + 1], w[(i + 1) + 1])
    BY <1>2, <2>1 DEF Walks
  <2>4. QED
    BY <1>5, <2>2, <2>3 DEF Walks
<1>8. z[1] = w[2] /\ z[n + 1] = t
  <2>1. 1 \in 1..(n + 1) /\ n + 1 \in 1..(n + 1) /\ (n + 1) + 1 = n + 2 /\ 1 + 1 = 2
    BY <1>1
  <2>2. QED
    BY <1>2, <1>6, <2>1
<1>9. r \in Seq(Range(r))
  BY <1>5, ValuesOfSeq
<1>10. Runs(m, A, r, w[2], t)
  BY <1>5, <1>6, <1>7, <1>8, <1>9 DEF Runs
<1>11. QED
  BY <1>4, <1>10 DEF r

-----------------------------------------------------------------------------
(* Single calls.                                                           *)
LEMMA UnderFacts ==
  ASSUME NEW s \in Stacks, s # <<>>, NEW of \in Nat
  PROVE  /\ Inner(of, Last(s)) \in Item
         /\ Last(s) \in Item
         /\ Under(s, of) \in Stacks
         /\ Under(s, of) # <<>>
         /\ Last(Under(s, of)) = Inner(of, Last(s))
         /\ Front(Under(s, of)) = s
<1>1. Last(s) \in Item
  BY FrontLast DEF Stacks
<1>2. Inner(of, Last(s)) \in Item
  BY <1>1 DEF Inner, Item
<1>3. /\ Under(s, of) \in Stacks /\ Under(s, of) # <<>>
      /\ Last(Under(s, of)) = Inner(of, Last(s)) /\ Front(Under(s, of)) = s
  BY <1>2, AppendLastFront DEF Stacks, Under
<1>4. QED
  BY <1>1, <1>2, <1>3

LEMMA StartTurns ==
  ASSUME NEW m, NEW A, NEW s \in Stacks, s # <<>>, NEW name, NEW namespace \in A, NEW of \in Nat,
         Fits(m, name, of, Last(s).inside)
  PROVE  Turns(m, A, Start(name, namespace, of), s, Under(s, of))
<1> DEFINE c == Start(name, namespace, of)
<1>1. c[1] = "start" /\ c[2] = name /\ c[3] = namespace /\ c[4] = of
  BY DEF Start
<1>2. Under(s, of) \in Stacks
  BY UnderFacts
<1> HIDE DEF c
<1>3. Turns(m, A, c, s, Under(s, of))
  BY <1>1, <1>2 DEF Turns
<1>4. QED
  BY <1>3 DEF c

LEMMA OpenTurns ==
  ASSUME NEW m, NEW A, NEW s \in Stacks, s # <<>>, NEW name, NEW namespace \in A
  PROVE  Turns(m, A, Open(name, namespace), s, Under(s, 0))
<1>1. Fits(m, name, 0, Last(s).inside)
  BY DEF Fits, CityModelNode
<1>2. QED
  BY <1>1, StartTurns DEF Open, CityModelNode

LEMMA EndTurns ==
  ASSUME NEW m, NEW A, NEW s \in Stacks, s # <<>>, NEW of \in Nat
  PROVE  Turns(m, A, End, Under(s, of), s)
<1> DEFINE t == Under(s, of)
<1>1. t \in Stacks /\ t # <<>> /\ s = Front(t)
  BY UnderFacts
<1>2. End[1] = "end"
  BY DEF End
<1> HIDE DEF t
<1>3. Turns(m, A, End, t, s)
  BY <1>1, <1>2 DEF Turns
<1>4. QED
  BY <1>3 DEF t

LEMMA AttributeTurns ==
  ASSUME NEW m, NEW A, NEW s \in Stacks, s # <<>>, NEW name, NEW value,
         name = "gml:id" => Last(s).of \in {CityModelNode, value}
  PROVE  Turns(m, A, Attribute(name, value), s, s)
<1> DEFINE c == Attribute(name, value)
<1>1. c[1] = "content" /\ c[2] = name /\ c[3] = value
  BY DEF Attribute
<1> HIDE DEF c
<1>2. Turns(m, A, c, s, s)
  BY <1>1 DEF Turns
<1>3. QED
  BY <1>2 DEF c

LEMMA TextTurns ==
  ASSUME NEW m, NEW A, NEW s \in Stacks, s # <<>>, NEW value
  PROVE  Turns(m, A, Text(value), s, s)
BY AttributeTurns DEF Text

LEMMA ObjectTurns ==
  ASSUME NEW m, NEW A, NEW s \in Stacks, s # <<>>, NEW o \in DOMAIN m.type, NEW isRoot,
         Last(s).inside \in OwnersIn(m, o)
  PROVE  Turns(m, A, Object(o, isRoot), s, s)
<1> DEFINE c == Object(o, isRoot)
<1>1. c[1] = "object" /\ c[2] = o
  BY DEF Object
<1> HIDE DEF c
<1>2. Turns(m, A, c, s, s)
  BY <1>1 DEF Turns
<1>3. QED
  BY <1>2 DEF c

LEMMA GeometryTurns ==
  ASSUME NEW m, NEW A, NEW s \in Stacks, s # <<>>, NEW g \in DOMAIN m.parts,
         Last(s).inside \in OwnersIn(m, g)
  PROVE  Turns(m, A, Geometry(g), s, s)
<1> DEFINE c == Geometry(g)
<1>1. c[1] = "geometry" /\ c[2] = g
  BY DEF Geometry
<1> HIDE DEF c
<1>2. Turns(m, A, c, s, s)
  BY <1>1 DEF Turns
<1>3. QED
  BY <1>2 DEF c

-----------------------------------------------------------------------------
(* Calls that leave the writer where they found it.                        *)
Stays(m, A, calls, s) == Runs(m, A, calls, s, s)

LEMMA NothingStays ==
  ASSUME NEW m, NEW A, NEW s \in Stacks
  PROVE  Stays(m, A, <<>>, s)
  BY RunsNothing DEF Stays

LEMMA OneStays ==
  ASSUME NEW m, NEW A, NEW c, NEW s, Turns(m, A, c, s, s)
  PROVE  Stays(m, A, <<c>>, s)
  BY RunsOne DEF Stays

LEMMA JoinStays ==
  ASSUME NEW m, NEW A, NEW a, NEW b, NEW s, Stays(m, A, a, s), Stays(m, A, b, s)
  PROVE  Stays(m, A, a \o b, s)
  BY RunsJoin DEF Stays

LEMMA IfStays ==
  ASSUME NEW m, NEW A, NEW condition, NEW calls, NEW s \in Stacks,
         condition => Stays(m, A, calls, s)
  PROVE  Stays(m, A, If(condition, calls), s)
<1>1. CASE condition
  BY <1>1 DEF If
<1>2. CASE ~condition
  BY <1>2, NothingStays DEF If
<1>3. QED
  BY <1>1, <1>2

(* Pieces one after the other.                                             *)
LEMMA FlatStays ==
  ASSUME NEW m, NEW A, NEW s \in Stacks, NEW n \in Nat, NEW F, F = [i \in 1..n |-> F[i]],
         \A i \in 1..n : Stays(m, A, F[i], s)
  PROVE  Stays(m, A, FlattenSeq(F), s)
<1> DEFINE S == UNION {Range(F[i]) : i \in 1..n}
           Q(k) == [i \in 1..k |-> F[i]]
           T == {k \in Nat : k <= n => Stays(m, A, FlattenSeq(Q(k)), s)}
<1>1. \A i \in 1..n : F[i] \in Seq(S)
  <2>1. ASSUME NEW i \in 1..n
        PROVE  F[i] \in Seq(S)
    <3>1. F[i] \in Seq(Range(F[i]))
      BY RunsTyped DEF Stays
    <3>2. Range(F[i]) \in SUBSET S
      OBVIOUS
    <3> HIDE DEF S
    <3>3. QED
      BY <3>1, <3>2, SeqWider
  <2>2. QED
    BY <2>1
<1> HIDE DEF S
<1>2. 0 \in T
  <2>1. Q(0) = <<>>
    OBVIOUS
  <2>2. FlattenSeq(Q(0)) = <<>>
    BY <2>1, FlattenEmpty
  <2>3. Stays(m, A, FlattenSeq(Q(0)), s)
    BY <2>2, NothingStays
  <2>4. QED
    BY <2>3
<1>3. ASSUME NEW k \in Nat, k \in T
      PROVE  k + 1 \in T
  <2>1. SUFFICES ASSUME k + 1 <= n PROVE Stays(m, A, FlattenSeq(Q(k + 1)), s)
    OBVIOUS
  <2>2. Stays(m, A, FlattenSeq(Q(k)), s)
    BY <1>3, <2>1
  <2>3. Q(k + 1) \in [1..(k + 1) -> Seq(S)] /\ k + 1 \in 1..n
    BY <1>1, <2>1
  <2> DEFINE f == Q(k + 1)
  <2>4. f[k + 1] = F[k + 1] /\ [j \in 1..k |-> f[j]] = Q(k)
    OBVIOUS
  <2>5. f \in [1..(k + 1) -> Seq(S)]
    BY <2>3
  <2> HIDE DEF f
  <2>6. Q(k) \in Seq(Seq(S)) /\ f = Append(Q(k), F[k + 1])
    BY <2>4, <2>5, FunctionAppend
  <2>7. F[k + 1] \in Seq(S) /\ Stays(m, A, F[k + 1], s)
    BY <1>1, <2>3
  <2> HIDE DEF Q
  <2>8. FlattenSeq(f) = FlattenSeq(Q(k)) \o F[k + 1]
    BY <2>6, <2>7, FlattenAppend
  <2>9. Stays(m, A, FlattenSeq(f), s)
    BY <2>2, <2>7, <2>8, JoinStays
  <2>10. QED
    BY <2>9 DEF f
<1> HIDE DEF T
<1>4. n \in T
  BY <1>2, <1>3, NatInduct
<1>5. Q(n) = F
  OBVIOUS
<1>6. QED
  BY <1>4, <1>5 DEF T

LEMMA EachStays ==
  ASSUME NEW m, NEW A, NEW s \in Stacks, NEW P, NEW parts \in Seq(P),
         NEW F, F = [i \in DOMAIN parts |-> F[i]],
         \A i \in DOMAIN parts : Stays(m, A, F[i], s)
  PROVE  Stays(m, A, FlattenSeq(F), s)
<1>1. Len(parts) \in Nat /\ DOMAIN parts = 1..Len(parts)
  OBVIOUS
<1>2. QED
  BY <1>1, FlatStays

(* A call for each part of a sequence.                                     *)
LEMMA CallsStay ==
  ASSUME NEW m, NEW A, NEW s \in Stacks, NEW n \in Nat, NEW F, F = [i \in 1..n |-> F[i]],
         \A i \in 1..n : Turns(m, A, F[i], s, s)
  PROVE  Stays(m, A, F, s)
<1> DEFINE R == {F[i] : i \in 1..n}
           w == [i \in 1..(n + 1) |-> s]
<1>1. F \in Seq(R) /\ Len(F) = n
  OBVIOUS
<1>2. w \in Seq(Stacks) /\ Len(w) = n + 1 /\ \A i \in 1..(n + 1) : w[i] = s
  <2> HIDE DEF Stacks
  <2>1. w \in [1..(n + 1) -> Stacks] /\ n + 1 \in Nat
    OBVIOUS
  <2>2. QED
    BY <2>1
<1> HIDE DEF R, w, Stacks
<1>3. F \in Seq(Range(F))
  BY <1>1, ValuesOfSeq
<1>4. \A i \in 1..n : i \in 1..(n + 1) /\ i + 1 \in 1..(n + 1)
  OBVIOUS
<1>5. 1 \in 1..(n + 1) /\ n + 1 \in 1..(n + 1)
  OBVIOUS
<1>6. Walks(m, A, F, w)
  BY <1>1, <1>2, <1>4 DEF Walks
<1>7. QED
  BY <1>1, <1>2, <1>3, <1>5, <1>6 DEF Runs, Stays

(* Calls in an element that is open.                                       *)
LEMMA ThenStays ==
  ASSUME NEW m, NEW A, NEW a, NEW b, NEW s, NEW t, Runs(m, A, a, s, t), Stays(m, A, b, t)
  PROVE  Runs(m, A, a \o b, s, t)
  BY RunsJoin DEF Stays

LEMMA ThenEnds ==
  ASSUME NEW m, NEW A, NEW a, NEW b, NEW s, NEW t, Runs(m, A, a, s, t), Runs(m, A, b, t, s)
  PROVE  Stays(m, A, a \o b, s)
  BY RunsJoin DEF Stays

-----------------------------------------------------------------------------
(* The pieces that are written, in whatever element they are. The          *)
(* namespaces A have those that the serialize functions name.              *)
Named(A) == {"gml", "core", "gen", "app", "xAL", "uri", "", "bldg"} \subseteq A

(* s: the stack of an element that is open.                                *)
Within(s) == s \in Stacks /\ s # <<>>

LEMMA InnerWithin ==
  ASSUME NEW s, Within(s), NEW of \in Nat
  PROVE  Within(Under(s, of)) /\ Last(Under(s, of)) = Inner(of, Last(s))
  BY UnderFacts DEF Within

LEMMA IdStays ==
  ASSUME NEW A, NEW s, Within(s), NEW x, Last(s).of \in {CityModelNode, x}
  PROVE  Stays(model, A, Id(x), s)
<1>1. Turns(model, A, Attribute("gml:id", x), s, s)
  BY AttributeTurns DEF Within
<1>2. QED
  BY <1>1, OneStays, IfStays DEF Id, Within

LEMMA AttributeStays ==
  ASSUME NEW m, NEW A, NEW s, Within(s), NEW name, name # "gml:id", NEW value
  PROVE  Stays(m, A, <<Attribute(name, value)>>, s)
  BY AttributeTurns, OneStays DEF Within

(* The start of an element, and its end.                                   *)
LEMMA StartRuns ==
  ASSUME NEW m, NEW A, NEW s, Within(s), NEW name, NEW namespace \in A, NEW of \in Nat,
         Fits(m, name, of, Last(s).inside)
  PROVE  /\ Runs(m, A, <<Start(name, namespace, of)>>, s, Under(s, of))
         /\ Runs(m, A, <<End>>, Under(s, of), s)
         /\ Within(Under(s, of))
<1>1. Turns(m, A, Start(name, namespace, of), s, Under(s, of)) /\ Turns(m, A, End, Under(s, of), s)
  BY StartTurns, EndTurns DEF Within
<1>2. QED
  BY <1>1, RunsOne, InnerWithin

LEMMA OpenRuns ==
  ASSUME NEW m, NEW A, NEW s, Within(s), NEW name, NEW namespace \in A
  PROVE  /\ Runs(m, A, <<Open(name, namespace)>>, s, Under(s, 0))
         /\ Runs(m, A, <<End>>, Under(s, 0), s)
         /\ Within(Under(s, 0))
<1>1. Turns(m, A, Open(name, namespace), s, Under(s, 0)) /\ Turns(m, A, End, Under(s, 0), s)
  BY OpenTurns, EndTurns DEF Within
<1>2. QED
  BY <1>1, RunsOne, InnerWithin

(* An element with a first element, and the end of both.                   *)
LEMMA OpenStartRuns ==
  ASSUME NEW m, NEW A, NEW s, Within(s), NEW name, NEW namespace \in A,
         NEW inner, NEW innerspace \in A, NEW of \in Nat,
         Fits(m, inner, of, Last(Under(s, 0)).inside)
  PROVE  /\ Runs(m, A, <<Open(name, namespace), Start(inner, innerspace, of)>>, s,
                 Under(Under(s, 0), of))
         /\ Runs(m, A, <<End, End>>, Under(Under(s, 0), of), s)
         /\ Within(Under(Under(s, 0), of))
<1> DEFINE t == Under(s, 0)
<1>1. Turns(m, A, Open(name, namespace), s, t) /\ Turns(m, A, End, t, s) /\ Within(t)
  BY OpenTurns, EndTurns, InnerWithin DEF Within
<1> HIDE DEF t
<1>2. /\ Turns(m, A, Start(inner, innerspace, of), t, Under(t, of))
      /\ Turns(m, A, End, Under(t, of), t)
      /\ Within(Under(t, of))
  <2>1. Fits(m, inner, of, Last(t).inside)
    BY DEF t
  <2>2. QED
    BY <1>1, <2>1, StartTurns, EndTurns, InnerWithin DEF Within
<1>3. /\ Runs(m, A, <<Open(name, namespace), Start(inner, innerspace, of)>>, s, Under(t, of))
      /\ Runs(m, A, <<End, End>>, Under(t, of), s)
  BY <1>1, <1>2, RunsTwo
<1>4. QED
  BY <1>2, <1>3 DEF t

-----------------------------------------------------------------------------
(* The pieces.                                                             *)

(* Calls that may be made in every element that is for no part of the      *)
(* model.                                                                  *)
Inserts(m, A, calls) ==
  \A s : Within(s) /\ Last(s).of = CityModelNode => Stays(m, A, calls, s)

LEMMA NestedStays ==
  ASSUME NEW m, NEW A, NEW s, Within(s), NEW name, NEW namespace \in A, NEW calls,
         Inserts(m, A, calls)
  PROVE  Stays(m, A, Nested(name, namespace, calls), s)
<1> DEFINE t == Under(s, 0)
           a == <<Open(name, namespace)>>
           e == <<End>>
<1>1. Runs(m, A, a, s, t) /\ Runs(m, A, e, t, s) /\ Within(t)
  BY OpenRuns
<1>2. Last(t).of = CityModelNode
  BY InnerWithin DEF Inner, CityModelNode
<1> HIDE DEF t, a, e
<1>3. Stays(m, A, calls, t)
  BY <1>1, <1>2 DEF Inserts
<1>4. Runs(m, A, a \o calls, s, t)
  BY <1>1, <1>3, ThenStays
<1>5. Stays(m, A, a \o calls \o e, s)
  BY <1>1, <1>4, ThenEnds
<1>6. QED
  BY <1>5 DEF Nested, a, e

LEMMA NestedInserts ==
  ASSUME NEW m, NEW A, NEW name, NEW namespace \in A, NEW calls, Inserts(m, A, calls)
  PROVE  Inserts(m, A, Nested(name, namespace, calls))
<1>1. \A s : Within(s) => Stays(m, A, Nested(name, namespace, calls), s)
  BY NestedStays
<1>2. QED
  BY <1>1 DEF Inserts

LEMMA NothingInserts ==
  ASSUME NEW m, NEW A
  PROVE  Inserts(m, A, <<>>)
  BY NothingStays DEF Inserts, Within

LEMMA JoinInserts ==
  ASSUME NEW m, NEW A, NEW a, NEW b, Inserts(m, A, a), Inserts(m, A, b)
  PROVE  Inserts(m, A, a \o b)
  BY JoinStays DEF Inserts

LEMMA IfInserts ==
  ASSUME NEW m, NEW A, NEW condition, NEW calls, condition => Inserts(m, A, calls)
  PROVE  Inserts(m, A, If(condition, calls))
<1>1. CASE condition
  BY <1>1 DEF If
<1>2. CASE ~condition
  BY <1>2, NothingInserts DEF If
<1>3. QED
  BY <1>1, <1>2

LEMMA EachInserts ==
  ASSUME NEW m, NEW A, NEW P, NEW parts \in Seq(P),
         NEW F, F = [i \in DOMAIN parts |-> F[i]],
         \A i \in DOMAIN parts : Inserts(m, A, F[i])
  PROVE  Inserts(m, A, FlattenSeq(F))
<1>1. ASSUME NEW s, Within(s), Last(s).of = CityModelNode
      PROVE  Stays(m, A, FlattenSeq(F), s)
  <2>1. \A i \in DOMAIN parts : Stays(m, A, F[i], s)
    BY <1>1 DEF Inserts
  <2>2. s \in Stacks
    BY <1>1 DEF Within
  <2>3. QED
    BY <2>1, <2>2, EachStays
<1>2. QED
  BY <1>1 DEF Inserts

LEMMA AttributeInserts ==
  ASSUME NEW m, NEW A, NEW name, NEW value
  PROVE  Inserts(m, A, <<Attribute(name, value)>>)
<1>1. ASSUME NEW s, Within(s), Last(s).of = CityModelNode
      PROVE  Stays(m, A, <<Attribute(name, value)>>, s)
  BY <1>1, AttributeTurns, OneStays DEF Within
<1>2. QED
  BY <1>1 DEF Inserts

LEMMA TextInserts ==
  ASSUME NEW m, NEW A, NEW value
  PROVE  Inserts(m, A, <<Text(value)>>)
  BY AttributeInserts DEF Text

LEMMA TextElementStays ==
  ASSUME NEW m, NEW A, NEW s, Within(s), NEW name, NEW namespace \in A, NEW value
  PROVE  Stays(m, A, TextElement(name, namespace, value), s)
  BY TextInserts, NestedStays DEF TextElement

LEMMA TextElementInserts ==
  ASSUME NEW m, NEW A, NEW name, NEW namespace \in A, NEW value
  PROVE  Inserts(m, A, TextElement(name, namespace, value))
  BY TextInserts, NestedInserts DEF TextElement

LEMMA IdInserts ==
  ASSUME NEW A, NEW x
  PROVE  Inserts(model, A, Id(x))
  BY AttributeInserts, IfInserts DEF Id

(* An attribute, and a text after it.                                      *)
LEMMA AttributeTextInserts ==
  ASSUME NEW m, NEW A, NEW name, NEW value, NEW text
  PROVE  Inserts(m, A, <<Attribute(name, value), Text(text)>>)
<1>1. ASSUME NEW s, Within(s), Last(s).of = CityModelNode
      PROVE  Stays(m, A, <<Attribute(name, value), Text(text)>>, s)
  <2>1. Turns(m, A, Attribute(name, value), s, s) /\ Turns(m, A, Text(text), s, s)
    BY <1>1, AttributeTurns, TextTurns DEF Within
  <2>2. QED
    BY <2>1, RunsTwo DEF Stays
<1>2. QED
  BY <1>1 DEF Inserts

LEMMA EnvelopeStays ==
  ASSUME NEW m, NEW A, Named(A), NEW s, Within(s), NEW srs
  PROVE  Stays(m, A, Envelope(srs), s)
<1> DEFINE a == If(srs, <<Attribute("srsName", SomeValue)>>)
           b == TextElement("lowerCorner", "gml", SomeValue)
           c == TextElement("upperCorner", "gml", SomeValue)
<1>1. "gml" \in A
  BY DEF Named
<1>2. Inserts(m, A, a) /\ Inserts(m, A, b) /\ Inserts(m, A, c)
  BY <1>1, AttributeInserts, IfInserts, TextElementInserts
<1>3. Envelope(srs) = Nested("boundedBy", "gml", Nested("Envelope", "gml", a \o b \o c))
  BY DEF Envelope
<1> HIDE DEF a, b, c
<1>4. Inserts(m, A, a \o b)
  BY <1>2, JoinInserts
<1>5. Inserts(m, A, a \o b \o c)
  BY <1>2, <1>4, JoinInserts
<1> DEFINE d == Nested("Envelope", "gml", a \o b \o c)
<1>6. Inserts(m, A, d)
  BY <1>1, <1>5, NestedInserts
<1>7. Envelope(srs) = Nested("boundedBy", "gml", d)
  BY <1>3
<1> HIDE DEF d
<1>8. QED
  BY <1>1, <1>6, <1>7, NestedStays

LEMMA AttributeElementStays ==
  ASSUME NEW m, NEW A, Named(A), NEW s, Within(s), NEW a, a.node \in A \cup {""}
  PROVE  Stays(m, A, AttributeElement(a), s)
<1>1. CASE a.node # ""
  <2>1. Stays(m, A, TextElement(a.name, a.node, SomeValue), s)
    BY <1>1, TextElementStays
  <2>2. QED
    BY <1>1, <2>1 DEF AttributeElement
<1>2. CASE a.node = ""
  <2> DEFINE p == <<Attribute("name", a.name)>>
             q == TextElement("value", "gen", SomeValue)
             r == Nested("stringAttribute", "gen", p \o q)
  <2>1. "gen" \in A
    BY DEF Named
  <2>2. Inserts(m, A, p) /\ Inserts(m, A, q)
    BY <2>1, AttributeInserts, TextElementInserts
  <2>3. AttributeElement(a) = If("genericAttributes" \in options, r)
    BY <1>2 DEF AttributeElement
  <2> HIDE DEF p, q
  <2>4. Inserts(m, A, p \o q)
    BY <2>2, JoinInserts
  <2>5. Stays(m, A, r, s)
    BY <2>1, <2>4, NestedStays
  <2> HIDE DEF r
  <2>6. QED
    BY <2>3, <2>5, IfStays DEF Within
<1>3. QED
  BY <1>1, <1>2

(* The list of positions of a ring or a line string, and its parts.        *)
LEMMA PosListStays ==
  ASSUME NEW A, NEW s, Within(s), "gml" \in A, NEW x
  PROVE  Stays(model, A, PosList(x), s)
<1> DEFINE calls == <<Attribute("srsDimension", 3), Text(SomeValue)>>
<1>1. Inserts(model, A, calls)
  BY AttributeTextInserts
<1>2. PosList(x) = If(x \in model.located, Nested("posList", "gml", calls))
  BY DEF PosList
<1> HIDE DEF calls
<1>3. Stays(model, A, Nested("posList", "gml", calls), s)
  BY <1>1, NestedStays
<1>4. QED
  BY <1>2, <1>3, IfStays DEF Within

LEMMA RingStays ==
  ASSUME NEW A, Named(A), NEW s, Within(s), NEW r
  PROVE  Stays(model, A, Ring(r), s)
<1> DEFINE a == Id(r.ring)
           b == PosList(r.ring)
           c == Nested("LinearRing", "gml", a \o b)
<1>1. "gml" \in A
  BY DEF Named
<1>2. Inserts(model, A, a) /\ Inserts(model, A, b)
  BY <1>1, IdInserts, PosListStays DEF Inserts
<1>3. Ring(r) = Nested(r.kind, "gml", c)
  BY DEF Ring
<1> HIDE DEF a, b
<1>4. Inserts(model, A, a \o b)
  BY <1>2, JoinInserts
<1>5. Inserts(model, A, c)
  BY <1>1, <1>4, NestedInserts
<1> HIDE DEF c
<1>6. QED
  BY <1>1, <1>3, <1>5, NestedStays

LEMMA PolygonStays ==
  ASSUME NEW A, Named(A), NEW s, Within(s), WellFormed(model), NEW p \in DOMAIN model.rings,
         Last(s).inside \in OwnersIn(model, p)
  PROVE  Stays(model, A, Polygon(p), s)
<1> DEFINE t == Under(Under(s, 0), p)
           F == [i \in DOMAIN model.rings[p] |-> Ring(model.rings[p][i])]
           a == <<Open("surfaceMember", "gml"), Start("Polygon", "gml", p)>>
           c == FlattenSeq(F)
           e == <<End, End>>
<1>1. p \in Nat /\ p # 0 /\ model.rings[p] \in Seq(Rings)
  BY DEF WellFormed
<1>2. "gml" \in A
  BY DEF Named
<1>3. Fits(model, "Polygon", p, Last(Under(s, 0)).inside)
  <2>1. Last(Under(s, 0)).inside = Last(s).inside
    BY InnerWithin DEF Inner, CityModelNode
  <2>2. QED
    BY <2>1 DEF Fits
<1>4. Runs(model, A, a, s, t) /\ Runs(model, A, e, t, s) /\ Within(t)
  BY <1>1, <1>2, <1>3, OpenStartRuns
<1>5. Last(t).of = p
  BY <1>1, InnerWithin DEF Inner
<1> HIDE DEF t
<1>6. Stays(model, A, Id(p), t)
  BY <1>4, <1>5, IdStays
<1>7. Stays(model, A, c, t)
  <2>1. \A i \in DOMAIN model.rings[p] : Stays(model, A, F[i], t)
    BY <1>4, RingStays
  <2>2. F = [i \in DOMAIN model.rings[p] |-> F[i]]
    OBVIOUS
  <2> HIDE DEF F
  <2>3. QED
    BY <1>1, <1>4, <2>1, <2>2, EachStays DEF Within
<1>8. Polygon(p) = a \o Id(p) \o c \o e
  BY DEF Polygon, Each
<1> HIDE DEF a, c, e
<1>9. Runs(model, A, a \o Id(p), s, t)
  BY <1>4, <1>6, ThenStays
<1>10. Runs(model, A, a \o Id(p) \o c, s, t)
  BY <1>7, <1>9, ThenStays
<1>11. Stays(model, A, a \o Id(p) \o c \o e, s)
  BY <1>4, <1>10, ThenEnds
<1>12. QED
  BY <1>8, <1>11

LEMMA LineStringStays ==
  ASSUME NEW A, Named(A), NEW s, Within(s), NEW l \in Nat \ {0},
         Last(s).inside \in OwnersIn(model, l)
  PROVE  Stays(model, A, LineString(l), s)
<1> DEFINE t == Under(s, l)
           a == <<Start("LineString", "gml", l)>>
           c == PosList(l)
           e == <<End>>
<1>1. "gml" \in A
  BY DEF Named
<1>2. Fits(model, "LineString", l, Last(s).inside)
  BY DEF Fits
<1>3. Runs(model, A, a, s, t) /\ Runs(model, A, e, t, s) /\ Within(t)
  BY <1>1, <1>2, StartRuns
<1>4. Last(t).of = l
  BY InnerWithin DEF Inner
<1> HIDE DEF t
<1>5. Stays(model, A, Id(l), t) /\ Stays(model, A, c, t)
  BY <1>1, <1>3, <1>4, IdStays, PosListStays
<1>6. LineString(l) = a \o Id(l) \o c \o e
  BY DEF LineString
<1> HIDE DEF a, c, e
<1>7. Runs(model, A, a \o Id(l), s, t)
  BY <1>3, <1>5, ThenStays
<1>8. Runs(model, A, a \o Id(l) \o c, s, t)
  BY <1>5, <1>7, ThenStays
<1>9. Stays(model, A, a \o Id(l) \o c \o e, s)
  BY <1>3, <1>8, ThenEnds
<1>10. QED
  BY <1>6, <1>9

(* The owners of the parts of a geometry and of an object.                 *)
LEMMA GeometryOwns ==
  ASSUME NEW m, WellFormed(m), NEW g \in DOMAIN m.parts
  PROVE  /\ m.polygons[g] \in Seq(DOMAIN m.rings)
         /\ m.lines[g] \in Seq(Nat \ {0})
         /\ m.parts[g] \in Seq(DOMAIN m.parts)
         /\ g \in Nat /\ g # 0
         /\ \A i \in DOMAIN m.polygons[g] : /\ m.polygons[g][i] \in DOMAIN m.rings
                                            /\ g \in OwnersIn(m, m.polygons[g][i])
         /\ \A i \in DOMAIN m.lines[g] : /\ m.lines[g][i] \in Nat \ {0}
                                         /\ g \in OwnersIn(m, m.lines[g][i])
         /\ \A i \in DOMAIN m.parts[g] : /\ m.parts[g][i] \in DOMAIN m.parts
                                         /\ g \in OwnersIn(m, m.parts[g][i])
<1>1. /\ m.polygons[g] \in Seq(DOMAIN m.rings)
      /\ m.lines[g] \in Seq(Nat \ {0})
      /\ m.parts[g] \in Seq(DOMAIN m.parts)
      /\ g \in Nat /\ g # 0
  BY DEF WellFormed
<1>2. \A x : x \in Range(m.polygons[g]) \cup Range(m.lines[g]) \cup Range(m.parts[g])
               => g \in OwnersIn(m, x)
  BY DEF OwnersIn
<1>3. /\ \A i \in DOMAIN m.polygons[g] : m.polygons[g][i] \in Range(m.polygons[g])
      /\ \A i \in DOMAIN m.lines[g] : m.lines[g][i] \in Range(m.lines[g])
      /\ \A i \in DOMAIN m.parts[g] : m.parts[g][i] \in Range(m.parts[g])
  BY DEF Range
<1>4. /\ \A i \in DOMAIN m.polygons[g] : m.polygons[g][i] \in DOMAIN m.rings
      /\ \A i \in DOMAIN m.lines[g] : m.lines[g][i] \in Nat \ {0}
      /\ \A i \in DOMAIN m.parts[g] : m.parts[g][i] \in DOMAIN m.parts
  BY <1>1
<1>5. QED
  BY <1>1, <1>2, <1>3, <1>4

LEMMA ObjectOwns ==
  ASSUME NEW m, WellFormed(m), NEW o \in DOMAIN m.type
  PROVE  /\ m.geometries[o] \in Seq(DOMAIN m.parts)
         /\ m.children[o] \in Seq(DOMAIN m.type)
         /\ o \in Nat /\ o # 0 /\ m.type[o] # "Appearance"
         /\ \A i \in DOMAIN m.geometries[o] : /\ m.geometries[o][i] \in DOMAIN m.parts
                                              /\ o \in OwnersIn(m, m.geometries[o][i])
         /\ \A i \in DOMAIN m.children[o] : /\ m.children[o][i] \in DOMAIN m.type
                                            /\ o \in OwnersIn(m, m.children[o][i])
<1>1. /\ m.geometries[o] \in Seq(DOMAIN m.parts)
      /\ m.children[o] \in Seq(DOMAIN m.type)
      /\ o \in Nat /\ o # 0 /\ m.type[o] # "Appearance"
  BY DEF WellFormed
<1>2. \A x : x \in Range(m.children[o]) \cup Range(m.geometries[o]) => o \in OwnersIn(m, x)
  BY DEF OwnersIn
<1>3. /\ \A i \in DOMAIN m.geometries[o] : m.geometries[o][i] \in Range(m.geometries[o])
      /\ \A i \in DOMAIN m.children[o] : m.children[o][i] \in Range(m.children[o])
  BY DEF Range
<1>4. /\ \A i \in DOMAIN m.geometries[o] : m.geometries[o][i] \in DOMAIN m.parts
      /\ \A i \in DOMAIN m.children[o] : m.children[o][i] \in DOMAIN m.type
  BY <1>1
<1>5. QED
  BY <1>1, <1>2, <1>3, <1>4

LEMMA GeometryCallsStay ==
  ASSUME NEW A, Named(A), NEW s, Within(s), WellFormed(model), NEW g \in DOMAIN model.parts,
         Last(s).inside \in OwnersIn(model, g)
  PROVE  Stays(model, A, GeometryCalls(g), s)
<1> DEFINE name == GeometryElementName(g)
           solid == name = "Solid"
           t == Under(s, g)
           u == IF solid THEN Under(t, 0) ELSE t
           F == [i \in DOMAIN model.polygons[g] |-> Polygon(model.polygons[g][i])]
           G == [i \in DOMAIN model.lines[g] |-> LineString(model.lines[g][i])]
           H == [i \in DOMAIN model.parts[g] |-> Geometry(model.parts[g][i])]
           a == <<Start(name, "gml", g)>>
           b == If(solid, <<Open("exterior", "gml")>>)
           c == If(solid, <<End>>)
           e == <<End>>
<1>1. "gml" \in A /\ g \in Nat /\ g # 0
  BY GeometryOwns DEF Named
<1>2. name # "Appearance"
  BY DEF GeometryElementName
<1>3. Fits(model, name, g, Last(s).inside)
  BY <1>2 DEF Fits
<1>4. Runs(model, A, a, s, t) /\ Runs(model, A, e, t, s) /\ Within(t)
  <2> HIDE DEF name
  <2>1. QED
    BY <1>1, <1>3, StartRuns
<1>5. Last(t).of = g /\ Last(t).inside = g
  BY <1>1, InnerWithin DEF Inner, CityModelNode
<1> HIDE DEF name, t
<1>6. Runs(model, A, b, t, u) /\ Runs(model, A, c, u, t) /\ Within(u) /\ Last(u).inside = g
  <2>1. CASE solid
    <3>1. /\ Runs(model, A, <<Open("exterior", "gml")>>, t, Under(t, 0))
          /\ Runs(model, A, <<End>>, Under(t, 0), t)
          /\ Within(Under(t, 0))
      BY <1>1, <1>4, OpenRuns
    <3>2. Last(Under(t, 0)).inside = g
      BY <1>4, <1>5, InnerWithin DEF Inner, CityModelNode
    <3>3. QED
      BY <2>1, <3>1, <3>2 DEF If
  <2>2. CASE ~solid
    <3>1. Runs(model, A, <<>>, t, t)
      BY <1>4, RunsNothing DEF Within
    <3>2. QED
      BY <1>4, <1>5, <2>2, <3>1 DEF If
  <2>3. QED
    BY <2>1, <2>2
<1>7. GeometryCalls(g) = a \o Id(g) \o b \o FlattenSeq(F) \o FlattenSeq(G) \o H \o c \o e
  BY DEF GeometryCalls, Each, name
<1> HIDE DEF solid, u
<1>8. Stays(model, A, Id(g), t)
  BY <1>4, <1>5, IdStays
<1>9. Stays(model, A, FlattenSeq(F), u)
  <2>1. \A i \in DOMAIN model.polygons[g] : Stays(model, A, F[i], u)
    BY <1>6, GeometryOwns, PolygonStays
  <2>2. F = [i \in DOMAIN model.polygons[g] |-> F[i]]
    OBVIOUS
  <2> HIDE DEF F
  <2>3. QED
    BY <1>6, <2>1, <2>2, GeometryOwns, EachStays DEF Within
<1>10. Stays(model, A, FlattenSeq(G), u)
  <2>1. \A i \in DOMAIN model.lines[g] : Stays(model, A, G[i], u)
    BY <1>6, GeometryOwns, LineStringStays
  <2>2. G = [i \in DOMAIN model.lines[g] |-> G[i]]
    OBVIOUS
  <2> HIDE DEF G
  <2>3. QED
    BY <1>6, <2>1, <2>2, GeometryOwns, EachStays DEF Within
<1>11. Stays(model, A, H, u)
  <2>1. \A i \in DOMAIN model.parts[g] : Turns(model, A, H[i], u, u)
    BY <1>6, GeometryOwns, GeometryTurns DEF Within
  <2>2. H = [i \in DOMAIN model.parts[g] |-> H[i]]
    OBVIOUS
  <2>3. PICK n \in Nat : DOMAIN model.parts[g] = 1..n
    <3>1. model.parts[g] \in Seq(DOMAIN model.parts)
      BY GeometryOwns
    <3>2. QED
      BY <3>1
  <2> HIDE DEF H
  <2>4. QED
    BY <1>6, <2>1, <2>2, <2>3, CallsStay DEF Within
<1> HIDE DEF a, b, c, e, F, G, H
<1>12. Runs(model, A, a \o Id(g), s, t)
  BY <1>4, <1>8, ThenStays
<1>13. Runs(model, A, a \o Id(g) \o b, s, u)
  BY <1>6, <1>12, RunsJoin
<1>14. Runs(model, A, a \o Id(g) \o b \o FlattenSeq(F), s, u)
  BY <1>9, <1>13, ThenStays
<1>15. Runs(model, A, a \o Id(g) \o b \o FlattenSeq(F) \o FlattenSeq(G), s, u)
  BY <1>10, <1>14, ThenStays
<1>16. Runs(model, A, a \o Id(g) \o b \o FlattenSeq(F) \o FlattenSeq(G) \o H, s, u)
  BY <1>11, <1>15, ThenStays
<1>17. Runs(model, A, a \o Id(g) \o b \o FlattenSeq(F) \o FlattenSeq(G) \o H \o c, s, t)
  BY <1>6, <1>16, RunsJoin
<1>18. Stays(model, A, a \o Id(g) \o b \o FlattenSeq(F) \o FlattenSeq(G) \o H \o c \o e, s)
  BY <1>4, <1>17, ThenEnds
<1>19. QED
  BY <1>7, <1>18

(* The namespaces of the types of the objects, and those of the elements   *)
(* that attributes get.                                                    *)
Allows(A) ==
  /\ Named(A)
  /\ \A o \in DOMAIN model.type : NamespaceForCityObjectType(model.type[o]) \in A
  /\ \A x \in DOMAIN model.attributes : \A i \in DOMAIN model.attributes[x] :
       model.attributes[x][i].node \in A

LEMMA ObjectGeometryStays ==
  ASSUME NEW A, Allows(A), NEW s, Within(s), NEW o \in DOMAIN model.type, NEW g \in DOMAIN model.parts,
         Last(s).inside = o, o \in OwnersIn(model, g)
  PROVE  Stays(model, A, ObjectGeometry(o, g), s)
<1> DEFINE t == Under(s, 0)
           a == Open(LODContainerName(model.type[o], model.lod[g]),
                     NamespaceForCityObjectType(model.type[o]))
           calls == <<a, Geometry(g), End>>
<1>1. NamespaceForCityObjectType(model.type[o]) \in A
  BY DEF Allows
<1>2. Turns(model, A, a, s, t) /\ Turns(model, A, End, t, s) /\ Within(t)
  BY <1>1, OpenTurns, EndTurns, InnerWithin DEF Within
<1>3. Last(t).inside = o
  BY InnerWithin DEF Inner, CityModelNode
<1> HIDE DEF t, a
<1>4. Turns(model, A, Geometry(g), t, t)
  BY <1>2, <1>3, GeometryTurns DEF Within
<1>5. Stays(model, A, calls, s)
  BY <1>2, <1>4, RunsThree DEF Stays
<1>6. ObjectGeometry(o, g) = If(HasContainer(o, g), calls)
  BY DEF ObjectGeometry, a
<1> HIDE DEF calls
<1>7. QED
  BY <1>5, <1>6, IfStays DEF Within

LEMMA ChildStays ==
  ASSUME NEW A, Allows(A), NEW s, Within(s), NEW o \in DOMAIN model.type, NEW c \in DOMAIN model.type,
         Last(s).inside = o, o \in OwnersIn(model, c)
  PROVE  Stays(model, A, Child(c), s)
<1> DEFINE t == Under(s, 0)
           a == Open("boundedBy", "bldg")
<1>1. "bldg" \in A
  BY DEF Allows, Named
<1>2. Turns(model, A, a, s, t) /\ Turns(model, A, End, t, s) /\ Within(t)
  BY <1>1, OpenTurns, EndTurns, InnerWithin DEF Within
<1>3. Last(t).inside = o
  BY InnerWithin DEF Inner, CityModelNode
<1> HIDE DEF t, a
<1>4. Turns(model, A, Object(c, FALSE), t, t)
  BY <1>2, <1>3, ObjectTurns DEF Within
<1>5. Stays(model, A, <<a, Object(c, FALSE), End>>, s)
  BY <1>2, <1>4, RunsThree DEF Stays
<1>6. QED
  BY <1>5 DEF Child, a

LEMMA CityObjectMemberStays ==
  ASSUME NEW A, Allows(A), NEW s, Within(s), NEW o \in DOMAIN model.type,
         Last(s).inside \in OwnersIn(model, o)
  PROVE  Stays(model, A, CityObjectMember(o), s)
<1> DEFINE t == Under(s, 0)
           a == Open("cityObjectMember", "uri")
<1>1. "uri" \in A
  BY DEF Allows, Named
<1>2. Turns(model, A, a, s, t) /\ Turns(model, A, End, t, s) /\ Within(t)
  BY <1>1, OpenTurns, EndTurns, InnerWithin DEF Within
<1>3. Last(t).inside = Last(s).inside
  BY InnerWithin DEF Inner, CityModelNode
<1> HIDE DEF t, a
<1>4. Turns(model, A, Object(o, TRUE), t, t)
  BY <1>2, <1>3, ObjectTurns DEF Within
<1>5. Stays(model, A, <<a, Object(o, TRUE), End>>, s)
  BY <1>2, <1>4, RunsThree DEF Stays
<1>6. QED
  BY <1>5 DEF CityObjectMember, a

LEMMA AddressStays ==
  ASSUME NEW A, Named(A), NEW s, Within(s), NEW o
  PROVE  Stays(model, A, Address(o), s)
<1> DEFINE given == model.address[o]
           Part(name) == If(name \in given, TextElement(name, "xAL", SomeValue))
           streets == {"ThoroughfareNumber", "ThoroughfareName"} \cap given # {}
           a == <<Attribute("Type", "Street")>>
           street == Nested("Thoroughfare", "xAL",
                            a \o Part("ThoroughfareNumber") \o Part("ThoroughfareName"))
           code == Nested("PostalCode", "xAL", Part("PostalCodeNumber"))
           b == <<Attribute("Type", "City")>>
           locality == Nested("Locality", "xAL",
                              b \o Part("LocalityName") \o If(streets, street)
                              \o If("PostalCodeNumber" \in given, code))
           country == Nested("Country", "xAL",
                             Part("CountryName") \o If("LocalityName" \in given, locality))
           details == Nested("AddressDetails", "xAL", If("CountryName" \in given, country))
           xal == Nested("xalAddress", "", details)
           whole == Nested("address", "bldg", Nested("Address", "uri", xal))
<1>1. "bldg" \in A /\ "uri" \in A /\ "" \in A /\ "xAL" \in A
  BY DEF Named
<1>2. \A name : Inserts(model, A, Part(name))
  BY <1>1, TextElementInserts, IfInserts
<1>3. Inserts(model, A, a) /\ Inserts(model, A, b)
  BY AttributeInserts
<1>4. Address(o) = If(o \in DOMAIN model.address, whole)
  BY DEF Address
<1> HIDE DEF Part, streets, a, b
<1>5. Inserts(model, A, street)
  <2>1. Inserts(model, A, a \o Part("ThoroughfareNumber"))
    BY <1>2, <1>3, JoinInserts
  <2>2. Inserts(model, A, a \o Part("ThoroughfareNumber") \o Part("ThoroughfareName"))
    BY <1>2, <2>1, JoinInserts
  <2>3. QED
    BY <1>1, <2>2, NestedInserts
<1>6. Inserts(model, A, code)
  BY <1>1, <1>2, NestedInserts
<1> HIDE DEF street, code
<1>7. Inserts(model, A, locality)
  <2> DEFINE c == If(streets, street)
             d == If("PostalCodeNumber" \in given, code)
  <2>1. Inserts(model, A, c) /\ Inserts(model, A, d)
    BY <1>5, <1>6, IfInserts
  <2> HIDE DEF c, d
  <2>2. Inserts(model, A, b \o Part("LocalityName"))
    BY <1>2, <1>3, JoinInserts
  <2>3. Inserts(model, A, b \o Part("LocalityName") \o c)
    BY <2>1, <2>2, JoinInserts
  <2>4. Inserts(model, A, b \o Part("LocalityName") \o c \o d)
    BY <2>1, <2>3, JoinInserts
  <2>5. QED
    BY <1>1, <2>4, NestedInserts DEF c, d
<1> HIDE DEF locality
<1>8. Inserts(model, A, country)
  <2> DEFINE c == If("LocalityName" \in given, locality)
  <2>1. Inserts(model, A, c)
    BY <1>7, IfInserts
  <2> HIDE DEF c
  <2>2. Inserts(model, A, Part("CountryName") \o c)
    BY <1>2, <2>1, JoinInserts
  <2>3. QED
    BY <1>1, <2>2, NestedInserts DEF c
<1> HIDE DEF country
<1>9. Inserts(model, A, details)
  <2>1. Inserts(model, A, If("CountryName" \in given, country))
    BY <1>8, IfInserts
  <2>2. QED
    BY <1>1, <2>1, NestedInserts
<1> HIDE DEF details
<1>10. Inserts(model, A, xal)
  BY <1>1, <1>9, NestedInserts
<1> HIDE DEF xal
<1>11. Inserts(model, A, Nested("Address", "uri", xal))
  BY <1>1, <1>10, NestedInserts
<1>12. Stays(model, A, whole, s)
  BY <1>1, <1>11, NestedStays
<1> HIDE DEF whole
<1>13. QED
  BY <1>4, <1>12, IfStays DEF Within

LEMMA OwnIdInserts ==
  ASSUME NEW m, NEW A, NEW given
  PROVE  Inserts(m, A, OwnId(given))
  BY AttributeInserts, IfInserts DEF OwnId

LEMMA ExternalReferenceStays ==
  ASSUME NEW A, Named(A), NEW s, Within(s), NEW o
  PROVE  Stays(model, A, ExternalReference(o), s)
<1> DEFINE given == model.externals[o]
           Object1(name) ==
             Nested("externalObject", "core", TextElement(name, "core", SomeValue))
           a == OwnId(given)
           b == If("informationSystem" \in given, TextElement("informationSystem", "core", SomeValue))
           c == If("name" \in given, Object1("name"))
           d == If("uri" \in given /\ "name" \notin given, Object1("uri"))
           whole == Nested("ExternalReference", "core", a \o b \o c \o d)
<1>1. "core" \in A
  BY DEF Named
<1>2. ASSUME NEW name
      PROVE  Inserts(model, A, Object1(name))
  <2> DEFINE e == TextElement(name, "core", SomeValue)
  <2>1. Inserts(model, A, e)
    BY <1>1, TextElementInserts
  <2> HIDE DEF e
  <2>2. Inserts(model, A, Nested("externalObject", "core", e))
    BY <1>1, <2>1, NestedInserts
  <2>3. QED
    BY <2>2 DEF e
<1>3. ExternalReference(o) = If(o \in DOMAIN model.externals, whole)
  BY DEF ExternalReference
<1> HIDE DEF Object1
<1>4. Inserts(model, A, a) /\ Inserts(model, A, b) /\ Inserts(model, A, c) /\ Inserts(model, A, d)
  BY <1>1, <1>2, OwnIdInserts, TextElementInserts, IfInserts
<1> HIDE DEF a, b, c, d
<1>5. Inserts(model, A, a \o b)
  BY <1>4, JoinInserts
<1>6. Inserts(model, A, a \o b \o c)
  BY <1>4, <1>5, JoinInserts
<1>7. Inserts(model, A, a \o b \o c \o d)
  BY <1>4, <1>6, JoinInserts
<1>8. Stays(model, A, whole, s)
  BY <1>1, <1>7, NestedStays
<1> HIDE DEF whole
<1>9. QED
  BY <1>3, <1>8, IfStays DEF Within

LEMMA RectifiedGridCoverageStays ==
  ASSUME NEW A, Named(A), NEW s, Within(s), NEW o
  PROVE  Stays(model, A, RectifiedGridCoverage(o), s)
<1> DEFINE given == model.grids[o]
           a == OwnId(given)
           b == Envelope("srsName" \in given)
           c == If("bounds" \in given, b)
           whole == Nested("RectifiedGridCoverage", "core", a \o c)
<1>1. "core" \in A
  BY DEF Named
<1>2. RectifiedGridCoverage(o) = If(o \in DOMAIN model.grids, whole)
  BY DEF RectifiedGridCoverage
<1>3. Inserts(model, A, a) /\ Inserts(model, A, b)
  BY OwnIdInserts, EnvelopeStays DEF Inserts
<1> HIDE DEF a, b
<1>4. Inserts(model, A, c)
  BY <1>3, IfInserts
<1> HIDE DEF c
<1>5. Inserts(model, A, a \o c)
  BY <1>3, <1>4, JoinInserts
<1>6. Stays(model, A, whole, s)
  BY <1>1, <1>5, NestedStays
<1> HIDE DEF whole
<1>7. QED
  BY <1>2, <1>6, IfStays DEF Within

LEMMA MaterialInserts ==
  ASSUME NEW A, Named(A), NEW d \in Definitions
  PROVE  Inserts(model, A, Material(d))
<1> DEFINE F == [i \in DOMAIN d.themes |-> <<Attribute("theme", d.themes[i])>>]
           G == [i \in DOMAIN MaterialElements |->
                   If(MaterialElements[i] \in d.given,
                      TextElement(MaterialElements[i], "app", SomeValue))]
           a == Id(d.appearance)
           b == FlattenSeq(F)
           c == FlattenSeq(G)
           e == TextElement("isSmooth", "app", SomeValue)
           t == <<Attribute("uri", d.target)>>
           x == Nested("Material", "app", a \o b \o c \o e)
           y == Nested("target", "app", t)
<1>1. "app" \in A /\ d.themes \in Seq(Nat)
  BY DEF Named, Definitions
<1>0. MaterialElements \in Seq({"diffuseColor", "specularColor", "ambientIntensity",
                               "emissiveColor", "shininess", "transparency"})
  BY DEF MaterialElements
<1>2. Inserts(model, A, b)
  <2>1. \A i \in DOMAIN d.themes : Inserts(model, A, F[i])
    BY AttributeInserts
  <2>2. F = [i \in DOMAIN d.themes |-> F[i]]
    OBVIOUS
  <2> HIDE DEF F
  <2>3. QED
    BY <1>1, <2>1, <2>2, EachInserts
<1>3. Inserts(model, A, c)
  <2>1. \A i \in DOMAIN MaterialElements : Inserts(model, A, G[i])
    BY <1>1, TextElementInserts, IfInserts
  <2>2. G = [i \in DOMAIN MaterialElements |-> G[i]]
    OBVIOUS
  <2> HIDE DEF G
  <2>3. QED
    BY <1>0, <2>1, <2>2, EachInserts
<1>4. Inserts(model, A, a) /\ Inserts(model, A, e) /\ Inserts(model, A, t)
  BY <1>1, IdInserts, TextElementInserts, AttributeInserts
<1>5. Material(d) = x \o y
  BY DEF Material, Each
<1> HIDE DEF a, b, c, e, t
<1>6. Inserts(model, A, a \o b)
  BY <1>2, <1>4, JoinInserts
<1>7. Inserts(model, A, a \o b \o c)
  BY <1>3, <1>6, JoinInserts
<1>8. Inserts(model, A, a \o b \o c \o e)
  BY <1>4, <1>7, JoinInserts
<1>9. Inserts(model, A, x) /\ Inserts(model, A, y)
  BY <1>1, <1>4, <1>8, NestedInserts
<1> HIDE DEF x, y
<1>10. QED
  BY <1>5, <1>9, JoinInserts

LEMMA TextureInserts ==
  ASSUME NEW A, Named(A), NEW d \in Definitions
  PROVE  Inserts(model, A, Texture(d))
<1> DEFINE F == [i \in DOMAIN d.rings |->
                   Nested("textureCoordinates", "app",
                          <<Attribute("ring", d.rings[i]), Text(SomeValue)>>)]
           list == Nested("TexCoordList", "app", FlattenSeq(F))
           t == <<Attribute("uri", d.target)>>
           r == If(d.rings # <<>>, list)
           a == If("imageURI" \in d.given, TextElement("imageURI", "app", d.appearance))
           b == TextElement("wrapMode", "app", SomeValue)
           c == Nested("target", "app", t \o r)
<1>1. "app" \in A /\ d.rings \in Seq(Nat)
  BY DEF Named, Definitions
<1>2. Inserts(model, A, list)
  <2>1. ASSUME NEW i \in DOMAIN d.rings
        PROVE  Inserts(model, A, F[i])
    <3> DEFINE calls == <<Attribute("ring", d.rings[i]), Text(SomeValue)>>
    <3>1. Inserts(model, A, calls)
      BY AttributeTextInserts
    <3>2. F[i] = Nested("textureCoordinates", "app", calls)
      OBVIOUS
    <3> HIDE DEF calls, F
    <3>3. QED
      BY <1>1, <3>1, <3>2, NestedInserts
  <2>2. F = [i \in DOMAIN d.rings |-> F[i]]
    OBVIOUS
  <2> HIDE DEF F
  <2>3. Inserts(model, A, FlattenSeq(F))
    BY <1>1, <2>1, <2>2, EachInserts
  <2>4. QED
    BY <1>1, <2>3, NestedInserts
<1>3. Texture(d) = Nested("ParameterizedTexture", "app", a \o b \o c)
  BY DEF Texture, Each
<1> HIDE DEF list
<1>4. Inserts(model, A, r) /\ Inserts(model, A, t)
  BY <1>2, IfInserts, AttributeInserts
<1>5. Inserts(model, A, a) /\ Inserts(model, A, b)
  BY <1>1, TextElementInserts, IfInserts
<1> HIDE DEF a, b, r, t
<1>6. Inserts(model, A, t \o r)
  BY <1>4, JoinInserts
<1>7. Inserts(model, A, c)
  BY <1>1, <1>6, NestedInserts
<1> HIDE DEF c
<1>8. Inserts(model, A, a \o b)
  BY <1>5, JoinInserts
<1>9. Inserts(model, A, a \o b \o c)
  BY <1>7, <1>8, JoinInserts
<1>10. QED
  BY <1>1, <1>3, <1>9, NestedInserts

LEMMA SurfaceDataMemberStays ==
  ASSUME NEW A, Named(A), NEW s, Within(s), NEW d \in Definitions
  PROVE  Stays(model, A, SurfaceDataMember(d), s)
<1> DEFINE b == IF d.kind = "material" THEN Material(d) ELSE Texture(d)
<1>1. "app" \in A
  BY DEF Named
<1>2. Inserts(model, A, b)
  BY MaterialInserts, TextureInserts
<1>3. SurfaceDataMember(d) = Nested("surfaceDataMember", "app", b)
  BY DEF SurfaceDataMember
<1> HIDE DEF b
<1>4. QED
  BY <1>1, <1>2, <1>3, NestedStays

-----------------------------------------------------------------------------
(* What is collected from the parts of something, the parts of its parts   *)
(* and so on: pre and post are its own; post only if there is more.        *)
Collected(pre, x, more, post) == IF more THEN pre \o x \o post ELSE pre \o x

OfParts(f, parts, g) == FlattenSeq([i \in DOMAIN parts[g] |-> f[parts[g][i]]])

Collects(f, parts, pre, more, post) ==
  f = [g \in DOMAIN parts |-> Collected(pre[g], OfParts(f, parts, g), more, post[g])]

LEMMA CollectedTyped ==
  ASSUME NEW S, NEW pre \in Seq(S), NEW x \in Seq(S), NEW more, NEW post \in Seq(S)
  PROVE  Collected(pre, x, more, post) \in Seq(S)
<1>1. pre \o x \in Seq(S)
  BY ConcatFacts
<1>2. pre \o x \o post \in Seq(S)
  BY <1>1, ConcatFacts
<1>3. QED
  BY <1>1, <1>2 DEF Collected

LEMMA OfPartsTyped ==
  ASSUME NEW S, NEW G, NEW parts \in [G -> Seq(G)], NEW g \in G, NEW f,
         \A i \in DOMAIN parts[g] : f[parts[g][i]] \in Seq(S)
  PROVE  OfParts(f, parts, g) \in Seq(S)
<1> DEFINE F == [i \in DOMAIN parts[g] |-> f[parts[g][i]]]
           Q == Seq(S)
<1>1. parts[g] \in Seq(G)
  OBVIOUS
<1>2. PICK n \in Nat : DOMAIN parts[g] = 1..n
  BY <1>1
<1>3. \A i \in DOMAIN parts[g] : F[i] \in Q
  OBVIOUS
<1>4. F = [i \in 1..n |-> F[i]]
  BY <1>2
<1> HIDE DEF Q, F
<1>5. F \in Seq(Q)
  <2>1. F \in [1..n -> Q]
    BY <1>2, <1>3, <1>4
  <2>2. QED
    BY <2>1
<1>6. FlattenSeq(F) \in Q
  BY <1>5, FlattenTyped DEF Q
<1>7. QED
  BY <1>6 DEF OfParts, F, Q

LEMMA LowerRank ==
  ASSUME NEW n \in Nat, NEW a \in 0..n, NEW b \in 0..n, NEW k \in Nat, a < b, b < k + 1
  PROVE  a < k
  OBVIOUS

(* Parts have a lower rank.                                                *)
Ranks(rank, parts, n) ==
  /\ n \in Nat
  /\ rank \in [DOMAIN parts -> 0..n]
  /\ \A x \in DOMAIN parts : \A i \in DOMAIN parts[x] : rank[parts[x][i]] < rank[x]

LEMMA RankExists ==
  ASSUME NEW parts, Descends(parts)
  PROVE  \E n, rank : Ranks(rank, parts, n)
<1> DEFINE n == Cardinality(DOMAIN parts)
<1>1. n \in Nat
  BY FS_CardinalityType DEF Descends
<1>2. PICK rank \in [DOMAIN parts -> 0..n] :
        \A x \in DOMAIN parts : \A y \in Range(parts[x]) : rank[y] < rank[x]
  BY DEF Descends
<1>3. \A x : \A i \in DOMAIN parts[x] : parts[x][i] \in Range(parts[x])
  BY DEF Range
<1> HIDE DEF n
<1>4. Ranks(rank, parts, n)
  BY <1>1, <1>2, <1>3 DEF Ranks
<1>5. QED
  BY <1>4

LEMMA CollectsTyped ==
  ASSUME NEW S, NEW G, NEW parts \in [G -> Seq(G)], Descends(parts),
         NEW pre \in [G -> Seq(S)], NEW more, NEW post \in [G -> Seq(S)],
         NEW f, Collects(f, parts, pre, more, post)
  PROVE  \A g \in G : f[g] \in Seq(S)
<1>1. PICK n, rank : Ranks(rank, parts, n)
  BY RankExists
<1>2. DOMAIN parts = G /\ \A g \in G : \A i \in DOMAIN parts[g] : parts[g][i] \in G
  OBVIOUS
<1> DEFINE T == {k \in Nat : \A g \in G : rank[g] < k => f[g] \in Seq(S)}
<1>3. 0 \in T
  BY <1>1, <1>2 DEF Ranks
<1>4. ASSUME NEW k \in Nat, k \in T
      PROVE  k + 1 \in T
  <2>1. SUFFICES ASSUME NEW g \in G, rank[g] < k + 1 PROVE f[g] \in Seq(S)
    OBVIOUS
  <2>2. ASSUME NEW i \in DOMAIN parts[g]
        PROVE  f[parts[g][i]] \in Seq(S)
    <3>1. rank[parts[g][i]] < rank[g] /\ parts[g][i] \in G
      BY <1>1, <1>2 DEF Ranks
    <3>2. rank[parts[g][i]] \in 0..n /\ rank[g] \in 0..n /\ n \in Nat
      <4>1. rank \in [G -> 0..n] /\ n \in Nat
        BY <1>1, <1>2 DEF Ranks
      <4>2. QED
        BY <3>1, <4>1
    <3>3. rank[parts[g][i]] < k
      BY <2>1, <3>1, <3>2, LowerRank, Zenon
    <3>4. QED
      BY <1>4, <3>1, <3>3
  <2>3. OfParts(f, parts, g) \in Seq(S)
    BY <2>2, OfPartsTyped
  <2>4. Collected(pre[g], OfParts(f, parts, g), more, post[g]) \in Seq(S)
    <3>1. pre[g] \in Seq(S) /\ post[g] \in Seq(S)
      OBVIOUS
    <3>2. QED
      BY <2>3, <3>1, CollectedTyped
  <2>5. f[g] = Collected(pre[g], OfParts(f, parts, g), more, post[g])
    BY <1>2 DEF Collects
  <2>6. QED
    BY <2>4, <2>5
<1>5. n \in Nat /\ \A g \in G : rank[g] < n + 1
  BY <1>1, <1>2 DEF Ranks
<1> HIDE DEF T
<1>6. n + 1 \in T
  BY <1>3, <1>4, <1>5, NatInduct
<1>7. QED
  BY <1>5, <1>6 DEF T

LEMMA CollectsExists ==
  ASSUME NEW S, NEW G, NEW parts \in [G -> Seq(G)], Descends(parts),
         NEW pre \in [G -> Seq(S)], NEW more, NEW post \in [G -> Seq(S)]
  PROVE  \E f : Collects(f, parts, pre, more, post)
<1>1. PICK n, rank : Ranks(rank, parts, n)
  BY RankExists
<1>2. DOMAIN parts = G /\ \A g \in G : \A i \in DOMAIN parts[g] : parts[g][i] \in G
  OBVIOUS
<1> DEFINE Body(f, g) == Collected(pre[g], OfParts(f, parts, g), more, post[g])
           Upto(f, k) == f \in [G -> Seq(S)] /\ \A g \in G : rank[g] < k => f[g] = Body(f, g)
           T == {k \in Nat : \E f : Upto(f, k)}
<1>3. 0 \in T
  <2>1. pre \in [G -> Seq(S)] /\ \A g \in G : ~(rank[g] < 0)
    BY <1>1, <1>2 DEF Ranks
  <2>2. Upto(pre, 0)
    BY <2>1
  <2>3. QED
    BY <2>2
<1>4. ASSUME NEW k \in Nat, k \in T
      PROVE  k + 1 \in T
  <2>1. PICK f : Upto(f, k)
    BY <1>4
  <2>2. \A g \in G : Body(f, g) \in Seq(S)
    <3>1. SUFFICES ASSUME NEW g \in G PROVE Body(f, g) \in Seq(S)
      OBVIOUS
    <3>2. \A i \in DOMAIN parts[g] : f[parts[g][i]] \in Seq(S)
      BY <1>2, <2>1
    <3>3. OfParts(f, parts, g) \in Seq(S)
      BY <3>2, OfPartsTyped
    <3>4. pre[g] \in Seq(S) /\ post[g] \in Seq(S)
      OBVIOUS
    <3>5. QED
      BY <3>3, <3>4, CollectedTyped
  <2> DEFINE h == [g \in G |-> IF rank[g] < k THEN f[g] ELSE Body(f, g)]
  <2>3. h \in [G -> Seq(S)]
    <3> HIDE DEF Body
    <3>1. QED
      BY <2>1, <2>2 DEF Upto
  <2>4. ASSUME NEW g \in G, rank[g] < k + 1
        PROVE  h[g] = Body(h, g)
    <3>1. \A i \in DOMAIN parts[g] : h[parts[g][i]] = f[parts[g][i]]
      <4>1. SUFFICES ASSUME NEW i \in DOMAIN parts[g] PROVE h[parts[g][i]] = f[parts[g][i]]
        OBVIOUS
      <4>2. rank[parts[g][i]] < rank[g] /\ parts[g][i] \in G
        BY <1>1, <1>2 DEF Ranks
      <4>3. rank[parts[g][i]] \in 0..n /\ rank[g] \in 0..n /\ n \in Nat
        <5>1. rank \in [G -> 0..n] /\ n \in Nat
          BY <1>1, <1>2 DEF Ranks
        <5>2. QED
          BY <4>2, <5>1
      <4>4. rank[parts[g][i]] < k
        BY <2>4, <4>2, <4>3, LowerRank, Zenon
      <4> HIDE DEF Body
      <4>5. QED
        BY <4>2, <4>4
    <3> HIDE DEF h
    <3>2. OfParts(h, parts, g) = OfParts(f, parts, g)
      <4>1. [i \in DOMAIN parts[g] |-> h[parts[g][i]]] = [i \in DOMAIN parts[g] |-> f[parts[g][i]]]
        BY <3>1
      <4>2. QED
        BY <4>1, Zenon DEF OfParts
    <3>3. Body(h, g) = Body(f, g)
      BY <3>2, Zenon
    <3>4. h[g] = Body(f, g)
      <4> HIDE DEF Body
      <4>1. CASE rank[g] < k
        BY <2>1, <4>1 DEF h, Upto
      <4>2. CASE ~(rank[g] < k)
        BY <4>2 DEF h
      <4>3. QED
        BY <4>1, <4>2
    <3>5. QED
      BY <3>3, <3>4
  <2>5. Upto(h, k + 1)
    <3> HIDE DEF h, Body
    <3>1. QED
      BY <2>3, <2>4 DEF Upto
  <2>6. k + 1 \in Nat /\ \E x : Upto(x, k + 1)
    <3> HIDE DEF Upto, h
    <3>1. QED
      BY <2>5
  <2> HIDE DEF Upto
  <2>7. QED
    BY <2>6
<1>5. n \in Nat /\ \A g \in G : rank[g] < n + 1
  BY <1>1, <1>2 DEF Ranks
<1> HIDE DEF T
<1>6. n + 1 \in T
  BY <1>3, <1>4, <1>5, NatInduct
<1>7. PICK f : Upto(f, n + 1)
  BY <1>6 DEF T
<1>8. \A g \in G : f[g] = Body(f, g)
  <2> HIDE DEF Body
  <2>1. QED
    BY <1>5, <1>7 DEF Upto
<1>9. f = [g \in G |-> Body(f, g)]
  <2> HIDE DEF Body
  <2>1. QED
    BY <1>7, <1>8 DEF Upto
<1>10. Collects(f, parts, pre, more, post)
  BY <1>2, <1>9 DEF Collects
<1>11. QED
  BY <1>10

(* Definitions are collected.                                              *)
LEMMA MappedTyped ==
  ASSUME NEW S, NEW P, NEW parts \in Seq(P), NEW F, F = [i \in DOMAIN parts |-> F[i]],
         \A i \in DOMAIN parts : F[i] \in Seq(S)
  PROVE  FlattenSeq(F) \in Seq(S)
<1> DEFINE Q == Seq(S)
<1>1. PICK n \in Nat : DOMAIN parts = 1..n
  OBVIOUS
<1>2. \A i \in DOMAIN parts : F[i] \in Q
  OBVIOUS
<1> HIDE DEF Q
<1>3. F \in Seq(Q)
  <2>1. F \in [1..n -> Q]
    BY <1>1, <1>2
  <2>2. QED
    BY <2>1
<1>4. QED
  BY <1>3, FlattenTyped DEF Q

LEMMA OfGeometryTyped ==
  ASSUME WellFormed(model)
  PROVE  \A g \in DOMAIN model.parts : OfGeometry[g] \in Seq(Definitions)
<1> DEFINE G == DOMAIN model.parts
           pre == [g \in G |-> model.definitions[g]]
           Ofs(g) == [i \in DOMAIN model.polygons[g] |-> model.definitions[model.polygons[g][i]]]
           post == [g \in G |-> FlattenSeq(Ofs(g))]
           Is(f) == f = [g \in DOMAIN model.parts |->
                           model.definitions[g]
                           \o FlattenSeq([i \in DOMAIN model.parts[g] |-> f[model.parts[g][i]]])
                           \o FlattenSeq(Ofs(g))]
<1>1. model.parts \in [G -> Seq(G)] /\ Descends(model.parts)
  BY DEF WellFormed
<1>2. model.definitions \in [G \cup DOMAIN model.rings -> Seq(Definitions)]
  BY DEF WellFormed
<1>3. pre \in [G -> Seq(Definitions)]
  <2> HIDE DEF G, Definitions
  <2>1. QED
    BY <1>2
<1>4. post \in [G -> Seq(Definitions)]
  <2>1. SUFFICES ASSUME NEW g \in G PROVE FlattenSeq(Ofs(g)) \in Seq(Definitions)
    OBVIOUS
  <2>2. /\ model.polygons[g] \in Seq(DOMAIN model.rings)
        /\ \A i \in DOMAIN model.polygons[g] : model.polygons[g][i] \in DOMAIN model.rings
    BY GeometryOwns
  <2> DEFINE F == Ofs(g)
  <2>3. /\ F = [i \in DOMAIN model.polygons[g] |-> F[i]]
        /\ \A i \in DOMAIN model.polygons[g] : F[i] = model.definitions[model.polygons[g][i]]
    OBVIOUS
  <2> HIDE DEF F, Ofs, Definitions
  <2>4. \A i \in DOMAIN model.polygons[g] : F[i] \in Seq(Definitions)
    BY <1>2, <2>2, <2>3
  <2>5. FlattenSeq(F) \in Seq(Definitions)
    BY <2>2, <2>3, <2>4, MappedTyped
  <2>6. QED
    BY <2>5 DEF F
<1>5. ASSUME NEW f
      PROVE  Is(f) <=> Collects(f, model.parts, pre, TRUE, post)
  <2>1. \A g \in G : Collected(pre[g], OfParts(f, model.parts, g), TRUE, post[g])
                       = model.definitions[g]
                         \o FlattenSeq([i \in DOMAIN model.parts[g] |-> f[model.parts[g][i]]])
                         \o FlattenSeq(Ofs(g))
    BY Zenon DEF Collected, OfParts
  <2> HIDE DEF pre, post, Ofs
  <2>2. QED
    BY <2>1, Zenon DEF Collects
<1>6. OfGeometry = CHOOSE f : Is(f)
  BY DEF OfGeometry, Each
<1> HIDE DEF pre, post, Is
<1>7. \E f : Is(f)
  BY <1>1, <1>3, <1>4, <1>5, CollectsExists
<1>8. Is(OfGeometry)
  BY <1>6, <1>7
<1>9. Collects(OfGeometry, model.parts, pre, TRUE, post)
  BY <1>5, <1>8
<1>10. QED
  BY <1>1, <1>3, <1>4, <1>9, CollectsTyped

LEMMA OfObjectTyped ==
  ASSUME WellFormed(model)
  PROVE  \A o \in DOMAIN model.type : OfObject[o] \in Seq(Definitions)
<1> DEFINE G == DOMAIN model.type
           Ofs(o) == [i \in DOMAIN model.geometries[o] |-> OfGeometry[model.geometries[o][i]]]
           pre == [o \in G |-> FlattenSeq(Ofs(o))]
           Is(f) == f = [o \in DOMAIN model.type |->
                           FlattenSeq(Ofs(o))
                           \o FlattenSeq([i \in DOMAIN model.children[o] |-> f[model.children[o][i]]])]
<1>1. model.children \in [G -> Seq(G)] /\ Descends(model.children)
  BY DEF WellFormed
<1>2. pre \in [G -> Seq(Definitions)]
  <2>1. SUFFICES ASSUME NEW o \in G PROVE FlattenSeq(Ofs(o)) \in Seq(Definitions)
    OBVIOUS
  <2>2. /\ model.geometries[o] \in Seq(DOMAIN model.parts)
        /\ \A i \in DOMAIN model.geometries[o] : model.geometries[o][i] \in DOMAIN model.parts
    BY ObjectOwns
  <2> DEFINE F == Ofs(o)
  <2>3. /\ F = [i \in DOMAIN model.geometries[o] |-> F[i]]
        /\ \A i \in DOMAIN model.geometries[o] : F[i] = OfGeometry[model.geometries[o][i]]
    OBVIOUS
  <2> HIDE DEF F, Ofs, Definitions
  <2>4. \A i \in DOMAIN model.geometries[o] : F[i] \in Seq(Definitions)
    BY <2>2, <2>3, OfGeometryTyped
  <2>5. FlattenSeq(F) \in Seq(Definitions)
    BY <2>2, <2>3, <2>4, MappedTyped
  <2>6. QED
    BY <2>5 DEF F
<1>3. ASSUME NEW f
      PROVE  Is(f) <=> Collects(f, model.children, pre, FALSE, pre)
  <2>1. \A o \in G : Collected(pre[o], OfParts(f, model.children, o), FALSE, pre[o])
                       = FlattenSeq(Ofs(o))
                         \o FlattenSeq([i \in DOMAIN model.children[o] |-> f[model.children[o][i]]])
    BY Zenon DEF Collected, OfParts
  <2>2. DOMAIN model.children = G
    BY <1>1
  <2> HIDE DEF pre, Ofs
  <2>3. QED
    BY <2>1, <2>2, Zenon DEF Collects
<1>4. OfObject = CHOOSE f : Is(f)
  BY DEF OfObject, Each
<1> HIDE DEF pre, Is
<1>5. \E f : Is(f)
  BY <1>1, <1>2, <1>3, CollectsExists
<1>6. Is(OfObject)
  BY <1>4, <1>5
<1>7. Collects(OfObject, model.children, pre, FALSE, pre)
  BY <1>3, <1>6
<1>8. QED
  BY <1>1, <1>2, <1>7, CollectsTyped

LEMMA OfThemeTyped ==
  ASSUME NEW S, NEW definitions \in Seq(S), NEW theme, NEW kind
  PROVE  OfTheme(definitions, theme, kind) \in Seq(S)
<1> DEFINE F == [i \in DOMAIN definitions |->
                   If(definitions[i].theme = theme /\ definitions[i].kind = kind, <<definitions[i]>>)]
<1>1. ASSUME NEW i \in DOMAIN definitions
      PROVE  F[i] \in Seq(S)
  <2>1. definitions[i] \in S
    OBVIOUS
  <2>2. <<definitions[i]>> \in Seq(S) /\ <<>> \in Seq(S)
    BY <2>1
  <2>3. QED
    BY <2>2 DEF If
<1>2. F = [i \in DOMAIN definitions |-> F[i]]
  OBVIOUS
<1>3. OfTheme(definitions, theme, kind) = FlattenSeq(F)
  BY DEF OfTheme, Each
<1> HIDE DEF F
<1>4. QED
  BY <1>1, <1>2, <1>3, MappedTyped

LEMMA OncePerAppearanceTyped ==
  ASSUME NEW S, NEW definitions \in Seq(S)
  PROVE  OncePerAppearance(definitions) \in Seq(S)
<1> DEFINE W(i) == \E j \in 1..(i - 1) : definitions[j].appearance = definitions[i].appearance
           F == [i \in DOMAIN definitions |-> If(~W(i), <<definitions[i]>>)]
<1>1. OncePerAppearance(definitions) = FlattenSeq(F)
  BY DEF OncePerAppearance
<1> HIDE DEF W
<1>2. ASSUME NEW i \in DOMAIN definitions
      PROVE  F[i] \in Seq(S)
  <2>1. definitions[i] \in S
    OBVIOUS
  <2>2. <<definitions[i]>> \in Seq(S) /\ <<>> \in Seq(S)
    BY <2>1
  <2>3. QED
    BY <2>2 DEF If
<1>3. F = [i \in DOMAIN definitions |-> F[i]]
  OBVIOUS
<1> HIDE DEF F
<1>4. QED
  BY <1>1, <1>2, <1>3, MappedTyped

LEMMA ImageFinite ==
  ASSUME NEW S, IsFiniteSet(S), NEW f
  PROVE  IsFiniteSet({f[x] : x \in S})
<1> DEFINE T == {f[x] : x \in S}
           g == [x \in S |-> f[x]]
<1>1. g \in Surjection(S, T)
  BY DEF Surjection
<1> HIDE DEF g
<1>2. QED
  BY <1>1, FS_Surjection

LEMMA AppearancesStay ==
  ASSUME NEW A, Named(A), NEW s, Within(s), WellFormed(model), NEW o \in DOMAIN model.type,
         Last(s).inside = o
  PROVE  Stays(model, A, Appearances(o), s)
<1> DEFINE definitions == CollectDefinitions(o)
           themes == SetToSeq({d.theme : d \in Range(definitions)})
           u == Under(s, 0)
           v == Under(u, o)
           Members(t) == OncePerAppearance(OfTheme(definitions, t, "material")
                                           \o OfTheme(definitions, t, "texture"))
           M(t) == [i \in DOMAIN Members(t) |-> SurfaceDataMember(Members(t)[i])]
           a == <<Start("Appearance", "app", o)>>
           b(t) == TextElement("theme", "app", t)
           e == <<End>>
           F == [j \in DOMAIN themes |-> a \o b(themes[j]) \o FlattenSeq(M(themes[j])) \o e]
           p == <<Open("appearance", "app")>>
           calls == p \o FlattenSeq(F) \o e
<1>1. "app" \in A /\ o \in Nat /\ o # 0
  BY ObjectOwns DEF Named
<1>2. definitions \in Seq(Definitions)
  BY OfObjectTyped DEF CollectDefinitions
<1>3. Appearances(o) = If(definitions # <<>>, calls)
  BY DEF Appearances, Each
<1>4. Runs(model, A, p, s, u) /\ Within(u) /\ Runs(model, A, e, u, s)
  BY <1>1, OpenRuns
<1>5. Last(u).inside = o
  BY InnerWithin DEF Inner, CityModelNode
<1> HIDE DEF u, definitions, p
<1>6. themes \in Seq({d.theme : d \in Range(definitions)})
  <2>1. IsFiniteSet(Range(definitions))
    <3>1. Range(definitions) = {definitions[i] : i \in 1..Len(definitions)} /\ Len(definitions) \in Nat
      BY <1>2 DEF Range
    <3>2. IsFiniteSet(1..Len(definitions))
      BY <3>1, FS_Interval
    <3>3. QED
      BY <3>1, <3>2, ImageFinite
  <2>2. IsFiniteSet({d.theme : d \in Range(definitions)})
    <3> DEFINE R == Range(definitions)
               g == [d \in R |-> d.theme]
    <3>1. {d.theme : d \in R} = {g[d] : d \in R}
      OBVIOUS
    <3> HIDE DEF g
    <3>2. QED
      BY <2>1, <3>1, ImageFinite
  <2>3. QED
    BY <2>2, SetToSeqType
<1> HIDE DEF themes
<1>7. Fits(model, "Appearance", o, Last(u).inside)
  BY <1>5 DEF Fits
<1>8. Runs(model, A, a, u, v) /\ Within(v) /\ Runs(model, A, e, v, u)
  BY <1>1, <1>4, <1>7, StartRuns
<1> HIDE DEF v, a, e
<1>9. ASSUME NEW t
      PROVE  Stays(model, A, a \o b(t) \o FlattenSeq(M(t)) \o e, u)
  <2>1. Stays(model, A, b(t), v)
    BY <1>1, <1>8, TextElementStays
  <2>2. Members(t) \in Seq(Definitions)
    <3>1. /\ OfTheme(definitions, t, "material") \in Seq(Definitions)
          /\ OfTheme(definitions, t, "texture") \in Seq(Definitions)
      BY <1>2, OfThemeTyped
    <3>2. OfTheme(definitions, t, "material") \o OfTheme(definitions, t, "texture") \in Seq(Definitions)
      BY <3>1, ConcatFacts
    <3>3. QED
      BY <3>2, OncePerAppearanceTyped
  <2> DEFINE ms == Members(t)
             N == M(t)
  <2>3. N = [i \in DOMAIN ms |-> N[i]] /\ \A i \in DOMAIN ms : N[i] = SurfaceDataMember(ms[i])
    OBVIOUS
  <2>4. ms \in Seq(Definitions)
    BY <2>2
  <2> HIDE DEF ms, N, Members, M, b, Definitions
  <2>5. \A i \in DOMAIN ms : ms[i] \in Definitions
    BY <2>4
  <2>6. \A i \in DOMAIN ms : Stays(model, A, N[i], v)
    BY <1>8, <2>3, <2>5, SurfaceDataMemberStays
  <2>7. Stays(model, A, FlattenSeq(N), v)
    BY <1>8, <2>3, <2>4, <2>6, EachStays DEF Within
  <2>8. Runs(model, A, a \o b(t), u, v)
    BY <1>8, <2>1, ThenStays
  <2>9. Runs(model, A, a \o b(t) \o FlattenSeq(N), u, v)
    BY <2>7, <2>8, ThenStays
  <2>10. Stays(model, A, a \o b(t) \o FlattenSeq(N) \o e, u)
    BY <1>8, <2>9, ThenEnds
  <2>11. QED
    BY <2>10 DEF N
<1>10. Stays(model, A, FlattenSeq(F), u)
  <2>1. F = [j \in DOMAIN themes |-> F[j]]
    OBVIOUS
  <2>2. \A j \in DOMAIN themes : Stays(model, A, F[j], u)
    BY <1>9
  <2> HIDE DEF F
  <2>3. QED
    BY <1>4, <1>6, <2>1, <2>2, EachStays DEF Within
<1> HIDE DEF F
<1>11. Runs(model, A, p \o FlattenSeq(F), s, u)
  BY <1>4, <1>10, ThenStays
<1>12. Stays(model, A, calls, s)
  BY <1>4, <1>11, ThenEnds DEF e
<1> HIDE DEF calls
<1>13. QED
  BY <1>3, <1>12, IfStays DEF Within

LEMMA AttributesStay ==
  ASSUME NEW A, Allows(A), NEW s, Within(s), WellFormed(model), NEW x \in {0} \cup DOMAIN model.type
  PROVE  Stays(model, A, Each(AttributeElement, model.attributes[x]), s)
<1> DEFINE P == [name : STRING, node : STRING]
           attributes == model.attributes[x]
           F == [i \in DOMAIN attributes |-> AttributeElement(attributes[i])]
<1>1. attributes \in Seq(P) /\ x \in DOMAIN model.attributes
  BY DEF WellFormed
<1>2. \A i \in DOMAIN attributes : attributes[i].node \in A
  BY <1>1 DEF Allows
<1>3. Each(AttributeElement, model.attributes[x]) = FlattenSeq(F)
  BY DEF Each
<1>4. F = [i \in DOMAIN attributes |-> F[i]]
  OBVIOUS
<1>5. Named(A)
  BY DEF Allows
<1> HIDE DEF attributes, P
<1>6. ASSUME NEW i \in DOMAIN attributes
      PROVE  Stays(model, A, F[i], s)
  <2>1. Stays(model, A, AttributeElement(attributes[i]), s)
    BY <1>2, <1>5, AttributeElementStays
  <2>2. QED
    BY <2>1
<1> HIDE DEF F
<1>7. QED
  BY <1>1, <1>3, <1>4, <1>6, EachStays DEF Within

LEMMA ObjectCallsStay ==
  ASSUME NEW A, Allows(A), NEW s, Within(s), WellFormed(model), NEW o \in DOMAIN model.type, NEW isRoot,
         Last(s).inside \in OwnersIn(model, o)
  PROVE  Stays(model, A, ObjectCalls(o, isRoot), s)
<1> DEFINE name == CityObjectsTypeToString(model.type[o])
           namespace == NamespaceForCityObjectType(model.type[o])
           t == Under(s, o)
           F == [i \in DOMAIN model.geometries[o] |-> ObjectGeometry(o, model.geometries[o][i])]
           G == [i \in DOMAIN model.children[o] |-> Child(model.children[o][i])]
           p == <<Start(name, namespace, o)>>
           a == Each(AttributeElement, model.attributes[o])
           b == If("appearances" \in options /\ isRoot, Appearances(o))
           c == FlattenSeq(F)
           d == FlattenSeq(G)
           f == If("addresses" \in options, Address(o))
           g == If("externalReferences" \in options, ExternalReference(o) \o RectifiedGridCoverage(o))
           e == <<End>>
<1>1. Named(A) /\ namespace \in A /\ o \in Nat /\ o # 0
  BY ObjectOwns DEF Allows
<1>2. name # "Appearance"
  <2>1. model.type[o] # "Appearance"
    BY ObjectOwns
  <2>2. QED
    BY <2>1 DEF CityObjectsTypeToString
<1>3. Fits(model, name, o, Last(s).inside)
  BY <1>2 DEF Fits
<1>4. ObjectCalls(o, isRoot) = p \o Id(o) \o a \o b \o c \o d \o f \o g \o e
  BY DEF ObjectCalls, Each
<1> HIDE DEF name, namespace
<1>5. Runs(model, A, p, s, t) /\ Within(t) /\ Runs(model, A, e, t, s)
  BY <1>1, <1>3, StartRuns
<1>6. Last(t).of = o /\ Last(t).inside = o
  BY <1>1, InnerWithin DEF Inner, CityModelNode
<1> HIDE DEF t
<1>7. Stays(model, A, Id(o), t)
  BY <1>5, <1>6, IdStays
<1>8. Stays(model, A, a, t)
  BY <1>5, AttributesStay
<1>9. Stays(model, A, b, t)
  <2>1. Stays(model, A, Appearances(o), t)
    BY <1>1, <1>5, <1>6, AppearancesStay
  <2>2. QED
    BY <1>5, <2>1, IfStays DEF Within
<1>10. Stays(model, A, c, t)
  <2>1. \A i \in DOMAIN model.geometries[o] : Stays(model, A, F[i], t)
    BY <1>5, <1>6, ObjectOwns, ObjectGeometryStays
  <2>2. F = [i \in DOMAIN model.geometries[o] |-> F[i]]
    OBVIOUS
  <2> HIDE DEF F
  <2>3. QED
    BY <1>5, <2>1, <2>2, ObjectOwns, EachStays DEF Within
<1>11. Stays(model, A, d, t)
  <2>1. \A i \in DOMAIN model.children[o] : Stays(model, A, G[i], t)
    BY <1>5, <1>6, ObjectOwns, ChildStays
  <2>2. G = [i \in DOMAIN model.children[o] |-> G[i]]
    OBVIOUS
  <2> HIDE DEF G
  <2>3. QED
    BY <1>5, <2>1, <2>2, ObjectOwns, EachStays DEF Within
<1>12. Stays(model, A, f, t)
  BY <1>1, <1>5, AddressStays, IfStays DEF Within
<1>13. Stays(model, A, g, t)
  <2> DEFINE x == ExternalReference(o)
             y == RectifiedGridCoverage(o)
  <2>1. Stays(model, A, x, t) /\ Stays(model, A, y, t)
    BY <1>1, <1>5, ExternalReferenceStays, RectifiedGridCoverageStays
  <2> HIDE DEF x, y
  <2>2. Stays(model, A, x \o y, t)
    BY <2>1, JoinStays
  <2> DEFINE z == x \o y
  <2>3. Stays(model, A, z, t)
    BY <2>2
  <2> HIDE DEF z
  <2>4. Stays(model, A, If("externalReferences" \in options, z), t)
    BY <1>5, <2>3, IfStays DEF Within
  <2>5. QED
    BY <2>4 DEF x, y, z
<1> HIDE DEF a, b, c, d, f, g, e, p
<1>14. Runs(model, A, p \o Id(o), s, t)
  BY <1>5, <1>7, ThenStays
<1>15. Runs(model, A, p \o Id(o) \o a, s, t)
  BY <1>8, <1>14, ThenStays
<1>16. Runs(model, A, p \o Id(o) \o a \o b, s, t)
  BY <1>9, <1>15, ThenStays
<1>17. Runs(model, A, p \o Id(o) \o a \o b \o c, s, t)
  BY <1>10, <1>16, ThenStays
<1>18. Runs(model, A, p \o Id(o) \o a \o b \o c \o d, s, t)
  BY <1>11, <1>17, ThenStays
<1>19. Runs(model, A, p \o Id(o) \o a \o b \o c \o d \o f, s, t)
  BY <1>12, <1>18, ThenStays
<1>20. Runs(model, A, p \o Id(o) \o a \o b \o c \o d \o f \o g, s, t)
  BY <1>13, <1>19, ThenStays
<1>21. Stays(model, A, p \o Id(o) \o a \o b \o c \o d \o f \o g \o e, s)
  BY <1>5, <1>20, ThenEnds
<1>22. QED
  BY <1>4, <1>21

(* The calls for a model, of which the last saves the document.            *)
LEMMA CityModelCallsStay ==
  ASSUME NEW A, Allows(A), NEW s, Within(s), WellFormed(model), Last(s).inside = CityModelNode
  PROVE  \E calls : Stays(model, A, calls, s) /\ CityModelCalls = calls \o <<Save>>
<1> DEFINE F == [i \in DOMAIN model.roots |-> CityObjectMember(model.roots[i])]
           a == If(model.srs, <<Attribute("srsName", SomeValue)>>)
           b == Each(AttributeElement, model.attributes[CityModelNode])
           c == If(model.envelope, Envelope(model.srs))
           d == FlattenSeq(F)
           e == <<Save>>
<1>1. Named(A)
  BY DEF Allows
<1>2. Stays(model, A, a, s)
  <2>1. Stays(model, A, <<Attribute("srsName", SomeValue)>>, s)
    BY AttributeStays
  <2>2. QED
    BY <2>1, IfStays DEF Within
<1>3. Stays(model, A, b, s)
  BY AttributesStay DEF CityModelNode
<1>4. Stays(model, A, c, s)
  BY <1>1, EnvelopeStays, IfStays DEF Within
<1>5. Stays(model, A, d, s)
  <2>1. model.roots \in Seq(DOMAIN model.type)
    BY DEF WellFormed
  <2>2. ASSUME NEW i \in DOMAIN model.roots
        PROVE  Stays(model, A, F[i], s)
    <3>1. model.roots[i] \in DOMAIN model.type
      BY <2>1
    <3>2. CityModelNode \in OwnersIn(model, model.roots[i])
      BY DEF OwnersIn
    <3>3. QED
      BY <3>1, <3>2, CityObjectMemberStays
  <2>3. F = [i \in DOMAIN model.roots |-> F[i]]
    OBVIOUS
  <2> HIDE DEF F
  <2>4. QED
    BY <2>1, <2>2, <2>3, EachStays DEF Within
<1>6. CityModelCalls = a \o b \o c \o d \o e
  BY DEF CityModelCalls, Each
<1> HIDE DEF a, b, c, d, F
<1>7. Stays(model, A, a \o b, s)
  BY <1>2, <1>3, JoinStays
<1>8. Stays(model, A, a \o b \o c, s)
  BY <1>4, <1>7, JoinStays
<1>9. Stays(model, A, a \o b \o c \o d, s)
  BY <1>5, <1>8, JoinStays
<1>10. QED
  BY <1>6, <1>9

-----------------------------------------------------------------------------
(* The part of the model around each element.                              *)
Tree(es) == Len(es) \in Nat /\ \A e \in 1..Len(es) : es[e].parent \in 0..(e - 1)

AroundOf(f, es, p) == IF p = NoElement THEN CityModelNode
                      ELSE IF es[p].of # CityModelNode THEN es[p].of ELSE f[p]

Surrounds(f, es) == f = [e \in 1..Len(es) |-> AroundOf(f, es, es[e].parent)]

Around(es) == CHOOSE f : Surrounds(f, es)

LEMMA AroundExists ==
  ASSUME NEW es, Tree(es)
  PROVE  \E f : Surrounds(f, es)
<1> DEFINE n == Len(es)
           Upto(f, k) == \A e \in 1..n : e <= k => f[e] = AroundOf(f, es, es[e].parent)
           T == {k \in Nat : \E f : Upto(f, k)}
<1>1. n \in Nat /\ \A e \in 1..n : es[e].parent \in 0..(e - 1)
  BY DEF Tree
<1> HIDE DEF n
<1>2. 0 \in T
  <2>1. Upto(0, 0)
    BY <1>1
  <2>2. QED
    BY <2>1
<1>3. ASSUME NEW k \in Nat, k \in T
      PROVE  k + 1 \in T
  <2>1. PICK f : Upto(f, k)
    BY <1>3
  <2> DEFINE h == [e \in 1..n |-> IF e <= k THEN f[e] ELSE AroundOf(f, es, es[e].parent)]
  <2>2. ASSUME NEW e \in 1..n, e <= k + 1
        PROVE  h[e] = AroundOf(h, es, es[e].parent)
    <3> DEFINE p == es[e].parent
    <3>1. p \in 0..(e - 1)
      BY <1>1
    <3> HIDE DEF p
    <3>2. p = NoElement \/ (p \in 1..n /\ p <= k)
      BY <1>1, <2>2, <3>1 DEF NoElement
    <3>3. AroundOf(h, es, p) = AroundOf(f, es, p)
      BY <3>2 DEF AroundOf
    <3>4. h[e] = AroundOf(f, es, p)
      <4> HIDE DEF T
      <4>1. CASE e <= k
        BY <2>1, <4>1 DEF p
      <4>2. CASE ~(e <= k)
        BY <4>2 DEF p
      <4>3. QED
        BY <4>1, <4>2
    <3>5. QED
      BY <3>3, <3>4 DEF p
  <2> HIDE DEF h
  <2>3. Upto(h, k + 1)
    BY <2>2
  <2>4. QED
    BY <2>3
<1>4. \A e \in 1..n : e <= n
  BY <1>1
<1> HIDE DEF T
<1>5. n \in T
  BY <1>1, <1>2, <1>3, NatInduct
<1>6. PICK f : Upto(f, n)
  BY <1>5 DEF T
<1> DEFINE h == [e \in 1..n |-> f[e]]
<1>7. ASSUME NEW e \in 1..n
      PROVE  h[e] = AroundOf(h, es, es[e].parent)
  <2> DEFINE p == es[e].parent
  <2>1. p \in 0..(e - 1)
    BY <1>1
  <2>2. f[e] = AroundOf(f, es, p)
    BY <1>4, <1>6
  <2> HIDE DEF p
  <2>3. p = NoElement \/ p \in 1..n
    BY <1>1, <2>1 DEF NoElement
  <2>4. AroundOf(h, es, p) = AroundOf(f, es, p)
    BY <2>3 DEF AroundOf
  <2>5. QED
    BY <2>2, <2>4 DEF p
<1>8. h = [e \in 1..n |-> h[e]]
  OBVIOUS
<1> HIDE DEF h
<1>9. Surrounds(h, es)
  BY <1>7, <1>8 DEF Surrounds, n
<1>10. QED
  BY <1>9

LEMMA AroundIs ==
  ASSUME NEW es, Tree(es)
  PROVE  \A e \in 1..Len(es) : Around(es)[e] = AroundOf(Around(es), es, es[e].parent)
<1>1. Surrounds(Around(es), es)
  BY AroundExists, Zenon DEF Around
<1> DEFINE f == Around(es)
<1>2. f = [e \in 1..Len(es) |-> AroundOf(f, es, es[e].parent)]
  BY <1>1 DEF Surrounds
<1> HIDE DEF f
<1>3. \A e \in 1..Len(es) : f[e] = AroundOf(f, es, es[e].parent)
  BY <1>2
<1>4. QED
  BY <1>3 DEF f

(* It is a part of the model or 0.                                         *)
LEMMA AroundTyped ==
  ASSUME NEW es, Tree(es), \A e \in 1..Len(es) : es[e].of \in Nat
  PROVE  \A e \in 1..Len(es) : Around(es)[e] \in Nat
<1> DEFINE n == Len(es)
           f == Around(es)
           T == {k \in Nat : \A e \in 1..n : e <= k => f[e] \in Nat}
<1>1. n \in Nat /\ \A e \in 1..n : es[e].parent \in 0..(e - 1)
  BY DEF Tree
<1>2. \A e \in 1..n : f[e] = AroundOf(f, es, es[e].parent)
  BY AroundIs
<1>3. \A e \in 1..n : es[e].of \in Nat
  OBVIOUS
<1> HIDE DEF n, f
<1>4. 0 \in T
  BY <1>1
<1>5. ASSUME NEW k \in Nat, k \in T
      PROVE  k + 1 \in T
  <2>1. ASSUME NEW e \in 1..n, e <= k + 1
        PROVE  f[e] \in Nat
    <3> DEFINE p == es[e].parent
    <3>1. p \in 0..(e - 1) /\ f[e] = AroundOf(f, es, p)
      BY <1>1, <1>2
    <3> HIDE DEF p
    <3>2. p = NoElement \/ (p \in 1..n /\ p <= k)
      BY <1>1, <2>1, <3>1 DEF NoElement
    <3>3. p # NoElement => f[p] \in Nat /\ es[p].of \in Nat
      BY <1>3, <1>5, <3>2
    <3>4. QED
      BY <3>1, <3>2, <3>3 DEF AroundOf, CityModelNode
  <2>2. QED
    BY <2>1
<1> HIDE DEF T
<1>6. n \in T
  BY <1>1, <1>4, <1>5, NatInduct
<1>7. \A e \in 1..n : e <= n
  BY <1>1
<1>8. QED
  BY <1>6, <1>7 DEF T, n, f

(* More elements do not move those that are there, nor does their content. *)
Grows(es, fs) ==
  /\ Len(es) <= Len(fs)
  /\ \A e \in 1..Len(es) : fs[e].parent = es[e].parent /\ fs[e].of = es[e].of

LEMMA AroundStays ==
  ASSUME NEW es, NEW fs, Tree(es), Tree(fs), Grows(es, fs)
  PROVE  \A e \in 1..Len(es) : Around(fs)[e] = Around(es)[e]
<1> DEFINE n == Len(es)
           f == Around(es)
           g == Around(fs)
           T == {k \in Nat : \A e \in 1..n : e <= k => g[e] = f[e]}
<1>1. n \in Nat /\ \A e \in 1..n : es[e].parent \in 0..(e - 1) /\ e \in 1..Len(fs)
  BY DEF Tree, Grows
<1>2. \A e \in 1..n : f[e] = AroundOf(f, es, es[e].parent)
  BY AroundIs
<1>3. \A e \in 1..n : g[e] = AroundOf(g, fs, es[e].parent)
  BY <1>1, AroundIs DEF Grows
<1>4. \A e \in 1..n : fs[e].of = es[e].of
  BY DEF Grows
<1> HIDE DEF n, f, g
<1>5. 0 \in T
  BY <1>1
<1>6. ASSUME NEW k \in Nat, k \in T
      PROVE  k + 1 \in T
  <2>1. ASSUME NEW e \in 1..n, e <= k + 1
        PROVE  g[e] = f[e]
    <3> DEFINE p == es[e].parent
    <3>1. p \in 0..(e - 1) /\ f[e] = AroundOf(f, es, p) /\ g[e] = AroundOf(g, fs, p)
      BY <1>1, <1>2, <1>3
    <3> HIDE DEF p
    <3>2. p = NoElement \/ (p \in 1..n /\ p <= k)
      BY <1>1, <2>1, <3>1 DEF NoElement
    <3>3. p # NoElement => g[p] = f[p] /\ fs[p].of = es[p].of
      BY <1>4, <1>6, <3>2
    <3>4. AroundOf(g, fs, p) = AroundOf(f, es, p)
      BY <3>2, <3>3 DEF AroundOf
    <3>5. QED
      BY <3>1, <3>4
  <2>2. QED
    BY <2>1
<1> HIDE DEF T
<1>7. n \in T
  BY <1>1, <1>5, <1>6, NatInduct
<1>8. \A e \in 1..n : e <= n
  BY <1>1
<1>9. QED
  BY <1>7, <1>8 DEF T, n, f, g

(* The stack of the open elements.                                         *)
ItemOf(es, e) == [of     |-> es[e].of,
                  inside |-> IF es[e].of # CityModelNode THEN es[e].of ELSE Around(es)[e]]

OpenItems(es, stack) == [i \in 1..Len(stack) |-> ItemOf(es, stack[i])]

LEMMA OpenItemsTyped ==
  ASSUME NEW es, Tree(es), \A e \in 1..Len(es) : es[e].of \in Nat, NEW stack \in Seq(1..Len(es))
  PROVE  OpenItems(es, stack) \in Stacks /\ Len(OpenItems(es, stack)) = Len(stack)
<1>1. \A e \in 1..Len(es) : ItemOf(es, e) \in Item
  BY AroundTyped DEF ItemOf, Item
<1>2. Len(stack) \in Nat /\ \A i \in 1..Len(stack) : stack[i] \in 1..Len(es)
  OBVIOUS
<1> DEFINE r == OpenItems(es, stack)
<1>3. r = [i \in 1..Len(stack) |-> ItemOf(es, stack[i])]
  BY DEF OpenItems
<1> HIDE DEF r
<1>4. r \in [1..Len(stack) -> Item]
  BY <1>1, <1>2, <1>3
<1> DEFINE k == Len(stack)
<1>5. r \in Seq(Item) /\ Len(r) = Len(stack)
  <2>1. k \in Nat /\ r \in [1..k -> Item]
    BY <1>2, <1>4
  <2> HIDE DEF k
  <2>2. r \in Seq(Item) /\ Len(r) = k
    BY <2>1
  <2>3. QED
    BY <2>2 DEF k
<1>6. QED
  BY <1>5 DEF r, Stacks

LEMMA OpenItemsStay ==
  ASSUME NEW es, NEW fs, Tree(es), Tree(fs), Grows(es, fs), NEW stack \in Seq(1..Len(es))
  PROVE  OpenItems(fs, stack) = OpenItems(es, stack)
<1>1. \A e \in 1..Len(es) : ItemOf(fs, e) = ItemOf(es, e)
  BY AroundStays DEF ItemOf, Grows
<1>2. \A i \in 1..Len(stack) : stack[i] \in 1..Len(es)
  OBVIOUS
<1>3. \A i \in 1..Len(stack) : ItemOf(fs, stack[i]) = ItemOf(es, stack[i])
  BY <1>1, <1>2
<1>4. QED
  BY <1>3 DEF OpenItems

(* An element that is opened is one for its part in the last open one.     *)
LEMMA OpenItemsAppend ==
  ASSUME NEW es, NEW fs, Tree(es), Tree(fs), Grows(es, fs), Len(fs) = Len(es) + 1,
         \A e \in 1..Len(fs) : fs[e].of \in Nat,
         NEW stack \in Seq(1..Len(es))
  PROVE  /\ OpenItems(fs, Append(stack, Len(es) + 1)) =
              Append(OpenItems(es, stack), ItemOf(fs, Len(es) + 1))
         /\ OpenItems(es, stack) \in Stacks
         /\ ItemOf(fs, Len(es) + 1) \in Item
<1> DEFINE n == Len(es)
           k == Len(stack)
           x == ItemOf(fs, n + 1)
           r == OpenItems(es, stack)
           t == Append(stack, n + 1)
           q == OpenItems(fs, t)
<1>1. n \in Nat /\ k \in Nat /\ \A i \in 1..k : stack[i] \in 1..n
  BY DEF Tree
<1>2. \A e \in 1..n : es[e].of \in Nat
  BY <1>1 DEF Grows
<1>3. r \in Stacks /\ Len(r) = k
  BY <1>2, OpenItemsTyped
<1>4. x \in Item
  <2>1. n + 1 \in 1..Len(fs)
    BY <1>1
  <2>2. Around(fs)[n + 1] \in Nat /\ fs[n + 1].of \in Nat
    BY <2>1, AroundTyped
  <2>3. QED
    BY <2>2 DEF ItemOf, Item
<1>5. \A i \in 1..k : r[i] = ItemOf(fs, stack[i])
  <2>1. r = OpenItems(fs, stack)
    BY OpenItemsStay
  <2>2. QED
    BY <2>1 DEF OpenItems
<1>6. t = [i \in 1..(k + 1) |-> IF i = k + 1 THEN n + 1 ELSE stack[i]] /\ Len(t) = k + 1
  BY <1>1
<1> HIDE DEF n, k, x, r, t
<1>7. q = [i \in 1..(k + 1) |-> ItemOf(fs, t[i])]
  BY <1>6 DEF OpenItems
<1>8. \A i \in 1..k : q[i] = r[i]
  BY <1>1, <1>5, <1>6, <1>7
<1>9. q[k + 1] = x
  BY <1>1, <1>6, <1>7 DEF x
<1> HIDE DEF q
<1> DEFINE z == Append(r, x)
<1>10. z \in Stacks /\ Len(z) = k + 1 /\ (\A i \in 1..k : z[i] = r[i]) /\ z[k + 1] = x
  BY <1>3, <1>4, AppendLast DEF Stacks
<1>11. q \in Stacks /\ Len(q) = k + 1
  <2>1. \A i \in 1..(k + 1) : i \in 1..k \/ i = k + 1
    BY <1>1
  <2>2. \A i \in 1..k : r[i] \in Item
    BY <1>3 DEF Stacks
  <2>3. \A i \in 1..(k + 1) : q[i] \in Item
    BY <1>4, <1>8, <1>9, <2>1, <2>2
  <2>4. q \in [1..(k + 1) -> Item] /\ k + 1 \in Nat
    BY <1>1, <1>7, <2>3
  <2>5. QED
    BY <2>4, FunctionIsSeq DEF Stacks
<1> HIDE DEF z
<1>12. q = z
  <2>1. \A i \in 1..(k + 1) : i \in 1..k \/ i = k + 1
    BY <1>1
  <2>2. \A i \in 1..Len(q) : q[i] = z[i]
    BY <1>8, <1>9, <1>10, <1>11, <2>1
  <2>3. QED
    BY <1>10, <1>11, <2>2, SeqEqual DEF Stacks
<1>13. QED
  BY <1>3, <1>4, <1>12 DEF q, z, t, r, x, n

LEMMA OpenItemsFront ==
  ASSUME NEW es, Tree(es), \A e \in 1..Len(es) : es[e].of \in Nat,
         NEW stack \in Seq(1..Len(es)), stack # <<>>
  PROVE  OpenItems(es, Front(stack)) = Front(OpenItems(es, stack))
<1> DEFINE k == Len(stack) - 1
           f == Front(stack)
           r == OpenItems(es, stack)
           q == OpenItems(es, f)
<1>1. /\ k \in Nat /\ Len(stack) = k + 1
      /\ f \in Seq(1..Len(es)) /\ Len(f) = k /\ \A i \in 1..k : f[i] = stack[i]
  <2>1. /\ Len(stack) \in Nat /\ Len(stack) >= 1
        /\ f \in Seq(1..Len(es)) /\ Len(f) = Len(stack) - 1
        /\ \A i \in 1..(Len(stack) - 1) : f[i] = stack[i]
    BY FrontLast
  <2> HIDE DEF f
  <2>2. QED
    BY <2>1
<1>2. r \in Stacks /\ Len(r) = k + 1 /\ q \in Stacks /\ Len(q) = k
  BY <1>1, OpenItemsTyped, ZenonT(60)
<1>3. \A i \in 1..k : q[i] = r[i]
  BY <1>1 DEF OpenItems
<1> HIDE DEF k, f, r, q
<1>4. /\ Front(r) \in Stacks /\ Len(Front(r)) = k
      /\ \A i \in 1..k : Front(r)[i] = r[i]
  <2>1. r # <<>> /\ Len(r) - 1 = k
    BY <1>1, <1>2
  <2>2. QED
    BY <1>2, <2>1, FrontLast DEF Stacks
<1>5. q = Front(r)
  BY <1>2, <1>3, <1>4, SeqEqual DEF Stacks
<1>6. QED
  BY <1>5 DEF q, f, r

LEMMA OpenItemsLast ==
  ASSUME NEW es, NEW stack \in Seq(1..Len(es)), stack # <<>>
  PROVE  Last(OpenItems(es, stack)) = ItemOf(es, Last(stack))
<1> DEFINE r == OpenItems(es, stack)
<1>1. Len(stack) \in Nat /\ Len(stack) >= 1 /\ Last(stack) = stack[Len(stack)]
  BY FrontLast
<1>2. r = [i \in 1..Len(stack) |-> ItemOf(es, stack[i])]
  BY DEF OpenItems
<1> HIDE DEF r
<1>3. Len(r) = Len(stack) /\ r[Len(stack)] = ItemOf(es, stack[Len(stack)])
  BY <1>1, <1>2
<1>4. QED
  BY <1>1, <1>3 DEF Last, r

-----------------------------------------------------------------------------
(* The elements are in the parts they belong to, and have their prefixes.  *)
ElementsFit(es, m) ==
  \A e \in 1..Len(es) :
    /\ es[e].of \in Nat
    /\ Fits(m, es[e].name, es[e].of, Around(es)[e])
    /\ \A c \in es[e].content : c[1] = "gml:id" /\ es[e].of # CityModelNode => c[2] = es[e].of

ElementsNamed(es, A, M) ==
  \A e \in 1..Len(es) : es[e].namespace \in A /\ (es[e].namespace \in M => es[e].declared)

(* A new element, and the stack when it is opened.                         *)
Adds(es, fs, x) ==
  /\ Tree(es) /\ Tree(fs) /\ Len(fs) = Len(es) + 1
  /\ \A e \in 1..Len(es) : fs[e] = es[e]
  /\ fs[Len(es) + 1] = x
  /\ x.of \in Nat /\ x.parent \in 0..Len(es) /\ x.content = {}

LEMMA AddedFits ==
  ASSUME NEW es, NEW fs, NEW x, NEW m, Adds(es, fs, x), ElementsFit(es, m),
         Fits(m, x.name, x.of, AroundOf(Around(es), es, x.parent)),
         NEW stack \in Seq(1..Len(es))
  PROVE  /\ ElementsFit(fs, m)
         /\ OpenItems(fs, Append(stack, Len(es) + 1)) =
              Append(OpenItems(es, stack),
                     Inner(x.of, [inside |-> AroundOf(Around(es), es, x.parent)]))
         /\ OpenItems(fs, Append(stack, Len(es) + 1)) \in Stacks
         /\ OpenItems(fs, Append(stack, Len(es) + 1)) # <<>>
         /\ Last(OpenItems(fs, Append(stack, Len(es) + 1))).inside =
              IF x.of # CityModelNode THEN x.of ELSE AroundOf(Around(es), es, x.parent)
<1> DEFINE n == Len(es)
           a == AroundOf(Around(es), es, x.parent)
           t == Append(stack, n + 1)
<1>1. /\ n \in Nat /\ Len(fs) = n + 1 /\ x.of \in Nat /\ x.parent \in 0..n /\ x.content = {}
      /\ (\A e \in 1..n : fs[e] = es[e]) /\ fs[n + 1] = x
  BY DEF Adds, Tree
<1>2. Tree(es) /\ Tree(fs) /\ Grows(es, fs)
  BY <1>1 DEF Adds, Grows
<1>3. \A e \in 1..n : Around(fs)[e] = Around(es)[e]
  BY <1>2, AroundStays
<1>4. Around(fs)[n + 1] = a
  <2>1. n + 1 \in 1..Len(fs)
    BY <1>1
  <2>2. Around(fs)[n + 1] = AroundOf(Around(fs), fs, x.parent)
    BY <1>1, <1>2, <2>1, AroundIs
  <2>3. x.parent = NoElement \/ x.parent \in 1..n
    BY <1>1 DEF NoElement
  <2>4. AroundOf(Around(fs), fs, x.parent) = AroundOf(Around(es), es, x.parent)
    BY <1>1, <1>3, <2>3 DEF AroundOf
  <2>5. QED
    BY <2>2, <2>4
<1>5. \A e \in 1..Len(fs) : e \in 1..n \/ e = n + 1
  BY <1>1
<1>6. ElementsFit(fs, m)
  <2> HIDE DEF n, a
  <2>1. ASSUME NEW e \in 1..n
        PROVE  /\ fs[e].of \in Nat
               /\ Fits(m, fs[e].name, fs[e].of, Around(fs)[e])
               /\ \A c \in fs[e].content : c[1] = "gml:id" /\ fs[e].of # CityModelNode
                                             => c[2] = fs[e].of
    BY <1>1, <1>3 DEF ElementsFit, n
  <2>2. /\ x.of \in Nat
        /\ Fits(m, x.name, x.of, Around(fs)[n + 1])
        /\ \A c \in x.content : c[1] = "gml:id" /\ x.of # CityModelNode => c[2] = x.of
    BY <1>1, <1>4 DEF a
  <2>3. QED
    BY <1>1, <1>5, <2>1, <2>2 DEF ElementsFit
<1>7. \A e \in 1..Len(fs) : fs[e].of \in Nat
  BY <1>6 DEF ElementsFit
<1>8. /\ OpenItems(fs, t) = Append(OpenItems(es, stack), ItemOf(fs, n + 1))
      /\ OpenItems(es, stack) \in Stacks
      /\ ItemOf(fs, n + 1) \in Item
  BY <1>1, <1>2, <1>7, OpenItemsAppend
<1>9. ItemOf(fs, n + 1) = Inner(x.of, [inside |-> a])
  BY <1>1, <1>4 DEF ItemOf, Inner
<1> HIDE DEF a, t, n
<1>10. /\ OpenItems(fs, t) \in Stacks /\ OpenItems(fs, t) # <<>>
       /\ Last(OpenItems(fs, t)) = ItemOf(fs, n + 1)
  BY <1>8, AppendLastFront DEF Stacks
<1>11. Last(OpenItems(fs, t)).inside = IF x.of # CityModelNode THEN x.of ELSE a
  BY <1>9, <1>10 DEF Inner
<1>12. QED
  BY <1>6, <1>8, <1>9, <1>10, <1>11 DEF t, a, n

LEMMA AddedNamed ==
  ASSUME NEW es, NEW fs, NEW x, NEW A, NEW M, Adds(es, fs, x), ElementsNamed(es, A, M),
         x.namespace \in A, x.namespace \in M => x.declared
  PROVE  ElementsNamed(fs, A, M)
<1> DEFINE n == Len(es)
<1>1. /\ n \in Nat /\ Len(fs) = n + 1
      /\ (\A e \in 1..n : fs[e] = es[e]) /\ fs[n + 1] = x
  BY DEF Adds, Tree
<1>2. \A e \in 1..Len(fs) : e \in 1..n \/ e = n + 1
  BY <1>1
<1>3. QED
  BY <1>1, <1>2 DEF ElementsNamed

(* A sequence with one more element, whatever that is.                     *)
LEMMA AppendedAny ==
  ASSUME NEW S, NEW s \in Seq(S), NEW x, NEW t, t = Append(s, x)
  PROVE  /\ Len(t) = Len(s) + 1
         /\ \A i \in 1..Len(s) : t[i] = s[i]
         /\ t[Len(s) + 1] = x
<1>1. s \in Seq(S \cup {x}) /\ x \in S \cup {x}
  OBVIOUS
<1>2. QED
  BY <1>1, Appended

(* New content: an id is that of the element's part of the model.          *)
Fills(es, fs, cur, name, value) ==
  /\ Tree(es) /\ Tree(fs) /\ Len(fs) = Len(es) /\ cur \in 1..Len(es)
  /\ \A e \in 1..Len(es) : /\ fs[e].name = es[e].name /\ fs[e].namespace = es[e].namespace
                          /\ fs[e].declared = es[e].declared
                          /\ fs[e].of = es[e].of /\ fs[e].parent = es[e].parent
                          /\ fs[e].content = IF e = cur
                               THEN {c \in es[e].content : c[1] # name \/ name = "text"}
                                    \cup {<<name, value>>}
                               ELSE es[e].content

LEMMA FilledFits ==
  ASSUME NEW es, NEW fs, NEW cur, NEW name, NEW value, NEW m, Fills(es, fs, cur, name, value),
         ElementsFit(es, m),
         name = "gml:id" /\ es[cur].of # CityModelNode => value = es[cur].of,
         NEW stack \in Seq(1..Len(es))
  PROVE  ElementsFit(fs, m) /\ OpenItems(fs, stack) = OpenItems(es, stack)
<1>1. /\ Tree(es) /\ Tree(fs) /\ Len(fs) = Len(es) /\ Len(es) \in Nat
      /\ Grows(es, fs)
  <2>1. /\ Tree(es) /\ Tree(fs) /\ Len(fs) = Len(es)
        /\ \A e \in 1..Len(es) : fs[e].parent = es[e].parent /\ fs[e].of = es[e].of
    BY DEF Fills
  <2>2. Len(es) \in Nat
    BY <2>1 DEF Tree
  <2>3. Len(es) <= Len(fs)
    BY <2>1, <2>2
  <2>4. QED
    BY <2>1, <2>2, <2>3 DEF Grows
<1>2. \A e \in 1..Len(es) : Around(fs)[e] = Around(es)[e]
  BY <1>1, AroundStays
<1>3. ASSUME NEW e \in 1..Len(es)
      PROVE  /\ fs[e].of \in Nat
             /\ Fits(m, fs[e].name, fs[e].of, Around(fs)[e])
             /\ \A c \in fs[e].content : c[1] = "gml:id" /\ fs[e].of # CityModelNode
                                           => c[2] = fs[e].of
  <2>1. /\ fs[e].of = es[e].of /\ fs[e].name = es[e].name /\ es[e].of \in Nat
        /\ Fits(m, es[e].name, es[e].of, Around(es)[e])
        /\ \A c \in es[e].content : c[1] = "gml:id" /\ es[e].of # CityModelNode => c[2] = es[e].of
    BY DEF Fills, ElementsFit
  <2>2. ASSUME NEW c \in fs[e].content, c[1] = "gml:id", es[e].of # CityModelNode
        PROVE  c[2] = es[e].of
    <3>1. CASE c \in es[e].content
      BY <2>1, <2>2, <3>1
    <3>2. CASE c \notin es[e].content
      <4>1. e = cur /\ c = <<name, value>>
        BY <3>2, ZenonT(60) DEF Fills
      <4>2. name = "gml:id" /\ c[2] = value
        BY <2>2, <4>1
      <4>3. QED
        BY <2>2, <4>1, <4>2, ZenonT(60)
    <3>3. QED
      BY <3>1, <3>2
  <2>3. QED
    BY <1>2, <2>1, <2>2
<1>4. ElementsFit(fs, m)
  BY <1>1, <1>3 DEF ElementsFit
<1>5. OpenItems(fs, stack) = OpenItems(es, stack)
  BY <1>1, OpenItemsStay
<1>6. QED
  BY <1>4, <1>5

(* What is still to be written, up to the call that saves it, can be       *)
(* written where the writer is.                                            *)
WillRun(m, A, calls, es, stack, error) ==
  \E before, s, t : /\ calls = before \o <<Save>>
                    /\ Runs(m, A, before, s, t)
                    /\ ~error => s = OpenItems(es, stack)

LEMMA SaveLast ==
  ASSUME NEW before, before \in Seq(Range(before))
  PROVE  LET calls == before \o <<Save>>
         IN  /\ calls # <<>>
             /\ before = <<>> => Head(calls) = Save /\ Tail(calls) = <<>>
             /\ before # <<>> => Head(calls) = Head(before) /\ Tail(calls) = Tail(before) \o <<Save>>
<1> DEFINE S == Range(before) \cup {Save}
           q == <<Save>>
<1>1. before \in Seq(S)
  <2>1. Range(before) \in SUBSET S
    OBVIOUS
  <2> HIDE DEF S
  <2>2. QED
    BY <2>1, SeqWider
<1>2. q \in Seq(S) /\ Len(q) = 1 /\ q[1] = Save /\ Head(q) = Save /\ Tail(q) = <<>>
  OBVIOUS
<1> HIDE DEF S, q
<1>3. QED
  BY <1>1, <1>2 DEF q

LEMMA NextTurn ==
  ASSUME NEW m, NEW A, NEW calls, NEW es, NEW stack, NEW error,
         WillRun(m, A, calls, es, stack, error)
  PROVE  /\ calls # <<>>
         /\ \/ Head(calls) = Save /\ Tail(calls) = <<>>
            \/ \E rest, s, u, t :
                 /\ Turns(m, A, Head(calls), s, u) /\ Runs(m, A, rest, u, t)
                 /\ Tail(calls) = rest \o <<Save>>
                 /\ ~error => s = OpenItems(es, stack)
<1>1. PICK before, s, t : /\ calls = before \o <<Save>>
                          /\ Runs(m, A, before, s, t)
                          /\ ~error => s = OpenItems(es, stack)
  BY DEF WillRun
<1>2. before \in Seq(Range(before))
  BY <1>1, RunsTyped
<1>3. /\ calls # <<>>
      /\ before = <<>> => Head(calls) = Save /\ Tail(calls) = <<>>
      /\ before # <<>> => Head(calls) = Head(before) /\ Tail(calls) = Tail(before) \o <<Save>>
  BY <1>1, <1>2, SaveLast
<1>4. CASE before # <<>>
  <2>1. PICK u : Turns(m, A, Head(before), s, u) /\ Runs(m, A, Tail(before), u, t)
    BY <1>1, <1>4, RunsFirst
  <2> DEFINE rest == Tail(before)
  <2>2. /\ Turns(m, A, Head(calls), s, u) /\ Runs(m, A, rest, u, t)
        /\ Tail(calls) = rest \o <<Save>>
    BY <1>3, <1>4, <2>1
  <2> HIDE DEF rest
  <2>3. QED
    BY <1>1, <1>3, <2>2
<1>5. QED
  BY <1>3, <1>4

(* What recurs is written out before the rest.                             *)
LEMMA WillRunMore ==
  ASSUME NEW m, NEW A, NEW a, NEW rest, NEW s, NEW t, NEW es, NEW stack, NEW error,
         Stays(m, A, a, s), Runs(m, A, rest, s, t), ~error => s = OpenItems(es, stack)
  PROVE  WillRun(m, A, a \o (rest \o <<Save>>), es, stack, error)
<1> DEFINE S == Range(a) \cup Range(rest) \cup {Save}
           q == <<Save>>
<1>1. a \in Seq(Range(a)) /\ rest \in Seq(Range(rest))
  BY RunsTyped DEF Stays
<1>2. a \in Seq(S) /\ rest \in Seq(S) /\ q \in Seq(S)
  <2>1. Range(a) \in SUBSET S /\ Range(rest) \in SUBSET S /\ Save \in S
    OBVIOUS
  <2> HIDE DEF S
  <2>2. q \in Seq(S)
    BY <2>1
  <2>3. QED
    BY <1>1, <2>1, <2>2, SeqWider
<1> HIDE DEF S, q
<1>3. a \o (rest \o q) = (a \o rest) \o q
  BY <1>2, ConcatAssociative, SMTT(60)
<1>4. Runs(m, A, a \o rest, s, t)
  BY RunsJoin DEF Stays
<1>5. QED
  BY <1>3, <1>4 DEF WillRun, q

-----------------------------------------------------------------------------
(* The namespaces that elements are written in, and those of them that are *)
(* prefixes declared at the root.                                          *)
NodesOf(attributes) ==
  UNION {{attributes[x][i].node : i \in DOMAIN attributes[x]} : x \in DOMAIN attributes}

Allowed == {"", "uri", "xAL", "bldg"} \cup Modules \cup NodesOf(model.attributes)

Declared == Modules \cup {"xAL"}

LEMMA AllowedAllows == Allows(Allowed)
<1>1. Named(Allowed)
  BY DEF Named, Allowed, Modules
<1>2. \A o \in DOMAIN model.type : NamespaceForCityObjectType(model.type[o]) \in Allowed
  BY DEF Allowed, Modules
<1>3. ASSUME NEW x \in DOMAIN model.attributes, NEW i \in DOMAIN model.attributes[x]
      PROVE  model.attributes[x][i].node \in Allowed
  <2>1. model.attributes[x][i].node \in
          UNION {{model.attributes[y][j].node : j \in DOMAIN model.attributes[y]}
                 : y \in DOMAIN model.attributes}
    OBVIOUS
  <2>2. QED
    BY <2>1 DEF Allowed, NodesOf
<1>4. QED
  BY <1>1, <1>2, <1>3 DEF Allows

LEMMA NamespacesOfTypes ==
  ASSUME NEW type
  PROVE  NamespaceForCityObjectType(type) \in KnownPrefixes \ {"gml", "core", "app"}
  BY DEF NamespaceForCityObjectType, KnownPrefixes

LEMMA ModulesKnown == Modules \in SUBSET KnownPrefixes /\ "" \notin Declared /\ "uri" \notin Declared
<1>1. \A o \in DOMAIN model.type : NamespaceForCityObjectType(model.type[o]) \in KnownPrefixes
  BY NamespacesOfTypes
<1>2. {"gml", "core", "gen", "app"} \in SUBSET KnownPrefixes
  BY DEF KnownPrefixes
<1>3. Modules \in SUBSET KnownPrefixes
  BY <1>1, <1>2 DEF Modules
<1>4. "" \notin KnownPrefixes /\ "uri" \notin KnownPrefixes
  BY DEF KnownPrefixes
<1>5. QED
  BY <1>3, <1>4 DEF Declared

LEMMA AllowedIfCovered ==
  ASSUME ModulesCover
  PROVE  \A namespace \in Allowed : namespace \in {"", "uri"} \cup Declared
<1>1. "bldg" \in Modules
  BY DEF ModulesCover
<1>2. ASSUME NEW x \in DOMAIN model.attributes, NEW i \in DOMAIN model.attributes[x]
      PROVE  model.attributes[x][i].node \in Modules \cup {""}
  <2>1. model.attributes[x][i] \in Range(model.attributes[x])
    BY DEF Range
  <2>2. QED
    BY <2>1 DEF ModulesCover
<1>3. ASSUME NEW namespace \in Allowed
      PROVE  namespace \in {"", "uri"} \cup Declared
  <2>1. CASE namespace \in {"", "uri", "xAL", "bldg"} \cup Modules
    BY <1>1, <2>1 DEF Declared
  <2>2. CASE \E x \in DOMAIN model.attributes : \E i \in DOMAIN model.attributes[x] :
               namespace = model.attributes[x][i].node
    BY <1>2, <2>2 DEF Declared
  <2>3. ASSUME namespace \in NodesOf(model.attributes)
        PROVE  \E x \in DOMAIN model.attributes : \E i \in DOMAIN model.attributes[x] :
                 namespace = model.attributes[x][i].node
    BY <2>3, SMTT(60) DEF NodesOf
  <2>4. QED
    BY <2>1, <2>2, <2>3 DEF Allowed
<1>4. QED
  BY <1>3

-----------------------------------------------------------------------------
(* The serializer.                                                         *)
CallsInv ==
  /\ model \in CityModels
  /\ ElementsFit(elements, model)
  /\ ElementsNamed(elements, Allowed, Declared)
  /\ document # NoElement => Declared \subseteq namespaces
  /\ result = "true" => Writable
  /\ todo # <<>> => /\ result = "none"
                    /\ document # NoElement
                    /\ WillRun(model, Allowed, todo, elements, elementStack, hasError)

IInv == WriterInv /\ CallerInv /\ CallsInv

LEMMA WriterTree ==
  ASSUME WriterInv
  PROVE  /\ Tree(elements) /\ Len(elements) \in Nat
         /\ elements \in Seq(Parts)
         /\ elementStack \in Seq(1..Len(elements))
         /\ currentElement \in 0..Len(elements)
         /\ hasError \in BOOLEAN
         /\ elementStack # <<>> => /\ currentElement = Last(elementStack)
                                   /\ currentElement \in 1..Len(elements)
<1>1. Tree(elements) /\ Len(elements) \in Nat /\ elements \in Seq(Parts)
  BY LengthOfElements DEF WriterInv, ElementsAreRecords, ParentsBefore, Tree
<1>2. /\ elementStack \in Seq(1..Len(elements)) /\ currentElement \in 0..Len(elements)
      /\ hasError \in BOOLEAN
      /\ elementStack # <<>> => currentElement = Last(elementStack)
  BY DEF WriterInv, WriterTypeOK, OpenElementsNested
<1>3. elementStack # <<>> => Last(elementStack) \in 1..Len(elements)
  BY <1>2, FrontLast
<1>4. QED
  BY <1>1, <1>2, <1>3

(* The invariant after a step, in terms of the model and of what may be    *)
(* declared before it: neither changes.                                    *)
CallsAfter ==
  /\ ElementsFit(elements', model)
  /\ ElementsNamed(elements', Allowed, Declared)
  /\ document' # NoElement => Declared \subseteq namespaces'
  /\ result' = "true" => Writable'
  /\ todo' # <<>> => /\ result' = "none"
                     /\ document' # NoElement
                     /\ WillRun(model, Allowed, todo', elements', elementStack', hasError')

LEMMA CallsKept ==
  ASSUME IInv, UNCHANGED model, CallsAfter
  PROVE  CallsInv'
<1>1. model' = model
  OBVIOUS
<1>2. Modules' = Modules
  BY <1>1 DEF Modules
<1>3. Allowed' = Allowed /\ Declared' = Declared
  BY <1>1, <1>2 DEF Allowed, Declared
<1>4. todo' # <<>> => WillRun(model', Allowed', todo', elements', elementStack', hasError')
  BY <1>1, <1>3, Zenon DEF CallsAfter
<1>5. /\ model' \in CityModels
      /\ ElementsFit(elements', model')
      /\ ElementsNamed(elements', Allowed', Declared')
      /\ document' # NoElement => Declared' \subseteq namespaces'
      /\ result' = "true" => Writable'
      /\ todo' # <<>> => result' = "none" /\ document' # NoElement
  BY <1>1, <1>3 DEF IInv, CallsInv, CallsAfter
<1>6. QED
  BY <1>4, <1>5 DEF CallsInv

(* Nothing is added: the next call is behind the one that was made.        *)
LEMMA NothingAdded ==
  ASSUME IInv, UNCHANGED <<elements, document, model, namespaces>>,
         result' = "true" => Writable',
         todo' # <<>> =>
           /\ result' = "none" /\ document' # NoElement
           /\ WillRun(model, Allowed, todo', elements, elementStack', hasError')
  PROVE  CallsInv'
<1>1. todo' # <<>> => WillRun(model, Allowed, todo', elements', elementStack', hasError')
  BY Zenon
<1>2. CallsAfter
  BY <1>1 DEF IInv, CallsInv, CallsAfter
<1>3. QED
  BY <1>2, CallsKept

LEMMA InitIInv == Init => IInv
<1> SUFFICES ASSUME Init PROVE IInv
  OBVIOUS
<1>1. CallerInv
  BY MaxDocumentsAssumption DEF Init, CallerInv
<1>2. elements = <<>> /\ Len(elements) = 0 /\ elementStack = <<>>
  BY DEF Init, WriterInit
<1>3. ElementsAreRecords /\ ParentsBefore
  BY <1>2 DEF ElementsAreRecords, ParentsBefore
<1>4. WriterTypeOK
  BY <1>2 DEF Init, WriterInit, WriterTypeOK, NoElement
<1>5. OpenElementsNested
  BY <1>2 DEF OpenElementsNested
<1>6. CallsInv
  BY <1>2 DEF Init, WriterInit, CallsInv, ElementsFit, ElementsNamed
<1>7. QED
  BY <1>1, <1>3, <1>4, <1>5, <1>6 DEF IInv, WriterInv

(* Serialize: the root of a new document, and the calls for the model.     *)
LEMMA SerializeInv ==
  ASSUME IInv, WriterInv', Serialize
  PROVE  CallsInv'
<1>1. /\ todo = <<>> /\ UNCHANGED model /\ Allowed' = Allowed /\ Declared' = Declared
      /\ namespaces \subseteq namespaces'
  BY DEF Serialize, Allowed, Declared, Modules, setupNamespaces, addNamespaceDeclarations
<1>2. Declared \subseteq namespaces'
  <2>1. Modules \subseteq usedNamespaces'
    BY DEF Serialize, collectUsedTypes, Modules
  <2>2. (usedNamespaces' \cap KnownPrefixes) \cup {"xAL"} \subseteq namespaces'
    BY DEF Serialize, setupNamespaces, addNamespaceDeclarations
  <2>3. QED
    BY <2>1, <2>2, ModulesKnown DEF Declared
<1>3. CASE /\ NewDocument("CityModel")
           /\ \/ todo' = CityModelCalls /\ result' = "none"
              \/ UNCHANGED todo /\ result' = "false"
  <2> DEFINE x == Element("CityModel", "", 0, NoElement)
             n == Len(elements)
             stack == Append(elementStack, n + 1)
             s == OpenItems(elements', stack)
  <2>1. /\ elements' = Append(elements, x) /\ document' = n + 1
        /\ elementStack' = stack
    BY <1>3 DEF NewDocument
  <2>2. /\ x.of = 0 /\ x.parent = 0 /\ x.content = {} /\ x.namespace = "" /\ x.name = "CityModel"
    BY DEF Element, NoElement
  <2>3. /\ Tree(elements) /\ Tree(elements') /\ n \in Nat /\ elements \in Seq(Parts)
        /\ elementStack \in Seq(1..n)
    <3>1. Len(elements') \in Nat
      BY DEF WriterInv, ElementsAreRecords
    <3>2. Tree(elements')
      BY <3>1 DEF WriterInv, ParentsBefore, Tree
    <3>3. QED
      BY <3>2, WriterTree DEF IInv
  <2> HIDE DEF x
  <2>4. Adds(elements, elements', x)
    <3>1. /\ Len(elements') = n + 1 /\ (\A e \in 1..n : elements'[e] = elements[e])
          /\ elements'[n + 1] = x
      BY <2>1, <2>3, AppendedAny
    <3>2. 0 \in 0..n /\ 0 \in Nat
      BY <2>3
    <3>3. x.of \in Nat /\ x.parent \in 0..n /\ x.content = {}
      BY <2>2, <3>2, Zenon
    <3>4. QED
      BY <2>3, <3>1, <3>3, Zenon DEF Adds
  <2>5. Fits(model, x.name, x.of, AroundOf(Around(elements), elements, x.parent))
    BY <2>2 DEF Fits, CityModelNode
  <2>6. ElementsFit(elements, model)
    BY DEF IInv, CallsInv
  <2>7. /\ ElementsFit(elements', model) /\ s \in Stacks /\ s # <<>>
        /\ Last(s).inside = IF x.of # CityModelNode THEN x.of
                            ELSE AroundOf(Around(elements), elements, x.parent)
    BY <2>3, <2>4, <2>5, <2>6, AddedFits
  <2>8. Within(s) /\ Last(s).inside = CityModelNode
    BY <2>2, <2>7 DEF Within, AroundOf, NoElement, CityModelNode
  <2>9. ElementsNamed(elements', Allowed, Declared)
    <3>1. "" \in Allowed /\ "" \notin Declared
      BY ModulesKnown DEF Allowed
    <3>2. ElementsNamed(elements, Allowed, Declared)
      BY DEF IInv, CallsInv
    <3>3. QED
      BY <2>2, <2>4, <3>1, <3>2, AddedNamed
  <2> HIDE DEF s
  <2>10. PICK calls : Stays(model, Allowed, calls, s) /\ CityModelCalls = calls \o <<Save>>
    <3>1. WellFormed(model)
      BY CityModelsAssumption DEF IInv, CallsInv
    <3>2. QED
      BY <2>8, <3>1, AllowedAllows, CityModelCallsStay
  <2>11. document' # NoElement
    BY <2>1, <2>3 DEF NoElement
  <2>12. CASE todo' = CityModelCalls /\ result' = "none"
    <3>1. todo' = calls \o <<Save>> /\ s = OpenItems(elements', elementStack')
      BY <2>1, <2>10, <2>12 DEF s
    <3>2. WillRun(model, Allowed, todo', elements', elementStack', hasError')
      BY <2>10, <3>1 DEF WillRun, Stays
    <3>3. QED
      BY <1>1, <1>2, <2>7, <2>9, <2>11, <2>12, <3>2 DEF IInv, CallsInv
  <2>13. CASE UNCHANGED todo /\ result' = "false"
    BY <1>1, <1>2, <2>7, <2>9, <2>13 DEF IInv, CallsInv
  <2>14. QED
    BY <1>3, <2>12, <2>13
<1>4. CASE (Fails \/ Returns) /\ result' = "false" /\ UNCHANGED todo
  BY <1>1, <1>2, <1>4 DEF Fails, Returns, IInv, CallsInv
<1>5. QED
  BY <1>3, <1>4 DEF Serialize, createDocument, DeclarationsFail

(* The next call, and what is behind it.                                   *)
Follows(calls, rest, s, u, t) ==
  /\ Turns(model, Allowed, Head(calls), s, u) /\ Runs(model, Allowed, rest, u, t)
  /\ Tail(calls) = rest \o <<Save>>
  /\ ~hasError => s = OpenItems(elements, elementStack)

LEMMA NextFollows ==
  ASSUME IInv, todo # <<>>, Head(todo)[1] # "save"
  PROVE  /\ result = "none" /\ document # NoElement
         /\ \E rest, s, u, t : Follows(todo, rest, s, u, t)
<1>1. /\ result = "none" /\ document # NoElement
      /\ WillRun(model, Allowed, todo, elements, elementStack, hasError)
  BY DEF IInv, CallsInv
<1>2. Save[1] = "save"
  BY DEF Save
<1>3. Head(todo) # Save
  BY <1>2
<1>4. \/ Head(todo) = Save /\ Tail(todo) = <<>>
      \/ \E rest, s, u, t :
           /\ Turns(model, Allowed, Head(todo), s, u) /\ Runs(model, Allowed, rest, u, t)
           /\ Tail(todo) = rest \o <<Save>>
           /\ ~hasError => s = OpenItems(elements, elementStack)
  BY <1>1, NextTurn
<1>5. QED
  BY <1>1, <1>3, <1>4 DEF Follows

LEMMA RestWillRun ==
  ASSUME NEW m, NEW A, NEW rest, NEW u, NEW t, NEW es, NEW stack, NEW error,
         Runs(m, A, rest, u, t), ~error => u = OpenItems(es, stack)
  PROVE  WillRun(m, A, rest \o <<Save>>, es, stack, error)
  BY Zenon DEF WillRun

(* What a call does with the stack.                                        *)
LEMMA TurnsOf ==
  ASSUME NEW m, NEW A, NEW c, NEW s, NEW t, Turns(m, A, c, s, t)
  PROVE  /\ Within(s) /\ t \in Stacks
         /\ c[1] = "start" => /\ c[4] \in Nat /\ c[3] \in A
                              /\ Fits(m, c[2], c[4], Last(s).inside)
                              /\ t = Under(s, c[4])
         /\ c[1] = "end" => t = Front(s) /\ t # <<>>
         /\ c[1] = "content" => /\ t = s
                                /\ c[2] = "gml:id" /\ Last(s).of # CityModelNode
                                     => c[3] = Last(s).of
         /\ c[1] = "object" => /\ t = s /\ c[2] \in DOMAIN m.type
                               /\ Last(s).inside \in OwnersIn(m, c[2])
         /\ c[1] = "geometry" => /\ t = s /\ c[2] \in DOMAIN m.parts
                                 /\ Last(s).inside \in OwnersIn(m, c[2])
         /\ c[1] # "save"
  BY DEF Turns, Within

LEMMA SerializeObjectInv ==
  ASSUME IInv, SerializeObject
  PROVE  CallsInv'
<1> DEFINE c == Head(todo)
           calls == ObjectCalls(c[2], c[3])
<1>1. /\ todo # <<>> /\ c[1] = "object" /\ todo' = calls \o Tail(todo)
      /\ UNCHANGED <<elements, document, elementStack, hasError, model, namespaces, result>>
  BY DEF SerializeObject, NextCall, writerVars
<1>2. result = "none" /\ document # NoElement
  BY <1>1, NextFollows
<1>3. PICK rest, s, u, t : Follows(todo, rest, s, u, t)
  BY <1>1, NextFollows
<1>4. /\ Turns(model, Allowed, c, s, u) /\ Runs(model, Allowed, rest, u, t)
      /\ Tail(todo) = rest \o <<Save>>
      /\ ~hasError => s = OpenItems(elements, elementStack)
  BY <1>3 DEF Follows
<1>5. /\ Within(s) /\ u = s /\ c[2] \in DOMAIN model.type
      /\ Last(s).inside \in OwnersIn(model, c[2])
  BY <1>1, <1>4, TurnsOf
<1>6. WellFormed(model)
  BY CityModelsAssumption DEF IInv, CallsInv
<1>7. Stays(model, Allowed, calls, s)
  BY <1>5, <1>6, AllowedAllows, ObjectCallsStay
<1> HIDE DEF c, calls
<1>8. WillRun(model, Allowed, calls \o (rest \o <<Save>>), elements, elementStack, hasError)
  BY <1>4, <1>5, <1>7, WillRunMore
<1>9. WillRun(model, Allowed, todo', elements, elementStack', hasError')
  BY <1>1, <1>4, <1>8, Zenon
<1>10. result' = "true" => Writable'
  BY <1>1, <1>2
<1>11. QED
  BY <1>1, <1>2, <1>9, <1>10, NothingAdded

LEMMA SerializeGeometryInv ==
  ASSUME IInv, SerializeGeometry
  PROVE  CallsInv'
<1> DEFINE c == Head(todo)
           calls == GeometryCalls(c[2])
<1>1. /\ todo # <<>> /\ c[1] = "geometry" /\ todo' = calls \o Tail(todo)
      /\ UNCHANGED <<elements, document, elementStack, hasError, model, namespaces, result>>
  BY DEF SerializeGeometry, NextCall, writerVars
<1>2. result = "none" /\ document # NoElement
  BY <1>1, NextFollows
<1>3. PICK rest, s, u, t : Follows(todo, rest, s, u, t)
  BY <1>1, NextFollows
<1>4. /\ Turns(model, Allowed, c, s, u) /\ Runs(model, Allowed, rest, u, t)
      /\ Tail(todo) = rest \o <<Save>>
      /\ ~hasError => s = OpenItems(elements, elementStack)
  BY <1>3 DEF Follows
<1>5. /\ Within(s) /\ u = s /\ c[2] \in DOMAIN model.parts
      /\ Last(s).inside \in OwnersIn(model, c[2])
  BY <1>1, <1>4, TurnsOf
<1>6. WellFormed(model) /\ Named(Allowed)
  BY CityModelsAssumption, AllowedAllows DEF IInv, CallsInv, Allows
<1>7. Stays(model, Allowed, calls, s)
  BY <1>5, <1>6, GeometryCallsStay
<1> HIDE DEF c, calls
<1>8. WillRun(model, Allowed, calls \o (rest \o <<Save>>), elements, elementStack, hasError)
  BY <1>4, <1>5, <1>7, WillRunMore
<1>9. WillRun(model, Allowed, todo', elements, elementStack', hasError')
  BY <1>1, <1>4, <1>8, Zenon
<1>10. result' = "true" => Writable'
  BY <1>1, <1>2
<1>11. QED
  BY <1>1, <1>2, <1>9, <1>10, NothingAdded

(* A call that does nothing once the latch is set.                         *)
LEMMA LatchedInv ==
  ASSUME IInv, todo # <<>>, Head(todo)[1] # "save", todo' = Tail(todo), hasError',
         UNCHANGED <<elements, document, elementStack, model, namespaces, result>>
  PROVE  CallsInv'
<1>1. result = "none" /\ document # NoElement
  BY NextFollows
<1>2. PICK rest, s, u, t : Follows(todo, rest, s, u, t)
  BY NextFollows
<1>3. Runs(model, Allowed, rest, u, t) /\ todo' = rest \o <<Save>>
  BY <1>2 DEF Follows
<1>4. WillRun(model, Allowed, rest \o <<Save>>, elements, elementStack', hasError')
  BY <1>3, RestWillRun
<1>5. WillRun(model, Allowed, todo', elements, elementStack', hasError')
  BY <1>3, <1>4, Zenon
<1>6. QED
  BY <1>1, <1>5, NothingAdded

(* Where the writer is when no call has failed.                            *)
LEMMA OpenItemsNow ==
  ASSUME IInv
  PROVE  LET s == OpenItems(elements, elementStack)
         IN  Within(s) => /\ elementStack # <<>> /\ currentElement \in 1..Len(elements)
                          /\ currentElement = Last(elementStack)
                          /\ Last(s).of = elements[currentElement].of
                          /\ Last(s).inside = AroundOf(Around(elements), elements, currentElement)
<1> DEFINE s == OpenItems(elements, elementStack)
<1> SUFFICES ASSUME Within(s)
             PROVE  /\ elementStack # <<>> /\ currentElement \in 1..Len(elements)
                    /\ currentElement = Last(elementStack)
                    /\ Last(s).of = elements[currentElement].of
                    /\ Last(s).inside = AroundOf(Around(elements), elements, currentElement)
  OBVIOUS
<1>1. /\ Tree(elements) /\ elementStack \in Seq(1..Len(elements))
      /\ elementStack # <<>> => /\ currentElement = Last(elementStack)
                                /\ currentElement \in 1..Len(elements)
  BY WriterTree DEF IInv
<1>2. \A e \in 1..Len(elements) : elements[e].of \in Nat
  BY DEF IInv, CallsInv, ElementsFit
<1>3. s \in Stacks /\ Len(s) = Len(elementStack)
  BY <1>1, <1>2, OpenItemsTyped
<1>4. elementStack # <<>>
  <2> HIDE DEF s
  <2>1. s \in Seq(Item) /\ s # <<>>
    BY <1>3 DEF Within, Stacks
  <2>2. Len(s) # 0
    BY <2>1
  <2>3. QED
    BY <1>3, <2>2
<1>5. Last(s) = ItemOf(elements, currentElement)
  BY <1>1, <1>4, OpenItemsLast
<1>6. currentElement # NoElement
  BY <1>1, <1>4 DEF NoElement
<1> HIDE DEF s
<1>7. QED
  BY <1>1, <1>4, <1>5, <1>6 DEF ItemOf, AroundOf

(* startElement: the new element lies in what holds its part of the model. *)
LEMMA WriteStartInv ==
  ASSUME IInv, WriterInv', WriteStart
  PROVE  CallsInv'
<1> DEFINE c == Head(todo)
           x == Element(c[2], c[3], c[4], currentElement)
           n == Len(elements)
<1>1. /\ todo # <<>> /\ c[1] = "start" /\ todo' = Tail(todo)
      /\ startElement(c[2], c[3], c[4])
      /\ UNCHANGED <<model, namespaces, result>>
  BY DEF WriteStart, NextCall
<1>2. result = "none" /\ document # NoElement
  BY <1>1, NextFollows
<1>3. CASE /\ ~hasError
           /\ elements' = Append(elements, x)
           /\ elementStack' = Append(elementStack, n + 1)
           /\ UNCHANGED <<document, hasError>>
  <2>1. PICK rest, s, u, t : Follows(todo, rest, s, u, t)
    BY <1>1, NextFollows
  <2>2. /\ Turns(model, Allowed, c, s, u) /\ Runs(model, Allowed, rest, u, t)
        /\ Tail(todo) = rest \o <<Save>> /\ s = OpenItems(elements, elementStack)
    BY <1>3, <2>1 DEF Follows
  <2>3. /\ Within(s) /\ c[4] \in Nat /\ c[3] \in Allowed
        /\ Fits(model, c[2], c[4], Last(s).inside) /\ u = Under(s, c[4])
    BY <1>1, <2>2, TurnsOf
  <2>4. /\ x.name = c[2] /\ x.namespace = c[3] /\ x.of = c[4] /\ x.parent = currentElement
        /\ x.content = {} /\ x.declared = (c[3] \in namespaces)
    BY DEF Element
  <2> HIDE DEF c, x
  <2>5. /\ currentElement \in 1..n
        /\ Last(s).inside = AroundOf(Around(elements), elements, currentElement)
    BY <2>2, <2>3, OpenItemsNow
  <2>6. /\ Tree(elements) /\ n \in Nat /\ elements \in Seq(Parts)
        /\ elementStack \in Seq(1..n)
    BY WriterTree DEF IInv
  <2>7. Tree(elements')
    <3>1. Len(elements') \in Nat
      BY DEF WriterInv, ElementsAreRecords
    <3>2. QED
      BY <3>1 DEF WriterInv, ParentsBefore, Tree
  <2>8. Adds(elements, elements', x)
    <3>1. /\ Len(elements') = n + 1 /\ (\A e \in 1..n : elements'[e] = elements[e])
          /\ elements'[n + 1] = x
      BY <1>3, <2>6, AppendedAny
    <3>2. currentElement \in 0..n
      BY <2>5, <2>6
    <3>3. x.of \in Nat /\ x.parent \in 0..n /\ x.content = {}
      BY <2>3, <2>4, <3>2, Zenon
    <3>4. QED
      BY <2>6, <2>7, <3>1, <3>3, Zenon DEF Adds
  <2>9. ElementsFit(elements, model) /\ ElementsNamed(elements, Allowed, Declared)
    BY DEF IInv, CallsInv
  <2>10. Fits(model, x.name, x.of, AroundOf(Around(elements), elements, x.parent))
    BY <2>3, <2>4, <2>5
  <2>11. /\ ElementsFit(elements', model)
         /\ OpenItems(elements', Append(elementStack, n + 1)) =
              Append(s, Inner(x.of, [inside |-> Last(s).inside]))
    <3>1. AroundOf(Around(elements), elements, x.parent) = Last(s).inside
      BY <2>4, <2>5
    <3>2. QED
      BY <2>2, <2>6, <2>8, <2>9, <2>10, <3>1, AddedFits
  <2>12. u = OpenItems(elements', elementStack')
    <3>1. Inner(x.of, [inside |-> Last(s).inside]) = Inner(c[4], Last(s))
      BY <2>4 DEF Inner
    <3>2. QED
      BY <1>3, <2>3, <2>11, <3>1 DEF Under
  <2>13. ElementsNamed(elements', Allowed, Declared)
    <3>1. c[3] \in Declared => x.declared
      BY <1>2, <2>4 DEF IInv, CallsInv
    <3>2. QED
      BY <2>3, <2>4, <2>8, <2>9, <3>1, AddedNamed
  <2>14. WillRun(model, Allowed, rest \o <<Save>>, elements', elementStack', hasError')
    BY <2>2, <2>12, RestWillRun
  <2>15. WillRun(model, Allowed, todo', elements', elementStack', hasError')
    BY <1>1, <2>2, <2>14, Zenon
  <2>16. CallsAfter
    <3>1. Declared \subseteq namespaces' /\ result' = "none" /\ document' # NoElement
      BY <1>1, <1>2, <1>3 DEF IInv, CallsInv
    <3>2. QED
      BY <2>11, <2>13, <2>15, <3>1 DEF CallsAfter
  <2>17. QED
    BY <1>1, <2>16, CallsKept
<1>4. CASE hasError' /\ UNCHANGED <<elements, document, elementStack>>
  BY <1>1, <1>4, LatchedInv
<1>5. QED
  BY <1>1, <1>2, <1>3, <1>4 DEF startElement, Writable, Fails, Returns

(* endElement: the writer is back in the element around the one that ends. *)
LEMMA WriteEndInv ==
  ASSUME IInv, WriteEnd
  PROVE  CallsInv'
<1> DEFINE c == Head(todo)
<1>1. /\ todo # <<>> /\ c[1] = "end" /\ todo' = Tail(todo) /\ endElement
      /\ UNCHANGED <<model, namespaces, result>>
  BY DEF WriteEnd, NextCall
<1>2. result = "none" /\ document # NoElement
  BY <1>1, NextFollows
<1>3. CASE ~hasError
  <2>1. PICK rest, s, u, t : Follows(todo, rest, s, u, t)
    BY <1>1, NextFollows
  <2>2. /\ Turns(model, Allowed, c, s, u) /\ Runs(model, Allowed, rest, u, t)
        /\ Tail(todo) = rest \o <<Save>> /\ s = OpenItems(elements, elementStack)
    BY <1>3, <2>1 DEF Follows
  <2>3. Within(s) /\ u = Front(s)
    BY <1>1, <2>2, TurnsOf
  <2> HIDE DEF c
  <2>4. elementStack # <<>>
    BY <2>2, <2>3, OpenItemsNow
  <2>5. elementStack' = Front(elementStack) /\ UNCHANGED <<elements, document, hasError>>
    BY <1>1, <1>3, <2>4 DEF endElement
  <2>6. u = OpenItems(elements, elementStack')
    <3>1. Tree(elements) /\ elementStack \in Seq(1..Len(elements))
      BY WriterTree DEF IInv
    <3>2. \A e \in 1..Len(elements) : elements[e].of \in Nat
      BY DEF IInv, CallsInv, ElementsFit
    <3>3. OpenItems(elements, Front(elementStack)) = Front(OpenItems(elements, elementStack))
      BY <2>4, <3>1, <3>2, OpenItemsFront
    <3>4. QED
      BY <2>2, <2>3, <2>5, <3>3
  <2>7. WillRun(model, Allowed, rest \o <<Save>>, elements, elementStack', hasError')
    BY <2>2, <2>6, RestWillRun
  <2>8. WillRun(model, Allowed, todo', elements, elementStack', hasError')
    BY <1>1, <2>2, <2>7, Zenon
  <2>9. ~hasError' /\ UNCHANGED <<elements, document, model, namespaces, result>>
    BY <1>1, <1>3, <2>5
  <2>10. QED
    BY <1>2, <2>8, <2>9, NothingAdded
<1>4. CASE hasError
  <2>1. hasError' /\ UNCHANGED <<elements, document, elementStack>>
    BY <1>1, <1>4 DEF endElement, Returns
  <2>2. QED
    BY <1>1, <2>1, LatchedInv
<1>5. QED
  BY <1>3, <1>4

(* writeAttribute, writeTextContent: an id is that of the open element.    *)
LEMMA WriteContentInv ==
  ASSUME IInv, WriterInv', WriteContent
  PROVE  CallsInv'
<1> DEFINE c == Head(todo)
           new == {d \in elements[currentElement].content : d[1] # c[2] \/ c[2] = "text"}
                  \cup {<<c[2], c[3]>>}
           n == Len(elements)
<1>1. /\ todo # <<>> /\ c[1] = "content" /\ todo' = Tail(todo)
      /\ writeContent(c[2], c[3])
      /\ UNCHANGED <<model, namespaces, result>>
  BY DEF WriteContent, NextCall
<1>2. result = "none" /\ document # NoElement
  BY <1>1, NextFollows
<1>3. CASE /\ ~hasError
           /\ elements' = [elements EXCEPT ![currentElement].content = new]
           /\ UNCHANGED <<document, elementStack, hasError>>
  <2>1. PICK rest, s, u, t : Follows(todo, rest, s, u, t)
    BY <1>1, NextFollows
  <2>2. /\ Turns(model, Allowed, c, s, u) /\ Runs(model, Allowed, rest, u, t)
        /\ Tail(todo) = rest \o <<Save>> /\ s = OpenItems(elements, elementStack)
    BY <1>3, <2>1 DEF Follows
  <2>3. /\ Within(s) /\ u = s
        /\ c[2] = "gml:id" /\ Last(s).of # CityModelNode => c[3] = Last(s).of
    BY <1>1, <2>2, TurnsOf
  <2> HIDE DEF c
  <2>4. currentElement \in 1..n /\ Last(s).of = elements[currentElement].of
    BY <2>2, <2>3, OpenItemsNow
  <2>5. /\ Tree(elements) /\ n \in Nat /\ elements \in Seq(Parts)
        /\ elementStack \in Seq(1..n)
        /\ \A e \in 1..n : DOMAIN elements[e] = Fields
    BY WriterTree DEF IInv, WriterInv, ElementsAreRecords
  <2>6. Tree(elements')
    <3>1. Len(elements') \in Nat
      BY DEF WriterInv, ElementsAreRecords
    <3>2. QED
      BY <3>1 DEF WriterInv, ParentsBefore, Tree
  <2>7. Fills(elements, elements', currentElement, c[2], c[3])
    <3>1. DOMAIN elements = 1..n
      BY <2>5
    <3>2. elements' = [e \in 1..n |-> IF e = currentElement
                                      THEN [elements[e] EXCEPT !.content = new] ELSE elements[e]]
      BY <1>3, <2>4, <3>1
    <3>3. Len(elements') = n
      BY <2>5, <3>2
    <3>4. ASSUME NEW e \in 1..n
          PROVE  /\ elements'[e].name = elements[e].name
                 /\ elements'[e].namespace = elements[e].namespace
                 /\ elements'[e].declared = elements[e].declared
                 /\ elements'[e].of = elements[e].of
                 /\ elements'[e].parent = elements[e].parent
                 /\ elements'[e].content = IF e = currentElement THEN new ELSE elements[e].content
      <4> HIDE DEF new
      <4>1. DOMAIN elements[e] = Fields
        BY <2>5
      <4>2. elements'[e] = IF e = currentElement THEN [elements[e] EXCEPT !.content = new]
                           ELSE elements[e]
        BY <3>2
      <4>3. QED
        BY <4>1, <4>2 DEF Fields
    <3>5. QED
      BY <2>4, <2>5, <2>6, <3>3, <3>4 DEF Fills
  <2>8. ElementsFit(elements, model) /\ ElementsNamed(elements, Allowed, Declared)
    BY DEF IInv, CallsInv
  <2>9. c[2] = "gml:id" /\ elements[currentElement].of # CityModelNode
          => c[3] = elements[currentElement].of
    BY <2>3, <2>4
  <2> HIDE DEF new, n
  <2>10. /\ ElementsFit(elements', model)
         /\ OpenItems(elements', elementStack) = OpenItems(elements, elementStack)
    BY <2>5, <2>7, <2>8, <2>9, FilledFits DEF n
  <2>11. ElementsNamed(elements', Allowed, Declared)
    BY <2>7, <2>8 DEF Fills, ElementsNamed
  <2>12. WillRun(model, Allowed, rest \o <<Save>>, elements', elementStack', hasError')
    BY <1>3, <2>2, <2>3, <2>10, RestWillRun
  <2>13. WillRun(model, Allowed, todo', elements', elementStack', hasError')
    BY <1>1, <2>2, <2>12, Zenon
  <2>14. CallsAfter
    <3>1. Declared \subseteq namespaces' /\ result' = "none" /\ document' # NoElement
      BY <1>1, <1>2, <1>3 DEF IInv, CallsInv
    <3>2. QED
      BY <2>10, <2>11, <2>13, <3>1 DEF CallsAfter
  <2>15. QED
    BY <1>1, <2>14, CallsKept
<1>4. CASE hasError' /\ UNCHANGED <<elements, document, elementStack>>
  BY <1>1, <1>4, LatchedInv
<1>5. CASE ~hasError /\ currentElement = NoElement
  <2>1. PICK rest, s, u, t : Follows(todo, rest, s, u, t)
    BY <1>1, NextFollows
  <2>2. Turns(model, Allowed, c, s, u) /\ s = OpenItems(elements, elementStack)
    BY <1>5, <2>1 DEF Follows
  <2>3. Within(s)
    BY <2>2, TurnsOf
  <2>4. currentElement \in 1..n
    BY <2>2, <2>3, OpenItemsNow
  <2>5. QED
    BY <1>5, <2>4 DEF NoElement
<1>6. QED
  <2>1. \/ /\ ~hasError
           /\ elements' = [elements EXCEPT ![currentElement].content = new]
           /\ UNCHANGED <<document, elementStack, hasError>>
        \/ hasError' /\ UNCHANGED <<elements, document, elementStack>>
        \/ ~hasError /\ currentElement = NoElement
    BY <1>1 DEF writeContent, Fails, Returns, new
  <2>2. QED
    BY <1>3, <1>4, <1>5, <2>1

(* saveToFile, saveToStream: nothing is left to write.                     *)
LEMMA SaveDocumentInv ==
  ASSUME IInv, SaveDocument
  PROVE  CallsInv'
<1>1. /\ todo # <<>> /\ Head(todo)[1] = "save" /\ todo' = Tail(todo)
      /\ UNCHANGED <<elements, document, elementStack, model, namespaces>>
  BY DEF SaveDocument, NextCall, Fails, Returns
<1>2. result' = "true" => Writable'
  BY DEF SaveDocument, Writable, Returns
<1>3. WillRun(model, Allowed, todo, elements, elementStack, hasError)
  BY <1>1 DEF IInv, CallsInv
<1>4. \/ Head(todo) = Save /\ Tail(todo) = <<>>
      \/ \E rest, s, u, t :
           /\ Turns(model, Allowed, Head(todo), s, u) /\ Runs(model, Allowed, rest, u, t)
           /\ Tail(todo) = rest \o <<Save>>
           /\ ~hasError => s = OpenItems(elements, elementStack)
  BY <1>3, NextTurn
<1>5. todo' = <<>>
  BY <1>1, <1>4, TurnsOf
<1>6. QED
  BY <1>1, <1>2, <1>5, NothingAdded

LEMMA StepIInv ==
  ASSUME IInv, [Next]_vars
  PROVE  IInv'
<1> USE DEF IInv
<1>1. CASE Serialize
  <2>1. CallerInv'
    BY <1>1, MaxDocumentsAssumption DEF Serialize, CallerInv
  <2>2. WriterInv'
    <3>1. hasError \in BOOLEAN
      BY DEF WriterInv, WriterTypeOK
    <3>2. CASE Fails \/ Returns
      BY <3>2, FailsInv, ReturnsInv
    <3>3. CASE createDocument("CityModel") \/ DeclarationsFail("CityModel")
      BY <3>1, <3>3, NewDocumentInv DEF createDocument, DeclarationsFail
    <3>4. QED
      BY <1>1, <3>2, <3>3 DEF Serialize
  <2>3. QED
    BY <1>1, <2>1, <2>2, SerializeInv
<1>2. CASE SerializeObject \/ SerializeGeometry \/ UNCHANGED vars
  <2>1. UNCHANGED <<elements, document, currentElement, elementStack, hasError,
                    documents, result, file>>
    BY <1>2 DEF SerializeObject, SerializeGeometry, NextCall, vars, writerVars
  <2>2. WriterInv' /\ CallerInv'
    BY <2>1, WriterStays DEF CallerInv, WriterInv, WriterTypeOK
  <2>3. CASE UNCHANGED vars
    <3>1. UNCHANGED <<elements, document, elementStack, hasError, model, namespaces, result, todo>>
      BY <2>3 DEF vars, writerVars
    <3>2. result' = "true" => Writable'
      BY <3>1 DEF CallsInv, Writable
    <3>3. todo' # <<>> =>
            /\ result' = "none" /\ document' # NoElement
            /\ WillRun(model, Allowed, todo', elements, elementStack', hasError')
      BY <3>1, Zenon DEF CallsInv
    <3>4. CallsInv'
      BY <3>1, <3>2, <3>3, NothingAdded
    <3>5. QED
      BY <2>2, <3>4
  <2>4. QED
    BY <1>2, <2>2, <2>3, SerializeObjectInv, SerializeGeometryInv
<1>3. CASE WriteStart
  <2>1. CallerInv'
    BY <1>3 DEF WriteStart, NextCall, CallerInv
  <2>2. WriterInv'
    BY <1>3, startElementInv DEF WriteStart
  <2>3. QED
    BY <1>3, <2>1, <2>2, WriteStartInv
<1>4. CASE WriteEnd
  <2>1. CallerInv'
    BY <1>4 DEF WriteEnd, NextCall, CallerInv
  <2>2. WriterInv'
    BY <1>4, endElementInv DEF WriteEnd
  <2>3. QED
    BY <1>4, <2>1, <2>2, WriteEndInv
<1>5. CASE WriteContent
  <2>1. CallerInv'
    BY <1>5 DEF WriteContent, NextCall, CallerInv
  <2>2. WriterInv'
    BY <1>5, writeContentInv DEF WriteContent
  <2>3. QED
    BY <1>5, <2>1, <2>2, WriteContentInv
<1>6. CASE SaveDocument
  <2>1. CallerInv'
    BY <1>6 DEF SaveDocument, NextCall, CallerInv
  <2>2. WriterInv'
    BY <1>6, FailsInv, ReturnsInv DEF SaveDocument
  <2>3. QED
    BY <1>6, <2>1, <2>2, SaveDocumentInv
<1>7. QED
  BY <1>1, <1>2, <1>3, <1>4, <1>5, <1>6 DEF Next

LEMMA Invariance == Spec => []IInv
<1>1. IInv /\ [Next]_vars => IInv'
  BY StepIInv
<1>2. QED
  BY <1>1, InitIInv, PTL DEF Spec

(* The state of the writer and of its caller keeps its types, and parents  *)
(* are made before their children: a document is a tree.                   *)
THEOREM TypeCorrect == Spec => []TypeOK
<1>1. IInv => TypeOK
  BY DEF IInv, WriterInv, CallerInv, WriterTypeOK, ParentsBefore, TypeOK
<1>2. QED
  BY <1>1, Invariance, PTL

(* For every city model, and whichever calls of the writer fail, the open  *)
(* elements lie in each other and the current one is the innermost         *)
(* (XMLWriter::startElement, endElement, createDocument).                  *)
THEOREM OpenElementsStayNested == Spec => []OpenElementsNested
<1>1. IInv => OpenElementsNested
  BY DEF IInv, WriterInv
<1>2. QED
  BY <1>1, Invariance, PTL

(* Every element that is for a part of the model lies in what holds that   *)
(* part, and its gml:id is the part's, whatever fails: each serialize      *)
(* function leaves the writer where it found it, for every city model that *)
(* is well formed (CityObjectSerializer, GeometrySerializer).              *)
THEOREM ElementsPlacedInOwner == Spec => []PlacedInOwner
<1>1. Surrounding = Around(elements)
  BY DEF Surrounding, Around, Surrounds, AroundOf
<1>2. \A x : Owners(x) = OwnersIn(model, x)
  BY DEF Owners, OwnersIn, Geometries
<1>3. IInv => PlacedInOwner
  <2> SUFFICES ASSUME IInv PROVE PlacedInOwner
    OBVIOUS
  <2>1. ElementsFit(elements, model)
    BY DEF IInv, CallsInv
  <2>2. QED
    BY <1>1, <1>2, <2>1 DEF ElementsFit, Fits, PlacedInOwner
<1>4. QED
  BY <1>3, Invariance, PTL

(* In a document that was saved, every element has a prefix that is        *)
(* declared at the root (collectUsedTypes, setupNamespaces), but for those *)
(* whose namespace is written as it is and those of attributes.            *)
THEOREM SavedPrefixesDeclared == Spec => []PrefixesDeclared
<1>1. IInv => PrefixesDeclared
  <2> SUFFICES ASSUME IInv, result = "true", ModulesCover, NEW e \in InDocument
               PROVE  elements[e].namespace \in {"", "uri"} \/ elements[e].declared
    BY DEF PrefixesDeclared
  <2>0. document # NoElement
    BY DEF IInv, CallsInv, Writable
  <2>1. ElementsNamed(elements, Allowed, Declared)
    BY DEF IInv, CallsInv
  <2>2. e \in 1..Len(elements)
    BY <2>0, WriterTree DEF NoElement, IInv, InDocument, WriterInv, WriterTypeOK
  <2>3. QED
    BY <2>1, <2>2, AllowedIfCovered DEF ElementsNamed
<1>2. QED
  BY <1>1, Invariance, PTL

(* Once a call of the writer has failed, no later one adds anything to a   *)
(* document that was begun and no save reports success (m_hasError).       *)
LEMMA LatchedStep ==
  ASSUME IInv, IInv', Next, hasError
  PROVE  /\ hasError'
         /\ result' # "true"
         /\ \A e \in (Len(elements) + 1)..Len(elements') : elements'[e].parent = NoElement
<1>1. hasError'
  BY DEF Next, Serialize, SerializeObject, SerializeGeometry, WriteStart, WriteEnd, WriteContent,
         SaveDocument, createDocument, DeclarationsFail, startElement, endElement, writeContent,
         Writable, Fails, Returns, writerVars
<1>2. result' # "true"
  BY <1>1 DEF IInv, CallsInv, Writable
<1>3. Len(elements) \in Nat /\ elements \in Seq(Parts)
  BY WriterTree DEF IInv
<1>4. CASE UNCHANGED elements
  <2>1. (Len(elements) + 1)..Len(elements') = {}
    BY <1>3, <1>4
  <2>2. QED
    BY <1>1, <1>2, <2>1
<1>5. CASE NewDocument("CityModel")
  <2> DEFINE x == Element("CityModel", "", 0, NoElement)
  <2>1. elements' = Append(elements, x) /\ x.parent = NoElement
    BY <1>5 DEF NewDocument, Element
  <2> HIDE DEF x
  <2>2. Len(elements') = Len(elements) + 1 /\ elements'[Len(elements) + 1] = x
    BY <1>3, <2>1, AppendedAny
  <2>3. \A e \in (Len(elements) + 1)..Len(elements') : e = Len(elements) + 1
    BY <1>3, <2>2
  <2>4. QED
    BY <1>1, <1>2, <2>1, <2>2, <2>3
<1>6. UNCHANGED elements \/ NewDocument("CityModel")
  BY DEF Next, Serialize, createDocument, DeclarationsFail, SerializeObject, SerializeGeometry,
         WriteStart, WriteEnd, WriteContent, SaveDocument, startElement, endElement, writeContent,
         Writable, Fails, Returns, writerVars
<1>7. QED
  BY <1>4, <1>5, <1>6

THEOREM WritingStopped == Spec => ErrorStopsWriting
<1>1. IInv /\ IInv' /\ [Next]_vars =>
        [hasError =>
           /\ hasError'
           /\ result' # "true"
           /\ \A e \in (Len(elements) + 1)..Len(elements') : elements'[e].parent = NoElement]_vars
  BY LatchedStep
<1>2. QED
  BY <1>1, Invariance, PTL DEF Spec, ErrorStopsWriting
=============================================================================
