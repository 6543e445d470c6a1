------------------------ MODULE DocumentParser_proofs ------------------------
(***************************************************************************)
(* Proofs about DocumentParser: the type invariant and the bookkeeping of  *)
(* skipped elements, for every table of element parsers; the parser stack  *)
(* that stays aligned with the open elements, for every table that is      *)
(* WellBehaved; and the parser in charge of an element, which implements   *)
(* ElementOwnership.                                                       *)
(***************************************************************************)
EXTENDS DocumentParser, SequenceLemmas

-----------------------------------------------------------------------------
(* Sequences.                                                              *)

-----------------------------------------------------------------------------
(* Types.                                                                  *)

(* The parser a reaction asks for.                                         *)
LEMMA InstantiateType ==
  ASSUME NEW t \in Template, NEW pos \in Nat
  PROVE  Instantiate(t, pos) \in Parser
<1>1. /\ t.type \in ParserType /\ t.kinds \in Seq(Kind) /\ t.bound \in Node \cup {NoNode}
      /\ t.type \in {"element", "sequence"} => t.kinds # <<>>
  BY DEF Template
<1>2. QED
  BY <1>1 DEF Instantiate, Parser

(* An element parser that is bound to its element.                         *)
LEMMA ElementType ==
  ASSUME NEW k \in Kind, NEW node \in Node \cup {NoNode}, NEW pos \in Nat
  PROVE  Element(k, node, pos) \in Parser
<1> DEFINE ks == <<k>>
<1>1. ks \in Seq(Kind) /\ ks # <<>>
  OBVIOUS
<1>2. Element(k, node, pos) =
        [type |-> "element", kinds |-> ks, bound |-> node, depth |-> 0, at |-> pos]
  BY DEF Element
<1> HIDE DEF ks
<1>3. QED
  BY <1>1, <1>2 DEF Parser, ParserType

(* Making the parser a reaction asks for the current one.                  *)
LEMMA PushType ==
  ASSUME NEW s \in Seq(Parser), NEW r \in Reaction, NEW pos \in Nat
  PROVE  setParserForNextElement(s, r, pos) \in Seq(Parser)
<1>1. CASE r.push = <<>>
  BY <1>1 DEF setParserForNextElement
<1>2. CASE r.push # <<>>
  <2>1. r.push \in Seq(Template)
    BY DEF Reaction
  <2>2. r.push[1] \in Template
    BY <2>1, <1>2, EmptySeq, ElementOfSeq, LenProperties
  <2>3. QED
    BY <2>2, <1>2, InstantiateType, AppendLast DEF setParserForNextElement
<1>3. QED
  BY <1>1, <1>2

(* The skipped element as the document parser remembers it.                *)
SkipRecord == [on : BOOLEAN, name : Name \cup {NoName}, depth : Nat \cup {-1}, at : Nat]

SkipTypeOK ==
  /\ skip \in SkipRecord
  /\ skip.on => skip.depth \in Nat

(* What every outcome of a start tag leaves behind.                        *)
StartTypes ==
  /\ stack' \in Seq(Parser)
  /\ SkipTypeOK'
  /\ status' \in {"parsing", "aborted"}

(* Types after an accepted start tag.                                      *)
LEMMA AcceptedTypes ==
  ASSUME TypeOK, NEW s \in Seq(Parser), Accepted(s)
  PROVE  StartTypes
  BY DEF TypeOK, Accepted, StartTypes, SkipTypeOK, SkipRecord

(* Types after an unexpected start tag.                                    *)
LEMMA UnexpectedTypes ==
  ASSUME TypeOK, NEW s \in Seq(Parser), NEW n \in Name, Unexpected(s, n)
  PROVE  StartTypes
<1>1. Len(open) + 1 \in Nat
  BY LenProperties DEF TypeOK
<1>2. QED
  BY <1>1 DEF TypeOK, Unexpected, StartTypes, SkipTypeOK, SkipRecord

(* Types after an exception.                                               *)
LEMMA ThrownTypes ==
  ASSUME TypeOK, Thrown
  PROVE  StartTypes
  BY DEF TypeOK, Thrown, StartTypes, SkipTypeOK, SkipRecord

(* Types after an element parser was bound or refused its element.         *)
LEMMA BindTypes ==
  ASSUME TypeOK, NEW s \in Seq(Parser), NEW k \in Kind, NEW n \in Name, Bind(s, k, n)
  PROVE  StartTypes
<1>1. CASE NodeOf[n] \in Binds[k]
  <2>1. NodeOf[n] \in Node \cup {NoNode}
    BY TablesAssumption DEF TablesAssumption
  <2>2. Len(open) + 1 \in Nat
    BY LenProperties DEF TypeOK
  <2>3. Append(s, Element(k, NodeOf[n], Len(open) + 1)) \in Seq(Parser)
    BY <2>1, <2>2, ElementType, AppendLast
  <2>4. QED
    BY <1>1, <2>3, AcceptedTypes DEF Bind
<1>2. CASE NodeOf[n] \notin Binds[k]
  BY <1>2, ThrownTypes DEF Bind
<1>3. QED
  BY <1>1, <1>2

(* The parser on top is a parser of known kinds.                           *)
LEMMA TopTypes ==
  ASSUME NEW s \in Seq(Parser), s # <<>>
  PROVE  /\ Front(s) \in Seq(Parser)
         /\ Last(s) \in Parser
         /\ Last(s).type \in ParserType
         /\ Last(s).kinds \in Seq(Kind)
         /\ Last(s).bound \in Node \cup {NoNode}
         /\ Last(s).depth \in Int
         /\ Last(s).at \in Nat
         /\ Last(s).type \in {"element", "sequence"} => Last(s).kinds[1] \in Kind
<1>1. Front(s) \in Seq(Parser) /\ Last(s) \in Parser
  BY FrontLast
<1>2. /\ Last(s).type \in ParserType
      /\ Last(s).kinds \in Seq(Kind)
      /\ Last(s).bound \in Node \cup {NoNode}
      /\ Last(s).depth \in Int
      /\ Last(s).at \in Nat
      /\ Last(s).type \in {"element", "sequence"} => Last(s).kinds # <<>>
  BY <1>1 DEF Parser
<1>3. Last(s).kinds # <<>> => Last(s).kinds[1] \in Kind
  BY <1>2, EmptySeq, ElementOfSeq
<1>4. QED
  BY <1>1, <1>2, <1>3

(* The parser the first start tag creates.                                 *)
LEMMA RootParserType == <<RootParser>> \in Seq(Parser) /\ <<RootParser>> # <<>>
<1>1. RootParser \in Parser
  <2> DEFINE ks == <<RootKind>>
  <2>1. ks \in Seq(Kind) /\ ks # <<>>
    BY TablesAssumption DEF TablesAssumption
  <2>2. RootParser =
          [type |-> "element", kinds |-> ks, bound |-> NoNode, depth |-> 0, at |-> 0]
    BY DEF RootParser
  <2> HIDE DEF ks
  <2>3. QED
    BY <2>1, <2>2 DEF Parser, ParserType
<1>2. QED
  BY <1>1

(* The updates a skip parser makes of itself.                              *)
LEMMA SkipParserTypes ==
  ASSUME NEW p \in Parser, NEW node \in Node \cup {NoNode}, NEW d \in Int, NEW pos \in Nat
  PROVE  /\ [p EXCEPT !.bound = node, !.depth = d, !.at = pos] \in Parser
         /\ [p EXCEPT !.depth = d] \in Parser
<1>1. /\ p \in [type : ParserType, kinds : Seq(Kind), bound : Node \cup {NoNode},
               depth : Int, at : Nat]
      /\ p.type \in {"element", "sequence"} => p.kinds # <<>>
  BY DEF Parser
<1>2. [p EXCEPT !.bound = node, !.depth = d, !.at = pos] \in Parser
  BY <1>1 DEF Parser
<1>3. [p EXCEPT !.depth = d] \in Parser
  BY <1>1 DEF Parser
<1>4. QED
  BY <1>2, <1>3

(* Types after a start tag that is not skipped.                            *)
LEMMA HandledStartTypes ==
  ASSUME TypeOK, NEW n \in Name, NEW x \in BOOLEAN, HandledStart(n, x)
  PROVE  StartTypes
<1> DEFINE s == IF stack = <<>> THEN <<RootParser>> ELSE stack
<1>1. s \in Seq(Parser) /\ s # <<>>
  BY RootParserType DEF TypeOK
<1>2. /\ NodeOf[n] \in Node
      /\ Len(open) + 1 \in Nat
  BY TablesAssumption, LenProperties DEF TypeOK, TablesAssumption, HandledStart
<1>3. \/ BindUnbound(s, n)
      \/ OfferChild(s, n, x)
      \/ ResolveChoice(s, n)
      \/ NextInSequence(s, n)
      \/ SkipParserStart(s, n)
  BY DEF HandledStart
<1> HIDE DEF s
<1>4. CASE BindUnbound(s, n)
  BY <1>1, <1>4, TopTypes, BindTypes DEF BindUnbound
<1>5. CASE OfferChild(s, n, x)
  <2>1. PICK r \in ChildStart(Last(s).kinds[1], NodeOf[n], x) :
          LET after == setParserForNextElement(s, r, Len(open) + 1) IN
            \/ r.result = "accept" /\ Accepted(after)
            \/ r.result = "reject" /\ Unexpected(after, n)
            \/ r.result = "throw" /\ Thrown
    BY <1>5 DEF OfferChild
  <2>2. Last(s).kinds[1] \in Kind
    BY <1>1, <1>5, TopTypes DEF OfferChild
  <2>3. r \in Reaction
    BY <2>1, <2>2, <1>2, TablesAssumption DEF TablesAssumption
  <2>4. setParserForNextElement(s, r, Len(open) + 1) \in Seq(Parser)
    BY <2>3, <1>1, <1>2, PushType
  <2>5. QED
    BY <2>1, <2>4, AcceptedTypes, UnexpectedTypes, ThrownTypes
<1>6. CASE ResolveChoice(s, n)
  <2>1. CASE Thrown
    BY <2>1, ThrownTypes
  <2>2. CASE \E i \in 1..Len(Last(s).kinds) : Bind(Front(s), Last(s).kinds[i], n)
    <3>1. PICK i \in 1..Len(Last(s).kinds) : Bind(Front(s), Last(s).kinds[i], n)
      BY <2>2
    <3>2. Last(s).kinds[i] \in Kind /\ Front(s) \in Seq(Parser)
      BY <1>1, TopTypes, ElementOfSeq
    <3>3. QED
      BY <3>1, <3>2, BindTypes
  <2>3. QED
    BY <1>6, <2>1, <2>2 DEF ResolveChoice
<1>7. CASE NextInSequence(s, n)
  BY <1>1, <1>7, TopTypes, BindTypes DEF NextInSequence
<1>8. CASE SkipParserStart(s, n)
  <2> DEFINE p == Last(s)
             q == IF p.bound = NoNode
                  THEN [p EXCEPT !.bound = NodeOf[n], !.depth = 1, !.at = Len(open) + 1]
                  ELSE IF p.bound = NodeOf[n] THEN [p EXCEPT !.depth = @ + 1] ELSE p
  <2>1. p \in Parser /\ Front(s) \in Seq(Parser)
    BY <1>1, TopTypes
  <2>2. q \in Parser
    <3>1. p.depth + 1 \in Int
      BY <2>1 DEF Parser
    <3>2. /\ [p EXCEPT !.bound = NodeOf[n], !.depth = 1, !.at = Len(open) + 1] \in Parser
          /\ [p EXCEPT !.depth = p.depth + 1] \in Parser
      <4> HIDE DEF p
      <4>1. 1 \in Int /\ NodeOf[n] \in Node \cup {NoNode} /\ Len(open) + 1 \in Nat
        BY <1>2
      <4>2. QED
        BY ONLY <2>1, <3>1, <4>1, SkipParserTypes
    <3>3. QED
      BY <2>1, <3>2, Zenon
  <2>3. Accepted(Append(Front(s), q))
    BY <1>8 DEF SkipParserStart
  <2> HIDE DEF q
  <2>4. QED
    BY <2>1, <2>2, <2>3, AppendLast, AcceptedTypes
<1>9. QED
  BY <1>3, <1>4, <1>5, <1>6, <1>7, <1>8


(* Types after an end tag that is not skipped.                             *)
LEMMA HandledEndTypes ==
  ASSUME TypeOK, HandledEnd, open # <<>>
  PROVE  /\ stack' \in Seq(Parser)
         /\ status' \in {status, "aborted"}
         /\ delivered' \in BOOLEAN
         /\ rejected' \in BOOLEAN
         /\ skip' = skip
<1> DEFINE node == NodeOf[Last(open)]
           s == IF stack # <<>> /\ Last(stack).type = "choice" THEN Front(stack) ELSE stack
           Goal == /\ stack' \in Seq(Parser)
                   /\ status' \in {status, "aborted"}
                   /\ delivered' \in BOOLEAN
                   /\ rejected' \in BOOLEAN
                   /\ skip' = skip
<1>1. s \in Seq(Parser)
  BY TopTypes DEF TypeOK
<1>2. CASE node = NoNode \/ s = <<>>
  BY <1>2 DEF HandledEnd, TypeOK, Thrown
<1>3. CASE node # NoNode /\ s # <<>>
  <2>1. Last(open) \in Name
    BY FrontLast DEF TypeOK
  <2>2. node \in Node
    BY <1>3, <2>1, TablesAssumption DEF TablesAssumption
  <2>3. \/ CloseBound(s, node)
        \/ CloseChild(s, node)
        \/ EndUnbound(s)
        \/ EndSequence(s, node)
        \/ SkipParserEnd(s, node)
    BY <1>3 DEF HandledEnd
  <2> HIDE DEF s, node
  <2>4. Front(s) \in Seq(Parser) /\ Last(s) \in Parser
    BY <1>1, <1>3, TopTypes
  <2>5. CASE CloseBound(s, node)
    BY <2>4, <2>5 DEF CloseBound, TypeOK
  <2>6. CASE CloseChild(s, node)
    <3>1. PICK r \in ChildEnd(Last(s).kinds[1], node) :
            /\ stack' = setParserForNextElement(s, r, Len(open) - 1)
            /\ rejected' = (rejected \/ r.result = "reject")
      BY <2>6 DEF CloseChild
    <3>2. Last(s).kinds[1] \in Kind
      BY <1>1, <1>3, <2>6, TopTypes DEF CloseChild
    <3>3. r \in Reaction
      BY <3>2, <2>2, TablesAssumption DEF TablesAssumption
    <3>4. Len(open) - 1 \in Nat
      BY FrontLast DEF TypeOK
    <3>5. stack' \in Seq(Parser)
      BY <3>1, <3>3, <3>4, <1>1, PushType
    <3>6. rejected' \in BOOLEAN
      BY <3>1
    <3>7. QED
      BY <3>5, <3>6, <2>6 DEF CloseChild, TypeOK
  <2>7. CASE EndUnbound(s)
    BY <2>7 DEF EndUnbound, TypeOK
  <2>8. CASE EndSequence(s, node)
    BY <2>8, <2>4, <1>1 DEF EndSequence, TypeOK
  <2>9. CASE SkipParserEnd(s, node)
    <3>1. Last(s).depth - 1 \in Int
      BY <2>4 DEF Parser
    <3>2. [Last(s) EXCEPT !.depth = Last(s).depth - 1] \in Parser
      BY <3>1, <2>4, <2>2, SkipParserTypes, 0 \in Nat
    <3>3. Append(Front(s), [Last(s) EXCEPT !.depth = Last(s).depth - 1]) \in Seq(Parser)
      BY <3>2, <2>4, AppendLast
    <3>4. stack' \in Seq(Parser)
      BY <3>3, <2>4, <2>9, <1>1, Zenon DEF SkipParserEnd
    <3>5. QED
      BY <3>4, <2>9 DEF SkipParserEnd, TypeOK
  <2>10. QED
    BY <2>3, <2>5, <2>6, <2>7, <2>8, <2>9
<1>4. QED
  BY <1>2, <1>3

(* Types after any start tag.                                              *)
LEMMA StartElementTypes ==
  ASSUME TypeOK, NEW n \in Name, NEW x \in BOOLEAN, StartElement(n, x)
  PROVE  TypeOK'
<1>1. open' \in Seq(Name)
  BY AppendLast DEF TypeOK, StartElement
<1>2. StartTypes
  <2>1. CASE SkippedStart(n)
    BY <2>1 DEF SkippedStart, StartTypes, SkipTypeOK, SkipRecord, TypeOK
  <2>2. CASE UnknownStart(n)
    BY <2>2, UnexpectedTypes DEF UnknownStart, TypeOK
  <2>3. CASE HandledStart(n, x)
    BY <2>3, HandledStartTypes
  <2>4. QED
    BY <2>1, <2>2, <2>3 DEF StartElement
<1>3. QED
  BY <1>1, <1>2 DEF StartElement, StartTypes, SkipTypeOK, SkipRecord, TypeOK

(* Types after any end tag.                                                *)
LEMMA EndElementTypes ==
  ASSUME TypeOK, EndElement
  PROVE  TypeOK'
<1>1. open' \in Seq(Name)
  BY FrontLast DEF TypeOK, EndElement
<1>2. CASE SkippedEnd
  BY <1>1, <1>2 DEF SkippedEnd, NotSkipping, TypeOK
<1>3. CASE HandledEnd
  BY <1>1, <1>3, HandledEndTypes DEF EndElement, TypeOK
<1>4. QED
  BY <1>2, <1>3 DEF EndElement

(* Every step keeps the types.                                             *)
LEMMA TypeInductive == TypeOK /\ [Next]_vars => TypeOK'
<1> SUFFICES ASSUME TypeOK, [Next]_vars
             PROVE  TypeOK'
  OBVIOUS
<1>1. ASSUME NEW n \in Name, NEW x \in BOOLEAN, StartElement(n, x)
      PROVE  TypeOK'
  BY <1>1, StartElementTypes
<1>2. CASE EndElement
  BY <1>2, EndElementTypes
<1>3. CASE EndDocument
  BY <1>3 DEF EndDocument, TypeOK
<1>4. CASE XmlFatalError
  BY <1>4 DEF XmlFatalError, TypeOK
<1>5. CASE UNCHANGED vars
  BY <1>5 DEF vars, TypeOK
<1>6. QED
  BY <1>1, <1>2, <1>3, <1>4, <1>5 DEF Next

(* The initial state is well-typed.                                        *)
LEMMA InitTypes == Init => TypeOK
<1>1. <<>> \in Seq(Name) /\ <<>> \in Seq(Parser)
  BY EmptySeq
<1>2. NotSkipping(0) \in SkipRecord /\ ~NotSkipping(0).on
  BY DEF NotSkipping, SkipRecord
<1>3. QED
  BY <1>1, <1>2 DEF Init, TypeOK, SkipRecord

(* Whatever the element parsers do, the parsing state is well-typed, and   *)
(* the depth counted inside a skipped element never becomes negative.      *)
THEOREM TypeCorrect == Spec => []TypeOK
  BY InitTypes, TypeInductive, PTL DEF Spec

-----------------------------------------------------------------------------
(* Skipped elements.                                                       *)

(* Counting the members of a set in an interval that grows by one.         *)
LEMMA CountGrows ==
  ASSUME NEW P, NEW a \in Int, NEW h \in Int, a <= h + 1
  PROVE  /\ Cardinality((a..h) \cap P) \in Nat
         /\ Cardinality((a..(h + 1)) \cap P) =
              Cardinality((a..h) \cap P) + IF h + 1 \in P THEN 1 ELSE 0
         /\ Cardinality((a..h) \cap P) = 0 => (a..h) \cap P = {}
<1>1. IsFiniteSet((a..h) \cap P)
  BY FS_Interval, FS_Intersection
<1>2. Cardinality((a..h) \cap P) \in Nat
  BY <1>1, FS_CardinalityType
<1>3. CASE h + 1 \in P
  <2>1. (a..(h + 1)) \cap P = ((a..h) \cap P) \cup {h + 1}
    BY <1>3
  <2>2. h + 1 \notin (a..h) \cap P
    OBVIOUS
  <2>3. QED
    BY <1>1, <1>2, <1>3, <2>1, <2>2, FS_AddElement, FS_EmptySet
<1>4. CASE h + 1 \notin P
  <2>1. (a..(h + 1)) \cap P = (a..h) \cap P
    BY <1>4
  <2>2. QED
    BY <1>1, <1>2, <1>4, <2>1, FS_EmptySet
<1>5. QED
  BY <1>3, <1>4

(* The namesakes of the skipped element that are open inside it.           *)
Namesakes(o, a, name) == {i \in (a + 1)..Len(o) : o[i] = name}

(* An element is opened inside the skipped one.                            *)
LEMMA NamesakesGrow ==
  ASSUME NEW o \in Seq(Name), NEW n \in Name, NEW a \in Nat, a <= Len(o), NEW name
  PROVE  /\ Cardinality(Namesakes(o, a, name)) \in Nat
         /\ Cardinality(Namesakes(Append(o, n), a, name)) =
              Cardinality(Namesakes(o, a, name)) + IF n = name THEN 1 ELSE 0
<1> DEFINE oo == Append(o, n)
           P == {i \in 1..(Len(o) + 1) : oo[i] = name}
<1>1. /\ Len(o) \in Nat
      /\ Len(oo) = Len(o) + 1
      /\ \A i \in 1..Len(o) : oo[i] = o[i]
      /\ oo[Len(o) + 1] = n
  BY AppendLast
<1> HIDE DEF oo
<1>2. Namesakes(o, a, name) = ((a + 1)..Len(o)) \cap P
  BY <1>1 DEF Namesakes
<1>3. Namesakes(oo, a, name) = ((a + 1)..(Len(o) + 1)) \cap P
  BY <1>1 DEF Namesakes
<1>4. Len(o) + 1 \in P <=> n = name
  BY <1>1
<1> HIDE DEF P
<1>5. QED
  BY <1>1, <1>2, <1>3, <1>4, CountGrows DEF oo

(* The innermost element is closed.                                        *)
LEMMA NamesakesShrink ==
  ASSUME NEW o \in Seq(Name), o # <<>>, NEW a \in Nat, a < Len(o), NEW name
  PROVE  /\ Cardinality(Namesakes(Front(o), a, name)) \in Nat
         /\ Cardinality(Namesakes(o, a, name)) =
              Cardinality(Namesakes(Front(o), a, name)) + IF Last(o) = name THEN 1 ELSE 0
<1>1. /\ Len(o) \in Nat
      /\ Front(o) \in Seq(Name)
      /\ Len(Front(o)) = Len(o) - 1
      /\ \A i \in 1..(Len(o) - 1) : Front(o)[i] = o[i]
      /\ Last(o) = o[Len(o)]
  BY FrontLast
<1> DEFINE P == {i \in 1..Len(o) : o[i] = name}
           h == Len(o) - 1
<1>2. Namesakes(Front(o), a, name) = ((a + 1)..h) \cap P
  BY <1>1 DEF Namesakes
<1>3. Namesakes(o, a, name) = ((a + 1)..(h + 1)) \cap P
  BY <1>1 DEF Namesakes
<1>4. h + 1 \in P <=> Last(o) = name
  BY <1>1
<1>5. h \in Int /\ a + 1 <= h + 1
  BY <1>1
<1> HIDE DEF P, h
<1>6. QED
  BY <1>2, <1>3, <1>4, <1>5, CountGrows


(* Only the depth changes while an element is skipped.                     *)
LEMMA SkipDepth ==
  ASSUME NEW r \in SkipRecord, NEW d
  PROVE  LET q == [r EXCEPT !.depth = d] IN
         q.on = r.on /\ q.at = r.at /\ q.name = r.name /\ q.depth = d
  BY DEF SkipRecord

(* SkipBalanced with its set of namesakes named.                           *)
LEMMA SkipBalancedDef ==
  SkipBalanced <=>
    (skip.on => /\ skip.at \in 1..Len(open)
                /\ open[skip.at] = skip.name
                /\ skip.depth = Cardinality(Namesakes(open, skip.at, skip.name)))
  BY DEF SkipBalanced, Namesakes

(* An element the document parser begins to skip contains nothing yet.     *)
LEMMA UnexpectedBalanced ==
  ASSUME TypeOK, NEW n \in Name, NEW s, open' = Append(open, n), Unexpected(s, n)
  PROVE  SkipBalanced'
<1>1. /\ Len(open) \in Nat
      /\ Len(open') = Len(open) + 1
      /\ open'[Len(open) + 1] = n
  BY AppendLast DEF TypeOK
<1>2. skip'.at = Len(open) + 1 /\ skip'.name = n /\ skip'.depth = 0
  BY DEF Unexpected
<1>3. Namesakes(open', skip'.at, skip'.name) = {}
  BY <1>1, <1>2 DEF Namesakes
<1>4. Cardinality(Namesakes(open', skip'.at, skip'.name)) = 0
  BY <1>3, FS_EmptySet
<1>5. skip'.at \in 1..Len(open') /\ open'[skip'.at] = skip'.name
  BY <1>1, <1>2
<1>6. skip'.depth = Cardinality(Namesakes(open', skip'.at, skip'.name))
  BY <1>2, <1>4
<1>7. QED
  BY <1>5, <1>6, Zenon DEF SkipBalanced, Namesakes

(* Without a skipped element there is nothing to show.                     *)
LEMMA NotSkippedBalanced ==
  ASSUME ~skip'.on
  PROVE  SkipBalanced'
  BY DEF SkipBalanced

(* A start tag handled by a parser either goes on or begins a skip.        *)
LEMMA HandledStartSkip ==
  ASSUME NEW n, NEW x, HandledStart(n, x)
  PROVE  ~skip'.on \/ \E s : Unexpected(s, n)
<1> DEFINE s == IF stack = <<>> THEN <<RootParser>> ELSE stack
           Goal == ~skip'.on \/ \E t : Unexpected(t, n)
<1>1. /\ ~skip.on
      /\ \/ BindUnbound(s, n)
         \/ OfferChild(s, n, x)
         \/ ResolveChoice(s, n)
         \/ NextInSequence(s, n)
         \/ SkipParserStart(s, n)
  BY DEF HandledStart
<1> HIDE DEF s
<1>2. \A t : Accepted(t) => ~skip'.on
  BY <1>1 DEF Accepted
<1>3. Thrown => ~skip'.on
  BY <1>1 DEF Thrown
<1>4. \A t, k : Bind(t, k, n) => ~skip'.on
  BY <1>2, <1>3 DEF Bind
<1>5. OfferChild(s, n, x) => Goal
  BY <1>2, <1>3 DEF OfferChild
<1>6. QED
  BY <1>1, <1>2, <1>3, <1>4, <1>5
     DEF BindUnbound, ResolveChoice, NextInSequence, SkipParserStart

(* A start tag keeps the count of a skipped element.                       *)
LEMMA StartBalanced ==
  ASSUME TypeOK, SkipBalanced, NEW n \in Name, NEW x \in BOOLEAN, StartElement(n, x)
  PROVE  SkipBalanced'
<1>1. open' = Append(open, n)
  BY DEF StartElement
<1>2. CASE SkippedStart(n)
  <2>1. /\ skip.at \in 1..Len(open)
        /\ open[skip.at] = skip.name
        /\ skip.depth = Cardinality(Namesakes(open, skip.at, skip.name))
    BY <1>2, SkipBalancedDef DEF SkippedStart
  <2>2. /\ skip'.on = skip.on /\ skip'.at = skip.at /\ skip'.name = skip.name
        /\ skip'.depth = skip.depth + IF n = skip.name THEN 1 ELSE 0
    <3>1. skip \in SkipRecord /\ skip.depth \in Int
      BY DEF TypeOK, SkipRecord
    <3>2. CASE n = skip.name
      BY <3>1, <3>2, <1>2, SkipDepth DEF SkippedStart
    <3>3. CASE n # skip.name
      <4>1. skip' = skip
        BY <3>3, <1>2, Zenon DEF SkippedStart
      <4>2. skip.depth + 0 = skip.depth
        BY <3>1
      <4>3. QED
        BY ONLY <3>3, <4>1, <4>2
    <3>4. QED
      BY <3>2, <3>3
  <2>3. /\ Len(open') = Len(open) + 1
        /\ \A i \in 1..Len(open) : open'[i] = open[i]
        /\ Len(open) \in Nat
    BY <1>1, AppendLast DEF TypeOK
  <2>4. skip'.depth = Cardinality(Namesakes(open', skip'.at, skip'.name))
    BY <2>1, <2>2, <2>3, <1>1, NamesakesGrow DEF TypeOK
  <2>5. QED
    BY <2>1, <2>2, <2>3, <2>4 DEF SkipBalanced, Namesakes
<1>3. CASE UnknownStart(n)
  BY <1>1, <1>3, UnexpectedBalanced DEF UnknownStart
<1>4. CASE HandledStart(n, x)
  BY <1>1, <1>4, HandledStartSkip, UnexpectedBalanced, NotSkippedBalanced
<1>5. QED
  BY <1>2, <1>3, <1>4 DEF StartElement

(* An end tag keeps the count of a skipped element.                        *)
LEMMA EndBalanced ==
  ASSUME TypeOK, SkipBalanced, EndElement
  PROVE  SkipBalanced'
<1>1. /\ open' = Front(open)
      /\ Len(open) \in Nat
      /\ Len(open') = Len(open) - 1
      /\ \A i \in 1..(Len(open) - 1) : open'[i] = open[i]
      /\ Last(open) = open[Len(open)]
      /\ open \in Seq(Name) /\ open # <<>>
  BY FrontLast DEF EndElement, TypeOK
<1>2. CASE HandledEnd
  BY <1>1, <1>2, HandledEndTypes, NotSkippedBalanced DEF HandledEnd
<1>3. CASE SkippedEnd
  <2>1. /\ skip.at \in 1..Len(open)
        /\ open[skip.at] = skip.name
        /\ skip.depth = Cardinality(Namesakes(open, skip.at, skip.name))
        /\ skip.at \in Nat
    BY <1>3, SkipBalancedDef DEF SkippedEnd, TypeOK
  <2>2. CASE Last(open) = skip.name /\ skip.depth = 0
    BY <1>3, <2>2, NotSkippedBalanced DEF SkippedEnd, NotSkipping
  <2>3. CASE ~(Last(open) = skip.name /\ skip.depth = 0)
    <3>1. skip.at # Len(open)
      <4> SUFFICES ASSUME skip.at = Len(open)
                   PROVE  FALSE
        OBVIOUS
      <4>1. Namesakes(open, skip.at, skip.name) = {}
        BY <1>1 DEF Namesakes
      <4>2. skip.depth = 0
        BY <4>1, <2>1, FS_EmptySet
      <4>3. QED
        BY <4>2, <2>1, <2>3, <1>1
    <3>2. skip.at < Len(open)
      BY <3>1, <2>1, <1>1
    <3>3. /\ skip'.on = skip.on /\ skip'.at = skip.at /\ skip'.name = skip.name
          /\ skip'.depth = skip.depth - IF Last(open) = skip.name THEN 1 ELSE 0
      <4>1. skip \in SkipRecord /\ skip.depth \in Int
        BY DEF TypeOK, SkipRecord
      <4>2. CASE Last(open) = skip.name
        BY <4>1, <4>2, <1>3, <2>3, SkipDepth DEF SkippedEnd
      <4>3. CASE Last(open) # skip.name
        <5>1. skip' = skip
          BY <4>3, <1>3, Zenon DEF SkippedEnd
        <5>2. skip.depth - 0 = skip.depth
          BY <4>1
        <5>3. QED
          BY ONLY <4>3, <5>1, <5>2
      <4>4. QED
        BY <4>2, <4>3
    <3>4. skip'.depth = Cardinality(Namesakes(open', skip'.at, skip'.name))
      BY <3>2, <3>3, <2>1, <1>1, NamesakesShrink
    <3>5. QED
      BY <3>2, <3>3, <3>4, <2>1, <1>1 DEF SkipBalanced, Namesakes
  <2>4. QED
    BY <2>2, <2>3
<1>4. QED
  BY <1>2, <1>3 DEF EndElement

(* Every step keeps the count of a skipped element.                        *)
LEMMA SkipInductive == TypeOK /\ SkipBalanced /\ [Next]_vars => SkipBalanced'
<1> SUFFICES ASSUME TypeOK, SkipBalanced, [Next]_vars
             PROVE  SkipBalanced'
  OBVIOUS
<1>1. ASSUME NEW n \in Name, NEW x \in BOOLEAN, StartElement(n, x)
      PROVE  SkipBalanced'
  BY <1>1, StartBalanced
<1>2. CASE EndElement
  BY <1>2, EndBalanced
<1>3. CASE EndDocument \/ XmlFatalError \/ UNCHANGED vars
  BY <1>3 DEF EndDocument, XmlFatalError, vars, SkipBalanced
<1>4. QED
  BY <1>1, <1>2, <1>3 DEF Next

(* Whatever the element parsers do, an unknown or unexpected element is    *)
(* skipped from its start tag to its own end tag, however many elements of *)
(* the same name are nested in it (skipUnknownOrUnexpectedElement,         *)
(* checkCurrentElementUnownOrUnexpected_start and _end).                   *)
THEOREM SkippedToItsEnd == Spec => []SkipBalanced
<1>1. Init => TypeOK /\ SkipBalanced
  <2>1. Init => SkipBalanced
    BY DEF Init, NotSkipping, SkipBalanced
  <2>2. QED
    BY <2>1, InitTypes
<1>2. (TypeOK /\ SkipBalanced) /\ [Next]_vars => (TypeOK /\ SkipBalanced)'
  BY TypeInductive, SkipInductive
<1>3. QED
  BY <1>1, <1>2, PTL DEF Spec


-----------------------------------------------------------------------------
(* The inductive invariant, for a stack s of parsers and the first h of    *)
(* the open elements o.                                                    *)

(* The parser at i gets the end tags of the elements deeper than its own   *)
(* up to this depth; deeper ones go to the parsers above it.               *)
Upper(s, h, i) ==
  IF i = Len(s) THEN h
  ELSE IF s[i + 1].bound = NoNode THEN s[i + 1].at ELSE s[i + 1].at - 1

(* The elements among the first h that are of a node.                      *)
Depths(o, h, node) == {j \in 1..h : NodeOf[o[j]] = node}

(* An element parser expected the elements whose end tags it will get, and *)
(* none is of its own node; a sequence gets only the end tag of its own    *)
(* container; a skip parser is on top and counts the elements of its node. *)
InCharge(s, o, h, i) ==
  /\ s[i].type = "element" /\ s[i].bound # NoNode =>
       /\ s[i].bound \in Binds[s[i].kinds[1]]
       /\ \A j \in (s[i].at + 1)..Upper(s, h, i) :
            NodeOf[o[j]] # s[i].bound /\ Expects(s[i].kinds[1], NodeOf[o[j]])
  /\ s[i].type = "sequence" => s[i].bound # NoNode /\ Upper(s, h, i) = s[i].at
  /\ s[i].type = "choice" => s[i].bound = NoNode
  /\ s[i].type = "skip" => i = Len(s)
  /\ s[i].type = "skip" /\ s[i].bound # NoNode =>
       s[i].depth = Cardinality((s[i].at..h) \cap Depths(o, h, s[i].bound))

Placed(s, o, h, i) ==
  /\ s[i].at \in 1..h
  /\ s[i].bound # NoNode => NodeOf[o[s[i].at]] = s[i].bound
  /\ s[i].bound = NoNode => i = Len(s) /\ s[i].at = h
  /\ i > 1 => \A c \in 1..Len(s[i].kinds) : s[i].kinds[c] # RootKind

RootBelow(s) ==
  /\ s # <<>>
  /\ s[1].type = "element" /\ s[1].kinds = <<RootKind>>
  /\ s[1].at = 1 /\ s[1].bound # NoNode

Aligned(s, o, h) ==
  /\ h \in 0..Len(o)
  /\ \A j \in 1..h : NodeOf[o[j]] \in Node
  /\ \A i \in 1..Len(s) : Placed(s, o, h, i) /\ InCharge(s, o, h, i)
  /\ \A i, j \in 1..Len(s) : i < j => s[i].at < s[j].at
  /\ h > 0 => RootBelow(s)

-----------------------------------------------------------------------------
(* The depths a parser is in charge of are between its own element and the *)
(* innermost handled one.                                                  *)
LEMMA UpperRange ==
  ASSUME NEW s \in Seq(Parser), NEW o, NEW h \in Nat, Aligned(s, o, h), NEW i \in 1..Len(s)
  PROVE  /\ s[i].at \in Nat
         /\ Upper(s, h, i) \in s[i].at..h
<1>1. Len(s) \in Nat
  BY LenProperties
<1>2. s[i].at \in 1..h
  BY DEF Aligned, Placed
<1>3. CASE i = Len(s)
  BY <1>2, <1>3 DEF Upper
<1>4. CASE i # Len(s)
  <2>1. i + 1 \in 1..Len(s) /\ i < i + 1
    BY <1>1, <1>4
  <2>2. s[i + 1].at \in 1..h /\ s[i].at < s[i + 1].at
    BY <2>1 DEF Aligned, Placed
  <2>3. QED
    BY <1>2, <1>4, <2>2 DEF Upper
<1>5. QED
  BY <1>3, <1>4

(* What happens to the open elements beyond the first h does not matter.   *)
LEMMA AlignedPrefix ==
  ASSUME NEW s \in Seq(Parser), NEW o, NEW o2 \in Seq(Name), NEW h \in Nat,
         Aligned(s, o, h), h <= Len(o2), \A j \in 1..h : o2[j] = o[j]
  PROVE  Aligned(s, o2, h)
<1>1. h \in 0..Len(o2)
  BY LenProperties
<1>2. \A node : Depths(o, h, node) = Depths(o2, h, node)
  BY DEF Depths
<1>3. ASSUME NEW i \in 1..Len(s)
      PROVE  Placed(s, o2, h, i) /\ InCharge(s, o2, h, i)
  <2>1. Placed(s, o, h, i) /\ InCharge(s, o, h, i)
    BY DEF Aligned
  <2>2. Placed(s, o2, h, i)
    BY <2>1 DEF Placed
  <2>3. \A j \in (s[i].at + 1)..Upper(s, h, i) : o2[j] = o[j]
    <3> DEFINE u == Upper(s, h, i)
    <3>1. s[i].at \in Nat /\ u \in s[i].at..h
      BY UpperRange
    <3> HIDE DEF u
    <3>2. \A j \in (s[i].at + 1)..u : j \in 1..h
      BY <3>1
    <3>3. QED
      BY <3>2 DEF u
  <2>4. QED
    BY <2>1, <2>2, <2>3, <1>2 DEF InCharge
<1>4. QED
  BY <1>1, <1>3 DEF Aligned

(* The parser on top is done, or gives way: the one below it is in charge. *)
LEMMA FrontAligned ==
  ASSUME NEW s \in Seq(Parser), s # <<>>, NEW o, NEW h \in Nat, Aligned(s, o, h),
         Last(s).at = h
  PROVE  Aligned(Front(s), o, IF Last(s).bound = NoNode THEN h ELSE h - 1)
<1> DEFINE b == Front(s)
           m == Len(s)
           h2 == IF s[m].bound = NoNode THEN h ELSE h - 1
<1>1. /\ m \in Nat /\ m >= 1
      /\ b \in Seq(Parser) /\ Len(b) = m - 1
      /\ \A i \in 1..(m - 1) : b[i] = s[i]
      /\ Last(s) = s[m]
  BY FrontLast
<1>2. /\ h \in 0..Len(o) /\ Len(o) \in Int
      /\ \A j \in 1..h : NodeOf[o[j]] \in Node
      /\ \A i \in 1..m : Placed(s, o, h, i) /\ InCharge(s, o, h, i)
      /\ \A i, j \in 1..m : i < j => s[i].at < s[j].at
      /\ h > 0 => RootBelow(s)
  BY DEF Aligned
<1> HIDE DEF b, m
<1>3. s[m].at = h /\ s[m].at \in 1..h
  BY <1>1, <1>2 DEF Placed
<1>4. h2 \in {h, h - 1} /\ h2 \in Nat
  BY <1>3
<1>5. ASSUME NEW i \in 1..(m - 1)
      PROVE  Placed(b, o, h2, i) /\ InCharge(b, o, h2, i)
  <2>1. Placed(s, o, h, i) /\ InCharge(s, o, h, i) /\ i # m /\ i \in 1..m
    BY <1>1, <1>2
  <2>2. s[i].at \in 1..h /\ s[i].at < h
    <3>1. s[i].at \in 1..h
      BY <2>1 DEF Placed
    <3>2. i < m /\ m \in 1..m
      BY <1>1
    <3>3. s[i].at < s[m].at
      BY <3>2, <2>1, <1>2
    <3>4. QED
      BY <3>1, <3>3, <1>3
  <2>3. s[i].bound # NoNode /\ s[i].type # "skip" /\ s[i].type # "choice"
    BY <2>1 DEF Placed, InCharge, m
  <2>4. Upper(b, h2, i) = Upper(s, h, i)
    <3>1. CASE i = m - 1
      <4>1. Upper(b, h2, i) = h2
        BY <3>1, <1>1 DEF Upper
      <4>2. Upper(s, h, i) = IF s[m].bound = NoNode THEN s[m].at ELSE s[m].at - 1
        BY <3>1, <1>1, <2>1 DEF Upper, m
      <4>3. QED
        BY <4>1, <4>2, <1>3
    <3>2. CASE i # m - 1
      <4>1. b[i + 1] = s[i + 1] /\ i # Len(b) /\ i # Len(s)
        BY <3>2, <1>1 DEF m
      <4>2. QED
        BY <4>1 DEF Upper
    <3>3. QED
      BY <3>1, <3>2
  <2>5. b[i] = s[i]
    BY <1>1
  <2>6. Placed(b, o, h2, i)
    BY <2>1, <2>2, <2>3, <2>5, <1>4 DEF Placed
  <2>7. QED
    BY <2>1, <2>3, <2>4, <2>5, <2>6 DEF InCharge
<1>6. \A i, j \in 1..(m - 1) : i < j => b[i].at < b[j].at
  BY <1>1, <1>2
<1>7. h2 > 0 => RootBelow(b)
  <2>1. RootBelow(s)
    BY <1>2, <1>3
  <2>2. m = 1 => h2 = 0
    BY <2>1, <1>3 DEF RootBelow
  <2>3. m > 1 => b # <<>> /\ b[1] = s[1]
    BY <1>1
  <2>4. QED
    BY <1>1, <2>1, <2>2, <2>3 DEF RootBelow
<1>8. h2 \in 0..Len(o) /\ \A j \in 1..h2 : NodeOf[o[j]] \in Node
  BY <1>2, <1>4
<1>9. Aligned(b, o, h2)
  BY <1>1, <1>5, <1>6, <1>7, <1>8 DEF Aligned
<1>10. QED
  BY <1>1, <1>9 DEF b

(* A parser bound to the next element is put on the stack.                 *)
LEMMA PushAligned ==
  ASSUME NEW s \in Seq(Parser), NEW o \in Seq(Name), NEW h \in Nat, Aligned(s, o, h),
         h + 1 <= Len(o), NodeOf[o[h + 1]] \in Node,
         \A i \in 1..Len(s) : s[i].bound # NoNode /\ s[i].type # "skip",
         NEW q \in Parser, q.at = h + 1, q.bound = NodeOf[o[h + 1]],
         q.type \in {"element", "sequence", "skip"},
         q.type = "element" => q.bound \in Binds[q.kinds[1]],
         q.type = "skip" => q.depth = 1,
         s # <<>> => \A c \in 1..Len(q.kinds) : q.kinds[c] # RootKind,
         s = <<>> => q.type = "element" /\ q.kinds = <<RootKind>>
  PROVE  Aligned(Append(s, q), o, h + 1)
<1> DEFINE t == Append(s, q)
           m == Len(s)
<1>1. /\ t \in Seq(Parser) /\ t # <<>>
      /\ m \in Nat /\ Len(t) = m + 1
      /\ \A i \in 1..m : t[i] = s[i]
      /\ t[m + 1] = q
  BY AppendLast
<1>2. /\ h \in 0..Len(o) /\ Len(o) \in Int
      /\ \A j \in 1..h : NodeOf[o[j]] \in Node
      /\ \A i \in 1..m : Placed(s, o, h, i) /\ InCharge(s, o, h, i)
      /\ \A i, j \in 1..m : i < j => s[i].at < s[j].at
      /\ h > 0 => RootBelow(s)
  BY LenProperties DEF Aligned
<1>3. NoNode \notin Node
  BY TablesAssumption DEF TablesAssumption
<1>4. s = <<>> <=> m = 0
  BY EmptySeq
<1>5. ASSUME NEW i \in 1..m
      PROVE  Placed(t, o, h + 1, i) /\ InCharge(t, o, h + 1, i)
  <2>1. Placed(s, o, h, i) /\ InCharge(s, o, h, i) /\ t[i] = s[i]
    BY <1>1, <1>2
  <2>2. s[i].bound # NoNode /\ s[i].type # "skip"
    OBVIOUS
  <2>3. Upper(t, h + 1, i) = Upper(s, h, i)
    <3>1. i # Len(t)
      BY <1>1
    <3>2. CASE i = m
      <4>1. t[i + 1] = q /\ q.bound # NoNode /\ q.at - 1 = h
        BY <3>2, <1>1, <1>3
      <4>2. QED
        BY <4>1, <3>1, <3>2 DEF Upper
    <3>3. CASE i # m
      <4>1. t[i + 1] = s[i + 1]
        BY <3>3, <1>1
      <4>2. QED
        BY <4>1, <3>1, <3>3 DEF Upper
    <3>4. QED
      BY <3>2, <3>3
  <2>4. Placed(t, o, h + 1, i)
    BY <2>1, <2>2 DEF Placed
  <2>5. QED
    BY <2>1, <2>2, <2>3, <2>4 DEF InCharge
<1>6. Placed(t, o, h + 1, m + 1)
  BY <1>1, <1>3, <1>4 DEF Placed
<1>7. InCharge(t, o, h + 1, m + 1)
  <2>1. Upper(t, h + 1, m + 1) = h + 1
    BY <1>1 DEF Upper
  <2>2. q.type = "skip" => q.depth = Cardinality((q.at..(h + 1)) \cap Depths(o, h + 1, q.bound))
    <3>1. (q.at..(h + 1)) \cap Depths(o, h + 1, q.bound) = {h + 1}
      BY DEF Depths
    <3>2. QED
      BY <3>1, FS_Singleton
  <2>3. q.bound # NoNode
    BY <1>3
  <2>4. \A j \in (q.at + 1)..(h + 1) : FALSE
    OBVIOUS
  <2>5. QED
    BY <1>1, <2>1, <2>2, <2>3, <2>4 DEF InCharge
<1>8. \A i, j \in 1..(m + 1) : i < j => t[i].at < t[j].at
  <2>1. \A i \in 1..m : s[i].at \in 1..h
    BY <1>2 DEF Placed
  <2>2. \A i \in 1..m : t[i].at < h + 1
    BY <2>1, <1>1
  <2>3. t[m + 1].at = h + 1
    BY <1>1
  <2>4. \A i, j \in 1..m : i < j => t[i].at < t[j].at
    BY <1>1, <1>2
  <2> HIDE DEF t, m
  <2>5. ASSUME NEW i \in 1..(m + 1), NEW j \in 1..(m + 1), i < j
        PROVE  t[i].at < t[j].at
    <3>1. i \in 1..m /\ (j \in 1..m \/ j = m + 1)
      BY <2>5, <1>1
    <3>2. QED
      BY <3>1, <2>2, <2>3, <2>4, <2>5
  <2>6. QED
    BY <2>5
<1>9. RootBelow(t)
  <2>1. CASE m = 0
    BY <2>1, <1>1, <1>2, <1>3, <1>4 DEF RootBelow
  <2>2. CASE m # 0
    <3>1. 1 \in 1..m /\ s[1].at \in 1..h
      BY <2>2, <1>1, <1>2 DEF Placed
    <3>2. RootBelow(s)
      BY <3>1, <1>2
    <3>3. QED
      BY <3>1, <3>2, <1>1 DEF RootBelow
  <2>3. QED
    BY <2>1, <2>2
<1>10. h + 1 \in 0..Len(o) /\ \A j \in 1..(h + 1) : NodeOf[o[j]] \in Node
  BY <1>2
<1> HIDE DEF t, m
<1>11. \A i \in 1..(m + 1) : i \in 1..m \/ i = m + 1
  BY <1>1
<1>12. Aligned(t, o, h + 1)
  BY <1>1, <1>5, <1>6, <1>7, <1>8, <1>9, <1>10, <1>11 DEF Aligned
<1>13. QED
  BY <1>12 DEF t

(* A parser that waits for its element is put on the stack.                *)
LEMMA WaitAligned ==
  ASSUME NEW s \in Seq(Parser), s # <<>>, NEW o \in Seq(Name), NEW h \in Nat, Aligned(s, o, h),
         Last(s).type = "element", Last(s).bound # NoNode, Last(s).at < h,
         NEW q \in Parser, q.at = h, q.bound = NoNode,
         q.type \in {"element", "choice", "skip"},
         \A c \in 1..Len(q.kinds) : q.kinds[c] # RootKind
  PROVE  Aligned(Append(s, q), o, h)
<1> DEFINE t == Append(s, q)
           m == Len(s)
<1>1. /\ t \in Seq(Parser) /\ t # <<>>
      /\ m \in Nat /\ m >= 1 /\ Len(t) = m + 1
      /\ \A i \in 1..m : t[i] = s[i]
      /\ t[m + 1] = q
      /\ Last(s) = s[m]
  <2>1. m \in Nat /\ m >= 1 /\ Last(s) = s[m]
    BY FrontLast
  <2>2. QED
    BY <2>1, AppendLast
<1>2. /\ h \in 0..Len(o) /\ Len(o) \in Int
      /\ \A j \in 1..h : NodeOf[o[j]] \in Node
      /\ \A i \in 1..m : Placed(s, o, h, i) /\ InCharge(s, o, h, i)
      /\ \A i, j \in 1..m : i < j => s[i].at < s[j].at
      /\ h > 0 => RootBelow(s)
  BY LenProperties DEF Aligned
<1>3. \A i \in 1..m : s[i].at \in 1..h /\ s[i].at <= s[m].at
  <2>1. ASSUME NEW i \in 1..m
        PROVE  s[i].at \in 1..h /\ s[i].at <= s[m].at
    <3>1. s[i].at \in 1..h /\ s[m].at \in 1..h
      BY <1>1, <1>2 DEF Placed
    <3>2. i = m \/ (i < m /\ m \in 1..m)
      BY <1>1
    <3>3. QED
      BY <3>1, <3>2, <1>2
  <2>2. QED
    BY <2>1
<1>4. ASSUME NEW i \in 1..m
      PROVE  Placed(t, o, h, i) /\ InCharge(t, o, h, i)
  <2>1. Placed(s, o, h, i) /\ InCharge(s, o, h, i) /\ t[i] = s[i]
    BY <1>1, <1>2
  <2>2. s[i].bound # NoNode /\ s[i].type # "skip"
    <3>1. i = m \/ i # m
      OBVIOUS
    <3>2. QED
      BY <3>1, <2>1, <1>1 DEF Placed, InCharge
  <2>3. Upper(t, h, i) = Upper(s, h, i)
    <3>1. i # Len(t)
      BY <1>1
    <3>2. CASE i = m
      <4>1. t[i + 1] = q /\ Upper(s, h, i) = h
        BY <3>2, <1>1 DEF Upper
      <4>2. QED
        BY <4>1, <3>1, <3>2 DEF Upper
    <3>3. CASE i # m
      <4>1. t[i + 1] = s[i + 1]
        BY <3>3, <1>1
      <4>2. QED
        BY <4>1, <3>1, <3>3 DEF Upper
    <3>4. QED
      BY <3>2, <3>3
  <2>4. Placed(t, o, h, i)
    BY <2>1, <2>2 DEF Placed
  <2>5. QED
    BY <2>1, <2>2, <2>3, <2>4 DEF InCharge
<1>5. Placed(t, o, h, m + 1) /\ InCharge(t, o, h, m + 1)
  <2>1. h \in 1..h
    BY <1>3, <1>1
  <2>2. Placed(t, o, h, m + 1)
    BY <1>1, <2>1 DEF Placed
  <2>3. InCharge(t, o, h, m + 1)
    BY <1>1 DEF InCharge
  <2>4. QED
    BY <2>2, <2>3
<1>6. RootBelow(t)
  BY <1>1, <1>2, <1>3 DEF RootBelow
<1>7. t[m + 1].at = h /\ \A i \in 1..m : t[i].at < h
  <2>1. s[m].at < h
    BY <1>1
  <2>2. ASSUME NEW i \in 1..m
        PROVE  t[i].at < h
    BY <2>1, <1>1, <1>3
  <2>3. QED
    BY <2>2, <1>1
<1>8. \A i, j \in 1..m : i < j => t[i].at < t[j].at
  BY <1>1, <1>2
<1> HIDE DEF t, m
<1>9. ASSUME NEW i \in 1..(m + 1), NEW j \in 1..(m + 1), i < j
      PROVE  t[i].at < t[j].at
  <2>1. i \in 1..m /\ (j \in 1..m \/ j = m + 1)
    BY <1>9, <1>1
  <2>2. QED
    BY <2>1, <1>7, <1>8, <1>9
<1>10. \A i \in 1..(m + 1) : i \in 1..m \/ i = m + 1
  BY <1>1
<1>11. Aligned(t, o, h)
  BY <1>1, <1>2, <1>4, <1>5, <1>6, <1>9, <1>10 DEF Aligned
<1>12. QED
  BY <1>11 DEF t

(* The parser on top stays in charge while elements come and go inside its *)
(* own; a skip parser changes its count (q is the parser as it is then).   *)
LEMMA TopAligned ==
  ASSUME NEW s \in Seq(Parser), s # <<>>, NEW o \in Seq(Name), NEW h \in Nat, Aligned(s, o, h),
         Last(s).bound # NoNode,
         NEW q \in Parser, q.type = Last(s).type, q.kinds = Last(s).kinds,
         q.bound = Last(s).bound, q.at = Last(s).at,
         NEW h2 \in Nat, q.at <= h2, h2 <= Len(o),
         \A j \in 1..h2 : NodeOf[o[j]] \in Node,
         q.type = "element" =>
           \A j \in (q.at + 1)..h2 : NodeOf[o[j]] # q.bound /\ Expects(q.kinds[1], NodeOf[o[j]]),
         q.type = "sequence" => h2 = q.at,
         q.type = "skip" => q.depth = Cardinality((q.at..h2) \cap Depths(o, h2, q.bound))
  PROVE  Aligned(Append(Front(s), q), o, h2)
<1> DEFINE m == Len(s)
           t == Append(Front(s), q)
<1>1. /\ m \in Nat /\ m >= 1
      /\ Front(s) \in Seq(Parser) /\ Len(Front(s)) = m - 1
      /\ \A i \in 1..(m - 1) : Front(s)[i] = s[i]
      /\ Last(s) = s[m]
  BY FrontLast
<1>2. /\ t \in Seq(Parser) /\ t # <<>> /\ Len(t) = m
      /\ \A i \in 1..(m - 1) : t[i] = s[i]
      /\ t[m] = q
  BY <1>1, AppendLast
<1>3. /\ \A i \in 1..m : Placed(s, o, h, i) /\ InCharge(s, o, h, i)
      /\ \A i, j \in 1..m : i < j => s[i].at < s[j].at
      /\ h > 0 => RootBelow(s)
  BY DEF Aligned
<1>4. q.at \in 1..h /\ q.at \in 1..h2
  BY <1>1, <1>3 DEF Placed
<1>5. ASSUME NEW i \in 1..(m - 1)
      PROVE  Placed(t, o, h2, i) /\ InCharge(t, o, h2, i)
  <2>1. Placed(s, o, h, i) /\ InCharge(s, o, h, i) /\ i # m /\ i \in 1..m /\ t[i] = s[i]
    BY <1>1, <1>2, <1>3
  <2>2. s[i].at \in 1..h2
    <3>1. i < m /\ m \in 1..m
      BY <1>1
    <3>2. s[i].at < s[m].at
      BY <3>1, <2>1, <1>3
    <3>3. s[i].at \in 1..h
      BY <2>1 DEF Placed
    <3>4. QED
      BY <3>2, <3>3, <1>1, <1>4
  <2>3. s[i].bound # NoNode /\ s[i].type # "skip"
    BY <2>1 DEF Placed, InCharge, m
  <2>4. Upper(t, h2, i) = Upper(s, h, i)
    <3>1. i # Len(t) /\ i # Len(s)
      BY <1>2, <2>1 DEF m
    <3>2. CASE i = m - 1
      <4>1. t[i + 1] = q /\ s[i + 1] = Last(s)
        BY <3>2, <1>1, <1>2
      <4>2. QED
        BY <4>1, <3>1 DEF Upper
    <3>3. CASE i # m - 1
      <4>1. t[i + 1] = s[i + 1]
        BY <3>3, <1>1, <1>2
      <4>2. QED
        BY <4>1, <3>1 DEF Upper
    <3>4. QED
      BY <3>2, <3>3
  <2>5. Placed(t, o, h2, i)
    BY <2>1, <2>2, <2>3 DEF Placed
  <2>6. QED
    BY <2>1, <2>3, <2>4, <2>5 DEF InCharge
<1>6. Placed(t, o, h2, m)
  <2>1. Placed(s, o, h, m)
    BY <1>1, <1>3
  <2>2. QED
    BY <2>1, <1>1, <1>2, <1>4 DEF Placed
<1>7. InCharge(t, o, h2, m)
  <2>1. Upper(t, h2, m) = h2
    BY <1>2 DEF Upper
  <2>2. InCharge(s, o, h, m)
    BY <1>1, <1>3
  <2>3. QED
    BY <2>1, <2>2, <1>1, <1>2 DEF InCharge
<1>8. RootBelow(t)
  <2>1. RootBelow(s)
    BY <1>3, <1>4
  <2>2. m = 1 \/ 1 \in 1..(m - 1)
    BY <1>1
  <2>3. QED
    BY <2>1, <2>2, <1>1, <1>2 DEF RootBelow
<1>9. \A i, j \in 1..m : i < j => t[i].at < t[j].at
  <2>1. ASSUME NEW i \in 1..m, NEW j \in 1..m, i < j
        PROVE  t[i].at < t[j].at
    <3>1. i \in 1..(m - 1) /\ (j \in 1..(m - 1) \/ j = m)
      BY <2>1, <1>1
    <3>2. t[i].at = s[i].at /\ t[j].at = s[j].at
      BY <3>1, <1>1, <1>2
    <3>3. QED
      BY <2>1, <3>2, <1>3
  <2>2. QED
    BY <2>1
<1> HIDE DEF t, m
<1>10. \A i \in 1..m : i \in 1..(m - 1) \/ i = m
  BY <1>1
<1>11. h2 \in 0..Len(o)
  BY LenProperties
<1>12. Aligned(t, o, h2)
  BY <1>2, <1>5, <1>6, <1>7, <1>8, <1>9, <1>10, <1>11 DEF Aligned
<1>13. QED
  BY <1>12 DEF t

(* The elements of a node, with one more element handled.                  *)
LEMMA DepthsGrow ==
  ASSUME NEW o \in Seq(Name), NEW h \in Nat, h + 1 <= Len(o), NEW a \in 1..(h + 1), NEW node
  PROVE  /\ Cardinality((a..h) \cap Depths(o, h, node)) \in Nat
         /\ Cardinality((a..(h + 1)) \cap Depths(o, h + 1, node)) =
              Cardinality((a..h) \cap Depths(o, h, node))
                + IF NodeOf[o[h + 1]] = node THEN 1 ELSE 0
         /\ Cardinality((a..h) \cap Depths(o, h, node)) = 0 => (a..h) \cap Depths(o, h, node) = {}
<1> DEFINE P == Depths(o, h + 1, node)
<1>1. (a..h) \cap Depths(o, h, node) = (a..h) \cap P
  BY DEF Depths
<1>2. h + 1 \in P <=> NodeOf[o[h + 1]] = node
  BY DEF Depths
<1> HIDE DEF P
<1>3. a \in Int /\ h \in Int /\ a <= h + 1
  OBVIOUS
<1>4. /\ Cardinality((a..h) \cap P) \in Nat
      /\ Cardinality((a..(h + 1)) \cap P) =
           Cardinality((a..h) \cap P) + IF h + 1 \in P THEN 1 ELSE 0
      /\ Cardinality((a..h) \cap P) = 0 => (a..h) \cap P = {}
  BY <1>3, CountGrows
<1>5. QED
  BY <1>1, <1>2, <1>4, Zenon DEF P

(* Only the top of the stack waits for an element or skips.                *)
LEMMA BelowTop ==
  ASSUME NEW s \in Seq(Parser), s # <<>>, NEW o, NEW h \in Nat, Aligned(s, o, h)
  PROVE  /\ Last(s).at \in 1..h
         /\ Last(s).bound = NoNode => Last(s).at = h
         /\ \A i \in 1..Len(Front(s)) : Front(s)[i].bound # NoNode /\ Front(s)[i].type # "skip"
         /\ RootBelow(s)
         /\ Last(s).bound = NoNode \/ Last(s).type # "element" => Front(s) # <<>>
         /\ Front(s) # <<>> => \A c \in 1..Len(Last(s).kinds) : Last(s).kinds[c] # RootKind
         /\ Len(s) > 1 => Front(s) # <<>>
<1> DEFINE m == Len(s)
<1>1. /\ m \in Nat /\ m >= 1
      /\ Front(s) \in Seq(Parser) /\ Len(Front(s)) = m - 1
      /\ \A i \in 1..(m - 1) : Front(s)[i] = s[i]
      /\ Last(s) = s[m]
  BY FrontLast
<1>2. /\ \A i \in 1..m : Placed(s, o, h, i) /\ InCharge(s, o, h, i)
      /\ h > 0 => RootBelow(s)
  BY DEF Aligned
<1>3. Last(s).at \in 1..h /\ (Last(s).bound = NoNode => Last(s).at = h)
  BY <1>1, <1>2 DEF Placed
<1>4. RootBelow(s)
  BY <1>2, <1>3
<1>5. ASSUME NEW i \in 1..(m - 1)
      PROVE  s[i].bound # NoNode /\ s[i].type # "skip"
  <2>1. Placed(s, o, h, i) /\ InCharge(s, o, h, i) /\ i # Len(s)
    BY <1>1, <1>2
  <2>2. QED
    BY <2>1 DEF Placed, InCharge
<1>6. m = 1 <=> Front(s) = <<>>
  BY <1>1, EmptySeq
<1>7. m = 1 => Last(s).bound # NoNode /\ Last(s).type = "element"
  BY <1>1, <1>4 DEF RootBelow
<1>8. m > 1 => \A c \in 1..Len(Last(s).kinds) : Last(s).kinds[c] # RootKind
  BY <1>1, <1>2 DEF Placed
<1>9. QED
  BY <1>1, <1>3, <1>4, <1>5, <1>6, <1>7, <1>8

(* The parser on top gets the end tags of all handled elements in its own. *)
LEMMA TopInCharge ==
  ASSUME NEW s \in Seq(Parser), s # <<>>, NEW o, NEW h \in Nat, Aligned(s, o, h),
         Last(s).bound # NoNode
  PROVE  /\ NodeOf[o[Last(s).at]] = Last(s).bound
         /\ Last(s).type = "element" => Last(s).bound \in Binds[Last(s).kinds[1]]
         /\ Last(s).type = "element" => \A j \in (Last(s).at + 1)..h :
              NodeOf[o[j]] # Last(s).bound /\ Expects(Last(s).kinds[1], NodeOf[o[j]])
         /\ Last(s).type = "sequence" => Last(s).at = h
         /\ Last(s).type # "choice"
         /\ Last(s).type = "skip" =>
              Last(s).depth = Cardinality((Last(s).at..h) \cap Depths(o, h, Last(s).bound))
<1>1. Len(s) \in 1..Len(s) /\ Last(s) = s[Len(s)]
  <2>1. Len(s) \in Nat /\ Len(s) >= 1 /\ Last(s) = s[Len(s)]
    BY FrontLast
  <2>2. QED
    BY <2>1
<1>2. Placed(s, o, h, Len(s)) /\ InCharge(s, o, h, Len(s))
  BY <1>1 DEF Aligned
<1>3. Upper(s, h, Len(s)) = h
  BY DEF Upper
<1>4. NodeOf[o[Last(s).at]] = Last(s).bound
  BY <1>1, <1>2 DEF Placed
<1>5. QED
  BY <1>1, <1>2, <1>3, <1>4 DEF InCharge

(* A child the parser on top expects is opened.                            *)
LEMMA ChildAligned ==
  ASSUME NEW s \in Seq(Parser), s # <<>>, NEW o \in Seq(Name), NEW h \in Nat, Aligned(s, o, h),
         Last(s).bound # NoNode, Last(s).type = "element",
         h + 1 <= Len(o), NodeOf[o[h + 1]] \in Node, NodeOf[o[h + 1]] # Last(s).bound,
         Expects(Last(s).kinds[1], NodeOf[o[h + 1]])
  PROVE  Aligned(s, o, h + 1)
<1> DEFINE q == Last(s)
           h2 == h + 1
<1>1. q \in Parser /\ Append(Front(s), q) = s
  BY FrontLast, AppendFrontLast
<1>2. q.at \in 1..h /\ \A j \in (q.at + 1)..h :
        NodeOf[o[j]] # q.bound /\ Expects(q.kinds[1], NodeOf[o[j]])
  BY BelowTop, TopInCharge
<1>3. \A j \in (q.at + 1)..h2 : NodeOf[o[j]] # q.bound /\ Expects(q.kinds[1], NodeOf[o[j]])
  <2>1. \A j \in (q.at + 1)..h2 : j \in (q.at + 1)..h \/ j = h + 1
    OBVIOUS
  <2>2. QED
    BY <2>1, <1>2
<1>4. \A j \in 1..h2 : NodeOf[o[j]] \in Node
  <2>1. \A j \in 1..h2 : j \in 1..h \/ j = h + 1
    OBVIOUS
  <2>2. QED
    BY <2>1 DEF Aligned
<1>5. h2 \in Nat /\ q.at <= h2 /\ h2 <= Len(o)
  BY <1>2
<1>6. q.type # "sequence" /\ q.type # "skip" /\ q.bound # NoNode
  OBVIOUS
<1> HIDE DEF q, h2
<1>7. Aligned(Append(Front(s), q), o, h2)
  BY <1>1, <1>3, <1>4, <1>5, <1>6, TopAligned DEF q
<1>8. QED
  BY <1>1, <1>7 DEF h2

(* A child of the element of the parser on top is closed.                  *)
LEMMA LeaveAligned ==
  ASSUME NEW s \in Seq(Parser), s # <<>>, NEW o \in Seq(Name), NEW h \in Nat, Aligned(s, o, h),
         Last(s).bound # NoNode, Last(s).type = "element", Last(s).at < h
  PROVE  Aligned(s, o, h - 1)
<1> DEFINE q == Last(s)
           h2 == h - 1
<1>1. q \in Parser /\ Append(Front(s), q) = s
  BY FrontLast, AppendFrontLast
<1>2. q.at \in 1..h /\ \A j \in (q.at + 1)..h :
        NodeOf[o[j]] # q.bound /\ Expects(q.kinds[1], NodeOf[o[j]])
  BY BelowTop, TopInCharge
<1>3. \A j \in (q.at + 1)..h2 : NodeOf[o[j]] # q.bound /\ Expects(q.kinds[1], NodeOf[o[j]])
  BY <1>2
<1>4. \A j \in 1..h2 : NodeOf[o[j]] \in Node
  BY DEF Aligned
<1>5. h2 \in Nat /\ q.at <= h2 /\ h2 <= Len(o)
  <2>1. h \in 0..Len(o) /\ Len(o) \in Nat
    BY LenProperties DEF Aligned
  <2>2. QED
    BY <1>2, <2>1
<1>6. q.type # "sequence" /\ q.type # "skip" /\ q.bound # NoNode
  OBVIOUS
<1> HIDE DEF q, h2
<1>7. Aligned(Append(Front(s), q), o, h2)
  BY <1>1, <1>3, <1>4, <1>5, <1>6, TopAligned DEF q
<1>8. QED
  BY <1>1, <1>7 DEF h2

-----------------------------------------------------------------------------
(* Start tags.                                                             *)

(* A step of a parser either ends parsing or leaves the stack aligned.     *)
Lands == status' = "aborted" \/ (status' = "parsing" /\ Aligned(stack', open', HandledDepth'))

(* An element no parser has seen yet is opened.                            *)
Opening(n) ==
  /\ TypeOK
  /\ Aligned(stack, open, Len(open))
  /\ ~skip.on
  /\ NodeOf[n] # NoNode
  /\ open' = Append(open, n)

(* The document after a start tag that is not skipped.                     *)
LEMMA OpenedFacts ==
  ASSUME NEW n \in Name, Opening(n)
  PROVE  /\ Len(open) \in Nat
         /\ stack \in Seq(Parser)
         /\ open' \in Seq(Name)
         /\ Len(open') = Len(open) + 1
         /\ open'[Len(open) + 1] = n
         /\ NodeOf[n] \in Node
         /\ Aligned(stack, open', Len(open))
<1>1. open \in Seq(Name) /\ stack \in Seq(Parser)
  BY DEF Opening, TypeOK
<1>2. /\ Len(open) \in Nat
      /\ open' \in Seq(Name)
      /\ Len(open') = Len(open) + 1
      /\ open'[Len(open) + 1] = n
      /\ \A j \in 1..Len(open) : open'[j] = open[j]
  BY <1>1, AppendLast DEF Opening
<1>3. NodeOf[n] \in Node
  BY TablesAssumption DEF TablesAssumption, Opening
<1>4. Aligned(stack, open', Len(open))
  <2> DEFINE h == Len(open)
             o2 == open'
  <2>1. h \in Nat /\ o2 \in Seq(Name) /\ h <= Len(o2) /\ \A j \in 1..h : o2[j] = open[j]
    BY <1>2
  <2>2. Aligned(stack, open, h)
    BY DEF Opening
  <2> HIDE DEF h, o2
  <2>3. Aligned(stack, o2, h)
    BY <1>1, <2>1, <2>2, AlignedPrefix
  <2>4. QED
    BY <2>3 DEF h, o2
<1>5. QED
  BY <1>1, <1>2, <1>3, <1>4

(* An accepted start tag: the element is handled.                          *)
LEMMA AcceptedLands ==
  ASSUME NEW n \in Name, Opening(n), NEW s, Accepted(s), Aligned(s, open', Len(open) + 1)
  PROVE  Lands
<1>1. HandledDepth' = Len(open) + 1
  BY OpenedFacts DEF Accepted, Opening, HandledDepth
<1>2. QED
  BY <1>1 DEF Accepted, Lands

(* An unexpected element is not handled, it is skipped.                    *)
LEMMA UnexpectedLands ==
  ASSUME NEW n \in Name, Opening(n), NEW s, Unexpected(s, n), Aligned(s, open', Len(open))
  PROVE  Lands
<1>1. HandledDepth' = Len(open)
  BY OpenedFacts DEF Unexpected, HandledDepth
<1>2. QED
  BY <1>1 DEF Unexpected, Lands

(* An exception ends the parse.                                            *)
LEMMA ThrownLands == Thrown => Lands
  BY DEF Thrown, Lands

(* A new element parser is bound on top of s.                              *)
LEMMA BindLands ==
  ASSUME NEW n \in Name, Opening(n), NEW s \in Seq(Parser), Aligned(s, open', Len(open)),
         \A i \in 1..Len(s) : s[i].bound # NoNode /\ s[i].type # "skip",
         NEW k \in Kind, s # <<>> => k # RootKind, s = <<>> => k = RootKind,
         Bind(s, k, n)
  PROVE  Lands
<1>1. /\ Len(open) \in Nat /\ open' \in Seq(Name) /\ Len(open') = Len(open) + 1
      /\ open'[Len(open) + 1] = n /\ NodeOf[n] \in Node
  BY OpenedFacts
<1> DEFINE h == Len(open)
           q == Element(k, NodeOf[n], h + 1)
<1>2. CASE NodeOf[n] \in Binds[k]
  <2>1. q \in Parser
    BY <1>1, ElementType
  <2>2. /\ q.type = "element" /\ q.kinds = <<k>> /\ q.bound = NodeOf[n]
        /\ q.depth = 0 /\ q.at = h + 1
    BY DEF Element
  <2>3. q.kinds[1] = k /\ \A c \in 1..Len(q.kinds) : q.kinds[c] = k
    BY <2>2
  <2>4. Accepted(Append(s, q))
    BY <1>2 DEF Bind
  <2> HIDE DEF q
  <2>5. Aligned(Append(s, q), open', h + 1)
    BY <1>1, <1>2, <2>1, <2>2, <2>3, PushAligned
  <2>6. QED
    BY <2>4, <2>5, AcceptedLands
<1>3. CASE NodeOf[n] \notin Binds[k]
  BY <1>3, ThrownLands DEF Bind
<1>4. QED
  BY <1>2, <1>3

(* The first start tag of the document.                                    *)
LEMMA FirstStartLands ==
  ASSUME NEW n \in Name, Opening(n), NEW x \in BOOLEAN, HandledStart(n, x), stack = <<>>
  PROVE  Lands
<1> DEFINE s == <<RootParser>>
<1>1. Len(s) = 1 /\ s[1] = RootParser /\ s \in Seq(Parser) /\ s # <<>>
  BY RootParserType
<1>2. Last(s) = RootParser
  BY <1>1 DEF Last
<1>3. \/ BindUnbound(s, n) \/ OfferChild(s, n, x) \/ ResolveChoice(s, n)
      \/ NextInSequence(s, n) \/ SkipParserStart(s, n)
  BY DEF HandledStart
<1> HIDE DEF s
<1>4. Front(s) = <<>>
  <2> DEFINE f == Front(s)
  <2>1. f \in Seq(Parser) /\ Len(f) = 0
    BY <1>1, FrontLast
  <2>2. QED
    BY <2>1, EmptySeq
<1>5. /\ Last(s).type = "element" /\ Last(s).bound = NoNode /\ Last(s).kinds[1] = RootKind
  BY <1>2 DEF RootParser
<1>6. BindUnbound(s, n)
  BY <1>3, <1>5 DEF OfferChild, ResolveChoice, NextInSequence, SkipParserStart
<1>7. Bind(<<>>, RootKind, n)
  BY <1>4, <1>5, <1>6 DEF BindUnbound
<1>8. RootKind \in Kind
  BY TablesAssumption DEF TablesAssumption
<1> DEFINE e == <<>>
<1>9. /\ e \in Seq(Parser) /\ e = <<>> /\ Aligned(e, open', Len(open)) /\ Bind(e, RootKind, n)
      /\ \A i \in 1..Len(e) : FALSE
  BY <1>7, OpenedFacts, EmptySeq
<1> HIDE DEF e
<1>10. QED
  BY <1>8, <1>9, BindLands

(* The parser on top, that waited, gives way to the one for the element.   *)
LEMMA WaitingBindLands ==
  ASSUME NEW n \in Name, Opening(n), stack # <<>>, Last(stack).bound = NoNode,
         NEW c \in 1..Len(Last(stack).kinds), Bind(Front(stack), Last(stack).kinds[c], n)
  PROVE  Lands
<1>1. Len(open) \in Nat /\ stack \in Seq(Parser) /\ open' \in Seq(Name)
      /\ Aligned(stack, open', Len(open))
  BY OpenedFacts
<1>2. /\ \A i \in 1..Len(Front(stack)) : Front(stack)[i].bound # NoNode /\ Front(stack)[i].type # "skip"
      /\ Last(stack).at = Len(open)
      /\ Front(stack) # <<>> /\ Last(stack).kinds[c] # RootKind
  BY <1>1, BelowTop
<1>3. Aligned(Front(stack), open', Len(open))
  BY <1>1, <1>2, FrontAligned
<1>4. Front(stack) \in Seq(Parser) /\ Last(stack).kinds \in Seq(Kind)
  BY <1>1, TopTypes
<1>5. Last(stack).kinds[c] \in Kind
  BY <1>4, ElementOfSeq
<1>6. QED
  BY <1>2, <1>3, <1>4, <1>5, BindLands

(* When the top of the stack neither waits nor skips, no parser does.      *)
LEMMA NoneWaits ==
  ASSUME NEW s \in Seq(Parser), s # <<>>, NEW o, NEW h \in Nat, Aligned(s, o, h),
         Last(s).bound # NoNode, Last(s).type # "skip"
  PROVE  \A i \in 1..Len(s) : s[i].bound # NoNode /\ s[i].type # "skip"
<1>1. /\ Len(s) \in Nat /\ Last(s) = s[Len(s)]
      /\ Len(Front(s)) = Len(s) - 1
      /\ \A i \in 1..(Len(s) - 1) : Front(s)[i] = s[i]
  BY FrontLast
<1>2. \A i \in 1..(Len(s) - 1) : s[i].bound # NoNode /\ s[i].type # "skip"
  BY <1>1, BelowTop
<1>3. \A i \in 1..Len(s) : i \in 1..(Len(s) - 1) \/ i = Len(s)
  BY <1>1
<1>4. QED
  BY <1>1, <1>2, <1>3

(* A child that is expected is not of the node of the parser on top.       *)
LEMMA ExpectedChild ==
  ASSUME NEW n \in Name, Opening(n), CanOpen(n), stack # <<>>,
         Last(stack).type = "element", Last(stack).bound # NoNode, WellBehaved,
         Expects(Last(stack).kinds[1], NodeOf[n])
  PROVE  Aligned(stack, open', Len(open) + 1)
<1> DEFINE k == Last(stack).kinds[1]
           h == Len(open)
           o == open'
<1>1. /\ h \in Nat /\ stack \in Seq(Parser) /\ Aligned(stack, o, h) /\ o \in Seq(Name)
      /\ Len(o) = h + 1 /\ o[h + 1] = n /\ NodeOf[n] \in Node
  BY OpenedFacts
<1>2. k \in Kind
  BY <1>1, TopTypes
<1>3. Last(stack).at \in 1..h /\ Aligned(stack, open, h)
  BY <1>1, BelowTop DEF Opening
<1>4. NodeOf[open[Last(stack).at]] = Last(stack).bound /\ Last(stack).bound \in Binds[k]
  BY <1>1, <1>3, TopInCharge
<1>5. NodeOf[n] # Last(stack).bound
  <2> SUFFICES ASSUME NodeOf[n] = Last(stack).bound
               PROVE  FALSE
    OBVIOUS
  <2>1. NodeOf[n] \in NeverNested
    BY <1>1, <1>2, <1>4 DEF WellBehaved
  <2>2. \A i \in 1..h : NodeOf[open[i]] # NodeOf[n]
    BY <2>1 DEF CanOpen
  <2>3. QED
    BY <2>2, <1>3, <1>4
<1>6. /\ h + 1 <= Len(o) /\ NodeOf[o[h + 1]] \in Node /\ NodeOf[o[h + 1]] # Last(stack).bound
      /\ Expects(Last(stack).kinds[1], NodeOf[o[h + 1]])
  BY <1>1, <1>5
<1> HIDE DEF k, h, o
<1>7. Aligned(stack, o, h + 1)
  BY <1>1, <1>6, ChildAligned
<1>8. QED
  BY <1>7 DEF h, o

(* The parser on top gets the start tag of a child of its element.         *)
LEMMA OfferChildLands ==
  ASSUME NEW n \in Name, Opening(n), CanOpen(n), stack # <<>>, WellBehaved,
         NEW x \in BOOLEAN, OfferChild(stack, n, x)
  PROVE  Lands
<1> DEFINE k == Last(stack).kinds[1]
           h == Len(open)
           o == open'
<1>1. /\ h \in Nat /\ stack \in Seq(Parser) /\ Aligned(stack, o, h) /\ o \in Seq(Name)
      /\ Len(o) = h + 1 /\ o[h + 1] = n /\ NodeOf[n] \in Node
  BY OpenedFacts
<1>2. Last(stack).type = "element" /\ Last(stack).bound # NoNode
  BY DEF OfferChild
<1>3. k \in Kind /\ Last(stack).bound \in Binds[k]
  BY <1>1, <1>2, TopTypes, TopInCharge
<1>4. \A i \in 1..Len(stack) : stack[i].bound # NoNode /\ stack[i].type # "skip"
  BY <1>1, <1>2, NoneWaits
<1>5. PICK r \in ChildStart(k, NodeOf[n], x) :
        LET after == setParserForNextElement(stack, r, Len(open) + 1) IN
          \/ r.result = "accept" /\ Accepted(after)
          \/ r.result = "reject" /\ Unexpected(after, n)
          \/ r.result = "throw" /\ Thrown
  BY DEF OfferChild
<1> DEFINE after == setParserForNextElement(stack, r, h + 1)
<1>6. /\ r \in Reaction
      /\ r.push # <<>> =>
           /\ r.result = "accept"
           /\ r.push[1].type \in {"element", "choice"} => r.push[1].bound = NoNode
           /\ r.push[1].type = "sequence" => r.push[1].bound = NodeOf[n]
           /\ r.push[1].type = "skip" => r.push[1].bound \in {NoNode, NodeOf[n]}
           /\ \A i \in 1..Len(r.push[1].kinds) : r.push[1].kinds[i] # RootKind
  BY <1>1, <1>3, <1>5, TablesAssumption DEF TablesAssumption, WellBehaved
<1>7. CASE r.result = "throw"
  BY <1>5, <1>7, ThrownLands
<1>8. CASE r.result = "reject"
  <2>1. after = stack
    BY <1>6, <1>8 DEF setParserForNextElement
  <2>2. QED
    BY <2>1, <1>1, <1>5, <1>8, UnexpectedLands
<1>9. CASE r.result = "accept"
  <2>1. Accepted(after)
    BY <1>5, <1>9
  <2>2. r.push # <<>> => r.push[1].bound = NoNode \/ r.push[1].bound = NodeOf[n]
    <3>1. r.push # <<>> => r.push[1] \in Template
      BY <1>6, EmptySeq, ElementOfSeq, LenProperties DEF Reaction
    <3>2. QED
      BY <3>1, <1>6 DEF Template, ParserType
  <2>3. CASE r.push = <<>>
    <3>1. after = stack
      BY <2>3 DEF setParserForNextElement
    <3>2. Expects(k, NodeOf[n])
      BY <1>5, <1>9, <2>3 DEF Expects
    <3>3. Aligned(stack, open', Len(open) + 1)
      BY <3>2, <1>2, ExpectedChild
    <3>4. QED
      BY <3>1, <3>3, <2>1, AcceptedLands
  <2>4. CASE r.push # <<>>
    <3> DEFINE t == r.push[1]
               q == Instantiate(t, h + 1)
    <3>1. t \in Template
      BY <2>4, <1>6, EmptySeq, ElementOfSeq, LenProperties DEF Reaction
    <3>2. q \in Parser
      BY <3>1, <1>1, InstantiateType
    <3>3. /\ q.type = t.type /\ q.kinds = t.kinds /\ q.bound = t.bound /\ q.at = h + 1
          /\ q.type = "skip" /\ q.bound # NoNode => q.depth = 1
      BY DEF Instantiate
    <3>4. after = Append(stack, q)
      BY <2>4 DEF setParserForNextElement
    <3>5. t.type \in {"element", "choice", "sequence", "skip"}
      BY <3>1 DEF Template, ParserType
    <3>6. NoNode \notin Node
      BY TablesAssumption DEF TablesAssumption
    <3>7. /\ t.type \in {"element", "choice"} => t.bound = NoNode
          /\ t.type = "sequence" => t.bound = NodeOf[n]
          /\ t.bound = NoNode \/ t.bound = NodeOf[n]
          /\ \A i \in 1..Len(t.kinds) : t.kinds[i] # RootKind
      BY <1>6, <2>2, <2>4
    <3>8. t.bound = NoNode => Expects(k, NodeOf[n])
      BY <1>5, <1>9, <2>4 DEF Expects
    <3> HIDE DEF t, q, after
    <3>9. CASE t.bound = NoNode
      <4>1. Aligned(stack, open', Len(open) + 1)
        BY <3>8, <3>9, <1>2, ExpectedChild
      <4>2. Last(stack).at < h + 1
        BY <1>1, BelowTop
      <4>3. q.type \in {"element", "choice", "skip"}
        BY <3>3, <3>5, <3>6, <3>7, <3>9, <1>1
      <4> DEFINE h2 == h + 1
      <4>4. h2 \in Nat /\ Aligned(stack, o, h2) /\ Last(stack).at < h2 /\ q.at = h2
        BY <4>1, <4>2, <1>1, <3>3
      <4>5. \A c \in 1..Len(q.kinds) : q.kinds[c] # RootKind
        BY <3>3, <3>7
      <4>6. q.bound = NoNode
        BY <3>3, <3>9
      <4> HIDE DEF h2, h, o
      <4>7. Aligned(Append(stack, q), o, h2)
        BY <4>3, <4>4, <4>5, <4>6, <3>2, <1>1, <1>2, WaitAligned
      <4>8. QED
        BY <4>7, <3>4, <2>1, AcceptedLands DEF h2, h, o
    <3>10. CASE t.bound # NoNode
      <4>1. /\ q.type \in {"sequence", "skip"} /\ q.bound = NodeOf[n]
            /\ q.type = "skip" => q.depth = 1
        BY <3>3, <3>5, <3>7, <3>10
      <4>2. \A c \in 1..Len(q.kinds) : q.kinds[c] # RootKind
        BY <3>3, <3>7
      <4>3. /\ h + 1 <= Len(o) /\ NodeOf[o[h + 1]] \in Node /\ q.at = h + 1
            /\ q.bound = NodeOf[o[h + 1]] /\ q.type # "element"
        <5>1. h + 1 <= Len(o) /\ NodeOf[o[h + 1]] = NodeOf[n] /\ NodeOf[n] \in Node
          BY <1>1
        <5> HIDE DEF h, o
        <5>2. QED
          BY <5>1, <4>1, <3>3
      <4> HIDE DEF k, h, o
      <4>4. Aligned(Append(stack, q), o, h + 1)
        BY <4>1, <4>2, <4>3, <3>2, <1>1, <1>4, PushAligned
      <4>5. QED
        BY <4>4, <3>4, <2>1, AcceptedLands DEF h, o
    <3>11. QED
      BY <3>9, <3>10
  <2>5. QED
    BY <2>3, <2>4
<1>10. QED
  BY <1>5, <1>7, <1>8, <1>9

(* A delayed choice gives way to a parser for the element.                 *)
LEMMA ResolveChoiceLands ==
  ASSUME NEW n \in Name, Opening(n), stack # <<>>, ResolveChoice(stack, n)
  PROVE  Lands
<1>1. stack \in Seq(Parser) /\ Len(open) \in Nat /\ Aligned(stack, open', Len(open))
  BY OpenedFacts
<1>2. Last(stack).bound = NoNode
  <2>1. Last(stack).type = "choice"
    BY DEF ResolveChoice
  <2>2. QED
    BY <2>1, <1>1, TopInCharge
<1>3. CASE Thrown
  BY <1>3, ThrownLands
<1>4. CASE \E c \in 1..Len(Last(stack).kinds) : Bind(Front(stack), Last(stack).kinds[c], n)
  BY <1>2, <1>4, WaitingBindLands
<1>5. QED
  BY <1>3, <1>4 DEF ResolveChoice

(* A sequence parser puts a parser for the element on top of itself.       *)
LEMMA NextInSequenceLands ==
  ASSUME NEW n \in Name, Opening(n), stack # <<>>, NextInSequence(stack, n)
  PROVE  Lands
<1>1. stack \in Seq(Parser) /\ Len(open) \in Nat /\ Aligned(stack, open', Len(open))
  BY OpenedFacts
<1>2. Last(stack).type = "sequence" /\ Bind(stack, Last(stack).kinds[1], n)
  BY DEF NextInSequence
<1>3. Last(stack).bound # NoNode
  <2>1. Len(stack) \in Nat /\ Len(stack) >= 1 /\ Last(stack) = stack[Len(stack)]
    BY <1>1, FrontLast
  <2>2. Len(stack) \in 1..Len(stack)
    BY <2>1
  <2>3. InCharge(stack, open', Len(open), Len(stack))
    BY <2>2, <1>1 DEF Aligned
  <2>4. QED
    BY <2>1, <2>3, <1>2 DEF InCharge
<1>4. \A i \in 1..Len(stack) : stack[i].bound # NoNode /\ stack[i].type # "skip"
  BY <1>1, <1>2, <1>3, NoneWaits
<1>5. Last(stack).kinds[1] \in Kind
  BY <1>1, <1>2, TopTypes
<1>6. Last(stack).kinds[1] # RootKind
  <2>1. Front(stack) # <<>>
    BY <1>1, <1>2, BelowTop
  <2>2. \A c \in 1..Len(Last(stack).kinds) : Last(stack).kinds[c] # RootKind
    BY <2>1, <1>1, BelowTop
  <2>3. Last(stack).kinds \in Seq(Kind) /\ Last(stack).kinds # <<>>
    BY <1>1, <1>2, TopTypes, FrontLast DEF Parser
  <2>4. 1 \in 1..Len(Last(stack).kinds)
    BY <2>3, EmptySeq, LenProperties
  <2>5. QED
    BY <2>2, <2>4
<1>7. QED
  BY <1>1, <1>2, <1>4, <1>5, <1>6, BindLands

(* What the assignments to a SkipElementParser leave of it.                *)
LEMMA SkipParserFields ==
  ASSUME NEW p \in Parser, NEW node, NEW d, NEW pos
  PROVE  /\ LET q == [p EXCEPT !.bound = node, !.depth = d, !.at = pos] IN
              q.type = p.type /\ q.kinds = p.kinds /\ q.bound = node /\ q.depth = d /\ q.at = pos
         /\ LET q == [p EXCEPT !.depth = d] IN
              /\ q.type = p.type /\ q.kinds = p.kinds /\ q.bound = p.bound
              /\ q.depth = d /\ q.at = p.at
  BY DEF Parser

(* A skip parser binds to the element or counts it.                        *)
LEMMA SkipParserStartLands ==
  ASSUME NEW n \in Name, Opening(n), stack # <<>>, SkipParserStart(stack, n)
  PROVE  Lands
<1> DEFINE h == Len(open)
           o == open'
           p == Last(stack)
           f == Front(stack)
<1>1. /\ h \in Nat /\ stack \in Seq(Parser) /\ Aligned(stack, o, h) /\ o \in Seq(Name)
      /\ Len(o) = h + 1 /\ o[h + 1] = n /\ NodeOf[n] \in Node
  BY OpenedFacts
<1>2. p \in Parser /\ f \in Seq(Parser) /\ p.depth \in Int
  BY <1>1, TopTypes
<1>3. p.type = "skip"
  BY DEF SkipParserStart
<1>4. CASE p.bound = NoNode
  <2> DEFINE q == [p EXCEPT !.bound = NodeOf[n], !.depth = 1, !.at = h + 1]
  <2>1. q \in Parser
    <3>1. NodeOf[n] \in Node \cup {NoNode} /\ h + 1 \in Nat /\ 1 \in Int
      BY <1>1
    <3> HIDE DEF h, p
    <3>2. QED
      BY <3>1, <1>2, SkipParserTypes
  <2>2. /\ q.type = "skip" /\ q.kinds = p.kinds /\ q.bound = NodeOf[n]
        /\ q.depth = 1 /\ q.at = h + 1
    BY <1>2, <1>3, SkipParserFields
  <2>3. Accepted(Append(f, q))
    BY <1>4 DEF SkipParserStart
  <2>4. /\ p.at = h /\ f # <<>>
        /\ \A i \in 1..Len(f) : f[i].bound # NoNode /\ f[i].type # "skip"
        /\ \A c \in 1..Len(p.kinds) : p.kinds[c] # RootKind
    BY <1>1, <1>3, <1>4, BelowTop
  <2>5. Aligned(f, o, h)
    BY <2>4, <1>1, <1>4, FrontAligned
  <2>6. h + 1 <= Len(o) /\ NodeOf[o[h + 1]] \in Node /\ q.bound = NodeOf[o[h + 1]]
    BY <2>2, <1>1
  <2>7. \A c \in 1..Len(q.kinds) : q.kinds[c] # RootKind
    BY <2>2, <2>4
  <2> HIDE DEF q, h, o, p, f
  <2>8. Aligned(Append(f, q), o, h + 1)
    BY <2>1, <2>2, <2>4, <2>5, <2>6, <2>7, <1>1, <1>2, PushAligned
  <2>9. QED
    BY <2>3, <2>8, AcceptedLands DEF h, o
<1>5. CASE p.bound # NoNode
  <2> DEFINE d == p.depth + IF p.bound = NodeOf[n] THEN 1 ELSE 0
             q == IF p.bound = NodeOf[n] THEN [p EXCEPT !.depth = @ + 1] ELSE p
             h2 == h + 1
  <2>1. /\ q \in Parser /\ q.type = p.type /\ q.kinds = p.kinds /\ q.bound = p.bound
        /\ q.at = p.at /\ q.depth = d
    <3>1. CASE p.bound = NodeOf[n]
      <4>1. d = p.depth + 1 /\ d \in Int
        BY <3>1, <1>2
      <4>2. q = [p EXCEPT !.depth = d]
        BY <3>1, <4>1
      <4> HIDE DEF p, d, q
      <4>3. [p EXCEPT !.depth = d] \in Parser
        BY <4>1, <1>1, <1>2, SkipParserTypes
      <4>4. QED
        BY <4>2, <4>3, <1>2, SkipParserFields
    <3>2. CASE p.bound # NodeOf[n]
      BY <3>2, <1>2
    <3>3. QED
      BY <3>1, <3>2
  <2>2. Accepted(Append(f, q))
    BY <1>5 DEF SkipParserStart
  <2>3. p.at \in 1..h /\ p.depth = Cardinality((p.at..h) \cap Depths(o, h, p.bound))
    BY <1>1, <1>3, <1>5, BelowTop, TopInCharge
  <2>4. d = Cardinality((p.at..h2) \cap Depths(o, h2, p.bound))
    <3> DEFINE c == Cardinality((p.at..h) \cap Depths(o, h, p.bound))
               a == p.at
               b == p.bound
    <3>1. h + 1 <= Len(o) /\ a \in 1..(h + 1) /\ NodeOf[o[h + 1]] = NodeOf[n]
      BY <2>3, <1>1
    <3>2. p.depth = c
      BY <2>3
    <3> HIDE DEF h, o, a, b, p
    <3>3. Cardinality((a..(h + 1)) \cap Depths(o, h + 1, b)) =
            Cardinality((a..h) \cap Depths(o, h, b)) + IF NodeOf[o[h + 1]] = b THEN 1 ELSE 0
      BY <3>1, <1>1, DepthsGrow
    <3>4. QED
      BY <3>1, <3>2, <3>3 DEF a, b
  <2>5. \A j \in 1..h2 : NodeOf[o[j]] \in Node
    <3>1. \A j \in 1..h2 : j \in 1..h \/ j = h + 1
      BY <1>1
    <3>2. \A j \in 1..h : NodeOf[o[j]] \in Node
      BY <1>1 DEF Aligned
    <3>3. QED
      BY <3>1, <3>2, <1>1
  <2>6. h2 \in Nat /\ q.at <= h2 /\ h2 <= Len(o)
    BY <2>1, <2>3, <1>1
  <2>7. /\ q.depth = Cardinality((q.at..h2) \cap Depths(o, h2, q.bound))
        /\ q.type # "element" /\ q.type # "sequence"
    BY <2>1, <2>4, <1>3
  <2> HIDE DEF d, q, h2, h, o
  <2>8. Aligned(Append(Front(stack), q), o, h2)
    BY <2>1, <2>5, <2>6, <2>7, <1>1, <1>5, TopAligned
  <2>9. QED
    BY <2>2, <2>8, AcceptedLands DEF h2, h, o
<1>6. QED
  BY <1>4, <1>5

(* Every start tag that is not skipped.                                    *)
LEMMA HandledStartLands ==
  ASSUME NEW n \in Name, Opening(n), CanOpen(n), WellBehaved,
         NEW x \in BOOLEAN, HandledStart(n, x)
  PROVE  Lands
<1>1. CASE stack = <<>>
  BY <1>1, FirstStartLands
<1>2. CASE stack # <<>>
  <2>1. CASE BindUnbound(stack, n)
    <3>1. stack \in Seq(Parser)
      BY OpenedFacts
    <3>2. Last(stack).kinds \in Seq(Kind) /\ Last(stack).kinds # <<>>
      BY <3>1, <1>2, <2>1, TopTypes, FrontLast DEF Parser, BindUnbound
    <3>3. 1 \in 1..Len(Last(stack).kinds)
      BY <3>2, EmptySeq, LenProperties
    <3>4. QED
      BY <3>3, <1>2, <2>1, WaitingBindLands DEF BindUnbound
  <2>2. CASE OfferChild(stack, n, x)
    BY <2>2, <1>2, OfferChildLands
  <2>3. CASE ResolveChoice(stack, n)
    BY <2>3, <1>2, ResolveChoiceLands
  <2>4. CASE NextInSequence(stack, n)
    BY <2>4, <1>2, NextInSequenceLands
  <2>5. CASE SkipParserStart(stack, n)
    BY <2>5, <1>2, SkipParserStartLands
  <2>6. QED
    BY <2>1, <2>2, <2>3, <2>4, <2>5, <1>2 DEF HandledStart
<1>3. QED
  BY <1>1, <1>2

-----------------------------------------------------------------------------
(* End tags.                                                               *)

(* The innermost open element, which a parser has seen, is closed.         *)
Closing(s) ==
  /\ TypeOK
  /\ s \in Seq(Parser) /\ s # <<>>
  /\ Aligned(s, open, Len(open))
  /\ Last(s).type # "choice"
  /\ open # <<>>
  /\ open' = Front(open)

(* What the end tag of a handled element leaves behind.                    *)
Leaves ==
  \/ status' = "aborted" /\ delivered' = delivered
  \/ /\ status' = status
     /\ Aligned(stack', open', Len(open'))
     /\ delivered' = delivered \/ open' = <<>>

(* The document after an end tag that is not skipped.                      *)
LEMMA ClosedFacts ==
  ASSUME NEW s, Closing(s)
  PROVE  /\ Len(open) \in Nat /\ Len(open) >= 1
         /\ open \in Seq(Name) /\ open' \in Seq(Name)
         /\ Len(open') = Len(open) - 1
         /\ Last(open) = open[Len(open)]
         /\ NodeOf[Last(open)] \in Node
         /\ \A t \in Seq(Parser) : Aligned(t, open, Len(open) - 1) => Aligned(t, open', Len(open'))
<1>1. open \in Seq(Name) /\ open # <<>>
  BY DEF Closing, TypeOK
<1>2. /\ Len(open) \in Nat /\ Len(open) >= 1
      /\ open' \in Seq(Name) /\ Len(open') = Len(open) - 1
      /\ \A i \in 1..(Len(open) - 1) : open'[i] = open[i]
      /\ Last(open) = open[Len(open)]
  BY <1>1, FrontLast DEF Closing
<1>3. NodeOf[Last(open)] \in Node
  BY <1>2 DEF Closing, Aligned
<1>4. ASSUME NEW t \in Seq(Parser), Aligned(t, open, Len(open) - 1)
      PROVE  Aligned(t, open', Len(open'))
  <2> DEFINE h == Len(open) - 1
             o2 == open'
  <2>1. h \in Nat /\ h <= Len(o2) /\ o2 \in Seq(Name) /\ \A i \in 1..h : o2[i] = open[i]
    BY <1>2
  <2>2. Len(o2) = h
    BY <1>2
  <2> HIDE DEF h, o2
  <2>3. Aligned(t, o2, h)
    BY <2>1, <1>4, AlignedPrefix DEF h
  <2>4. QED
    BY <2>2, <2>3 DEF o2
<1>5. QED
  BY <1>1, <1>2, <1>3, <1>4

(* The parser on top is done with its element, which is the one that ends. *)
LEMMA TopLeaves ==
  ASSUME NEW s, Closing(s), Last(s).bound # NoNode, Last(s).at = Len(open)
  PROVE  /\ Aligned(Front(s), open', Len(open'))
         /\ Front(s) = <<>> => open' = <<>>
<1>1. Len(open) \in Nat /\ s \in Seq(Parser) /\ s # <<>> /\ Aligned(s, open, Len(open))
  BY ClosedFacts DEF Closing
<1>2. Aligned(Front(s), open, Len(open) - 1)
  BY <1>1, FrontAligned
<1>3. Front(s) \in Seq(Parser)
  BY <1>1, TopTypes
<1>4. Aligned(Front(s), open', Len(open'))
  BY <1>2, <1>3, ClosedFacts
<1>5. ASSUME Front(s) = <<>>
      PROVE  open' = <<>>
  <2>1. ~(Len(open') > 0)
    BY <1>4, <1>5 DEF Aligned, RootBelow
  <2>2. open' \in Seq(Name) /\ Len(open') = 0
    BY <2>1, ClosedFacts
  <2>3. QED
    BY <2>2, EmptySeq
<1>6. QED
  BY <1>4, <1>5

(* An element parser gets the end tag of its own element.                  *)
LEMMA CloseBoundLeaves ==
  ASSUME NEW s, Closing(s), CloseBound(s, NodeOf[Last(open)])
  PROVE  Leaves
<1> DEFINE h == Len(open)
<1>1. /\ h \in Nat /\ h >= 1 /\ s \in Seq(Parser) /\ s # <<>> /\ Aligned(s, open, h)
      /\ Last(open) = open[h] /\ NodeOf[Last(open)] \in Node
  BY ClosedFacts DEF Closing
<1>2. Last(s).type = "element" /\ Last(s).bound = NodeOf[open[h]] /\ Last(s).bound # NoNode
  BY <1>1, TablesAssumption DEF CloseBound, TablesAssumption
<1>3. /\ Last(s).at \in 1..h
      /\ \A j \in (Last(s).at + 1)..h : NodeOf[open[j]] # Last(s).bound
  <2> HIDE DEF h
  <2>1. Last(s).at \in 1..h
    BY <1>1, BelowTop
  <2>2. \A j \in (Last(s).at + 1)..h : NodeOf[open[j]] # Last(s).bound
    BY <1>1, <1>2, TopInCharge
  <2>3. QED
    BY <2>1, <2>2
<1>4. Last(s).at = h
  <2>1. Last(s).at # h => h \in (Last(s).at + 1)..h
    BY <1>1, <1>3
  <2>2. QED
    BY <2>1, <1>2, <1>3
<1>5. Aligned(Front(s), open', Len(open')) /\ (Front(s) = <<>> => open' = <<>>)
  BY <1>2, <1>4, TopLeaves
<1>6. Last(s).kinds[1] = RootKind => open' = <<>>
  <2>1. Front(s) # <<>> => \A c \in 1..Len(Last(s).kinds) : Last(s).kinds[c] # RootKind
    BY <1>1, BelowTop
  <2>2. 1 \in 1..Len(Last(s).kinds)
    <3>1. Last(s).kinds \in Seq(Kind) /\ Last(s).kinds # <<>>
      BY <1>1, <1>2, TopTypes, FrontLast DEF Parser
    <3>2. QED
      BY <3>1, EmptySeq, LenProperties
  <2>3. QED
    BY <2>1, <2>2, <1>5
<1>7. delivered' = delivered \/ open' = <<>>
  BY <1>6, Zenon DEF CloseBound, Closing, TypeOK
<1>8. QED
  BY <1>5, <1>7 DEF Leaves, CloseBound

(* An element parser gets the end tag of a child of its element.           *)
LEMMA CloseChildLeaves ==
  ASSUME NEW s, Closing(s), WellBehaved, CloseChild(s, NodeOf[Last(open)])
  PROVE  Leaves
<1> DEFINE h == Len(open)
           k == Last(s).kinds[1]
           node == NodeOf[Last(open)]
<1>1. /\ h \in Nat /\ h >= 1 /\ s \in Seq(Parser) /\ s # <<>> /\ Aligned(s, open, h)
      /\ Last(open) = open[h] /\ node \in Node /\ open \in Seq(Name)
  BY ClosedFacts DEF Closing
<1>2. Last(s).type = "element" /\ Last(s).bound # NoNode /\ Last(s).bound # node
  BY DEF CloseChild
<1>3. /\ Last(s).at \in 1..h /\ NodeOf[open[Last(s).at]] = Last(s).bound
      /\ Last(s).bound \in Binds[k]
      /\ \A j \in (Last(s).at + 1)..h : Expects(k, NodeOf[open[j]])
  BY <1>1, <1>2, BelowTop, TopInCharge
<1>4. Last(s).at < h
  BY <1>1, <1>2, <1>3
<1>5. k \in Kind /\ Expects(k, node)
  <2>1. h \in (Last(s).at + 1)..h
    BY <1>1, <1>3, <1>4
  <2>2. QED
    BY <2>1, <1>1, <1>2, <1>3, TopTypes
<1>6. PICK r \in ChildEnd(k, node) :
        /\ stack' = setParserForNextElement(s, r, Len(open) - 1)
        /\ rejected' = (rejected \/ r.result = "reject")
  BY DEF CloseChild
<1>7. r.push = <<>>
  BY <1>1, <1>3, <1>5 DEF WellBehaved
<1>8. stack' = s
  BY <1>6, <1>7 DEF setParserForNextElement
<1>9. Aligned(s, open, h - 1)
  BY <1>1, <1>2, <1>4, LeaveAligned
<1>10. Aligned(stack', open', Len(open'))
  BY <1>1, <1>8, <1>9, ClosedFacts
<1>11. QED
  BY <1>10 DEF Leaves, CloseChild

(* A sequence parser gets the end tag of its container.                    *)
LEMMA EndSequenceLeaves ==
  ASSUME NEW s, Closing(s), EndSequence(s, NodeOf[Last(open)])
  PROVE  Leaves
<1> DEFINE h == Len(open)
           node == NodeOf[Last(open)]
<1>1. /\ h \in Nat /\ h >= 1 /\ s \in Seq(Parser) /\ s # <<>> /\ Aligned(s, open, h)
      /\ Last(open) = open[h] /\ node \in Node
  BY ClosedFacts DEF Closing
<1>2. Last(s).type = "sequence"
  BY DEF EndSequence
<1>3. Last(s).bound # NoNode
  <2>1. Len(s) \in Nat /\ Len(s) >= 1 /\ Last(s) = s[Len(s)]
    BY <1>1, FrontLast
  <2>2. Len(s) \in 1..Len(s)
    BY <2>1
  <2>3. InCharge(s, open, h, Len(s))
    BY <2>2, <1>1 DEF Aligned
  <2>4. QED
    BY <2>1, <2>3, <1>2 DEF InCharge
<1>4. Last(s).at = h /\ NodeOf[open[Last(s).at]] = Last(s).bound
  BY <1>1, <1>2, <1>3, TopInCharge
<1>5. node = Last(s).bound
  BY <1>1, <1>4
<1>6. Aligned(Front(s), open', Len(open'))
  BY <1>3, <1>4, TopLeaves
<1>7. stack' = Front(s)
  BY <1>5 DEF EndSequence
<1>8. QED
  BY <1>6, <1>7 DEF Leaves, EndSequence

(* A skip parser that never got a start tag gives way; the parser below it *)
(* accepted the start tag of the element that ends.                        *)
LEMMA UnusedSkipLeaves ==
  ASSUME NEW s, Closing(s), Last(s).type = "skip", Last(s).bound = NoNode
  PROVE  Aligned(Front(s), open', Len(open'))
<1> DEFINE h == Len(open)
           f == Front(s)
           m == Len(s)
<1>1. /\ h \in Nat /\ h >= 1 /\ s \in Seq(Parser) /\ s # <<>> /\ Aligned(s, open, h)
      /\ open \in Seq(Name)
  BY ClosedFacts DEF Closing
<1>2. /\ Last(s).at = h /\ f # <<>>
      /\ \A i \in 1..Len(f) : f[i].bound # NoNode /\ f[i].type # "skip"
  BY <1>1, BelowTop
<1>3. Aligned(f, open, h)
  BY <1>1, <1>2, FrontAligned
<1>4. /\ m \in Nat /\ m >= 1 /\ f \in Seq(Parser) /\ Len(f) = m - 1
      /\ \A i \in 1..(m - 1) : f[i] = s[i]
      /\ Last(s) = s[m]
  BY <1>1, FrontLast
<1>5. m > 1
  BY <1>2, <1>4, EmptySeq
<1>6. Last(f) = s[m - 1] /\ f[m - 1] = s[m - 1] /\ m - 1 \in 1..Len(f) /\ m - 1 \in 1..m /\ m \in 1..m
  <2>1. Last(f) = f[Len(f)]
    BY <1>2, <1>4, FrontLast
  <2>2. QED
    BY <2>1, <1>4, <1>5
<1>7. Last(f).at < h
  <2>1. s[m - 1].at < s[m].at
    BY <1>1, <1>6, <1>4 DEF Aligned
  <2>2. QED
    BY <2>1, <1>2, <1>4, <1>6
<1>8. Last(f).bound # NoNode /\ Last(f).type # "skip"
  BY <1>2, <1>6
<1>9. Last(f).type = "element"
  <2>1. Last(f).type # "sequence" /\ Last(f).type # "choice"
    <3> HIDE DEF f, h, m
    <3>1. Last(f).type = "sequence" => Last(f).at = h
      BY <1>1, <1>2, <1>3, <1>4, <1>8, TopInCharge
    <3>2. Last(f).type # "choice"
      BY <1>1, <1>2, <1>3, <1>4, <1>8, TopInCharge
    <3>3. h \in Nat /\ Last(f).at < h
      BY <1>1, <1>7
    <3>4. Last(f).at # h
      <4>1. Last(f) \in Parser
        BY <1>2, <1>4, TopTypes
      <4>2. Last(f).at \in Nat
        BY <4>1 DEF Parser
      <4>3. QED
        BY <3>3, <4>2
    <3>5. QED
      BY <3>1, <3>2, <3>4
  <2>2. Last(f).type \in ParserType
    BY <1>2, <1>4, TopTypes
  <2>3. QED
    BY <2>1, <2>2, <1>8 DEF ParserType
<1> HIDE DEF f, h
<1>10. Aligned(f, open, h - 1)
  BY <1>1, <1>2, <1>3, <1>4, <1>7, <1>8, <1>9, LeaveAligned
<1>11. QED
  BY <1>4, <1>10, ClosedFacts DEF f, h

(* A skip parser that goes on, with one element of its node less to wait   *)
(* for if the element that ends is of its node.                            *)
LEMMA SkipGoesOn ==
  ASSUME NEW s, Closing(s), Last(s).type = "skip", Last(s).bound # NoNode,
         Last(s).at < Len(open),
         NEW q \in Parser, q.type = "skip", q.kinds = Last(s).kinds,
         q.bound = Last(s).bound, q.at = Last(s).at,
         q.depth = Last(s).depth - IF NodeOf[Last(open)] = Last(s).bound THEN 1 ELSE 0
  PROVE  Aligned(Append(Front(s), q), open', Len(open'))
<1> DEFINE h == Len(open)
           h2 == h - 1
           a == q.at
           b == q.bound
           c == Cardinality((a..h2) \cap Depths(open, h2, b))
<1>1. /\ h \in Nat /\ h >= 1 /\ s \in Seq(Parser) /\ s # <<>> /\ Aligned(s, open, h)
      /\ open \in Seq(Name) /\ Last(open) = open[h]
  BY ClosedFacts DEF Closing
<1>2. /\ a \in 1..h /\ h2 + 1 = h /\ h2 \in Nat /\ a \in 1..(h2 + 1) /\ a <= h2
      /\ h2 + 1 <= Len(open) /\ h2 <= Len(open)
  BY <1>1, BelowTop
<1>3. Last(s).depth = Cardinality((a..h) \cap Depths(open, h, b))
  BY <1>1, TopInCharge
<1>4. q.depth = c
  <2>1. h2 + 1 = h
    BY <1>2
  <2> HIDE DEF h, h2, a, b
  <2>2. /\ c \in Nat
        /\ Cardinality((a..(h2 + 1)) \cap Depths(open, h2 + 1, b)) =
             c + IF NodeOf[open[h2 + 1]] = b THEN 1 ELSE 0
    BY <1>1, <1>2, DepthsGrow
  <2>3. Last(s).depth = c + IF NodeOf[Last(open)] = b THEN 1 ELSE 0
    BY <2>1, <2>2, <1>1, <1>3
  <2> HIDE DEF c
  <2>4. q.depth = Last(s).depth - IF NodeOf[Last(open)] = b THEN 1 ELSE 0
    BY DEF b
  <2>5. QED
    BY <2>2, <2>3, <2>4
<1>5. \A j \in 1..h2 : NodeOf[open[j]] \in Node
  BY <1>1 DEF Aligned
<1> DEFINE t == Append(Front(s), q)
<1>6. Aligned(t, open, h2)
  <2>1. h2 \in Nat /\ q.at <= h2 /\ h2 <= Len(open) /\ q.type # "element" /\ q.type # "sequence"
    BY <1>2
  <2>2. q.depth = Cardinality((q.at..h2) \cap Depths(open, h2, q.bound))
    BY <1>4
  <2> HIDE DEF h, h2
  <2>3. QED
    BY <2>1, <2>2, <1>1, <1>5, TopAligned
<1>7. t \in Seq(Parser)
  BY <1>1, FrontLast, AppendLast
<1> HIDE DEF t
<1>8. QED
  BY <1>6, <1>7, ClosedFacts DEF t

(* A skip parser gets an end tag.                                          *)
LEMMA SkipParserEndLeaves ==
  ASSUME NEW s, Closing(s), SkipParserEnd(s, NodeOf[Last(open)])
  PROVE  Leaves
<1> DEFINE h == Len(open)
           p == Last(s)
           node == NodeOf[Last(open)]
<1>1. /\ h \in Nat /\ h >= 1 /\ s \in Seq(Parser) /\ s # <<>> /\ Aligned(s, open, h)
      /\ Last(open) = open[h] /\ node \in Node /\ open \in Seq(Name)
  BY ClosedFacts DEF Closing
<1>2. p.type = "skip"
  BY DEF SkipParserEnd
<1>3. p \in Parser /\ p.depth \in Int /\ p.at \in 1..h
  BY <1>1, TopTypes, BelowTop
<1>4. Aligned(stack', open', Len(open'))
  <2>1. CASE p.bound = NoNode
    <3>1. stack' = Front(s)
      BY <2>1 DEF SkipParserEnd
    <3>2. QED
      BY <2>1, <3>1, <1>2, UnusedSkipLeaves
  <2>2. CASE p.bound # NoNode /\ p.bound # node
    <3>1. stack' = s
      BY <2>2 DEF SkipParserEnd
    <3>2. p.at < h
      <4>1. NodeOf[open[p.at]] = p.bound
        BY <1>1, <2>2, TopInCharge
      <4>2. QED
        BY <4>1, <2>2, <1>1, <1>3
    <3>3. p.depth = p.depth - IF node = p.bound THEN 1 ELSE 0
      BY <2>2, <1>3
    <3> HIDE DEF p
    <3>4. Aligned(Append(Front(s), p), open', Len(open'))
      BY <2>2, <3>2, <3>3, <1>2, <1>3, SkipGoesOn DEF p
    <3>5. Append(Front(s), p) = s
      BY <1>1, AppendFrontLast DEF p
    <3>6. QED
      BY <3>1, <3>4, <3>5
  <2>3. CASE p.bound # NoNode /\ p.bound = node
    <3> DEFINE h2 == h - 1
               a == p.at
               b == p.bound
               c == Cardinality((a..h2) \cap Depths(open, h2, b))
    <3>1. h2 + 1 = h /\ h2 \in Nat /\ a \in 1..(h2 + 1) /\ h2 + 1 <= Len(open) /\ NodeOf[open[h2 + 1]] = b
      BY <2>3, <1>1, <1>3
    <3>2. p.depth = Cardinality((a..h) \cap Depths(open, h, b)) /\ NodeOf[open[a]] = b
      BY <1>1, <1>2, <2>3, TopInCharge
    <3>3. c \in Nat /\ p.depth = c + 1 /\ (c = 0 => (a..h2) \cap Depths(open, h2, b) = {})
      <4>0. h2 \in Nat /\ h2 + 1 <= Len(open) /\ a \in 1..(h2 + 1) /\ open \in Seq(Name)
        BY <3>1, <1>1
      <4> HIDE DEF h, h2, a, b, p, node
      <4>1. /\ c \in Nat
            /\ Cardinality((a..(h2 + 1)) \cap Depths(open, h2 + 1, b)) =
                 c + IF NodeOf[open[h2 + 1]] = b THEN 1 ELSE 0
            /\ c = 0 => (a..h2) \cap Depths(open, h2, b) = {}
        BY <4>0, DepthsGrow
      <4>2. QED
        BY <3>1, <3>2, <4>1
    <3>4. c = 0 <=> a = h
      <4>1. ASSUME a # h
            PROVE  a \in (a..h2) \cap Depths(open, h2, b)
        BY <4>1, <1>1, <1>3, <3>2 DEF Depths
      <4>2. ASSUME a = h
            PROVE  c = 0
        <5>1. (a..h2) \cap Depths(open, h2, b) = {}
          BY <4>2, <1>1
        <5>2. QED
          BY <5>1, FS_EmptySet
      <4>3. QED
        BY <4>1, <4>2, <3>3
    <3>5. CASE p.depth = 1
      <4>1. a = h
        BY <3>3, <3>4, <3>5
      <4>2. stack' = Front(s)
        BY <2>3, <3>5 DEF SkipParserEnd
      <4>3. QED
        BY <2>3, <4>1, <4>2, TopLeaves
    <3>6. CASE p.depth # 1
      <4> DEFINE q == [p EXCEPT !.depth = p.depth - 1]
      <4>1. p.at < h
        BY <3>1, <3>3, <3>4, <3>6
      <4>2. stack' = Append(Front(s), q)
        BY <2>3, <3>6 DEF SkipParserEnd
      <4>3. p.depth - 1 \in Int
        BY <1>3
      <4>4. /\ q \in Parser /\ q.type = p.type /\ q.kinds = p.kinds
            /\ q.bound = p.bound /\ q.at = p.at /\ q.depth = p.depth - 1
        <5> HIDE DEF p
        <5>1. q \in Parser
          BY <1>1, <1>3, <4>3, SkipParserTypes
        <5>2. QED
          BY <5>1, <1>3, SkipParserFields
      <4> HIDE DEF q
      <4>5. Aligned(Append(Front(s), q), open', Len(open'))
        BY <2>3, <4>1, <4>4, <1>2, SkipGoesOn
      <4>6. QED
        BY <4>2, <4>5
    <3>7. QED
      BY <3>5, <3>6
  <2>4. QED
    BY <2>1, <2>2, <2>3
<1>5. QED
  BY <1>4 DEF Leaves, SkipParserEnd

(* The parser that gets the end tag: a choice never made gives way first.  *)
LEMMA ChoiceDropped ==
  ASSUME TypeOK, Aligned(stack, open, Len(open)), open # <<>>, open' = Front(open)
  PROVE  Closing(IF stack # <<>> /\ Last(stack).type = "choice" THEN Front(stack) ELSE stack)
<1>1. /\ Len(open) \in Nat /\ Len(open) > 0 /\ stack \in Seq(Parser)
  BY FrontLast DEF TypeOK
<1>2. RootBelow(stack) /\ stack # <<>>
  BY <1>1 DEF Aligned, RootBelow
<1>3. CASE Last(stack).type # "choice"
  BY <1>1, <1>2, <1>3 DEF Closing
<1>4. CASE Last(stack).type = "choice"
  <2> DEFINE f == Front(stack)
             h == Len(open)
  <2>1. Last(stack).bound = NoNode
    BY <1>1, <1>2, <1>4, TopInCharge
  <2>2. /\ Last(stack).at = h /\ f # <<>>
        /\ \A i \in 1..Len(f) : f[i].bound # NoNode
    BY <1>1, <1>2, <2>1, BelowTop
  <2>3. Aligned(f, open, h)
    BY <1>1, <1>2, <2>1, <2>2, FrontAligned
  <2>4. f \in Seq(Parser)
    BY <1>1, <1>2, TopTypes
  <2>5. Last(f).bound # NoNode
    <3> HIDE DEF f
    <3>1. Len(f) \in Nat /\ Len(f) >= 1 /\ Last(f) = f[Len(f)]
      BY <2>2, <2>4, FrontLast
    <3>2. QED
      BY <2>2, <3>1
  <2>6. Last(f).type # "choice"
    <3> HIDE DEF f
    <3>1. QED
      BY <1>1, <2>2, <2>3, <2>4, <2>5, TopInCharge
  <2>7. QED
    BY <1>2, <1>4, <2>2, <2>3, <2>4, <2>6 DEF Closing
<1>5. QED
  BY <1>3, <1>4

(* Every end tag that is not skipped.                                      *)
LEMMA HandledEndLeaves ==
  ASSUME TypeOK, WellBehaved, Aligned(stack, open, Len(open)),
         open # <<>>, open' = Front(open), HandledEnd
  PROVE  Leaves /\ skip' = skip
<1> DEFINE s == IF stack # <<>> /\ Last(stack).type = "choice" THEN Front(stack) ELSE stack
           node == NodeOf[Last(open)]
<1>1. Closing(s)
  BY ChoiceDropped
<1>2. s # <<>> /\ node # NoNode
  BY <1>1, ClosedFacts, TablesAssumption DEF Closing, TablesAssumption
<1>3. \/ CloseBound(s, node) \/ CloseChild(s, node) \/ EndUnbound(s)
      \/ EndSequence(s, node) \/ SkipParserEnd(s, node)
  BY <1>2 DEF HandledEnd
<1> HIDE DEF s
<1>4. CASE EndUnbound(s)
  BY <1>4 DEF EndUnbound, Leaves
<1>5. Leaves
  BY <1>1, <1>3, <1>4, CloseBoundLeaves, CloseChildLeaves, EndSequenceLeaves, SkipParserEndLeaves
<1>6. skip' = skip
  BY <1>3 DEF CloseBound, CloseChild, EndUnbound, EndSequence, SkipParserEnd
<1>7. QED
  BY <1>5, <1>6

-----------------------------------------------------------------------------
(* Skipped elements.                                                       *)

(* No parser sees what happens inside a skipped element.                   *)
LEMMA SkippedEndDepth ==
  ASSUME TypeOK, SkipBalanced, SkippedEnd, open # <<>>, open' = Front(open)
  PROVE  HandledDepth' = HandledDepth /\ HandledDepth \in Nat /\ HandledDepth <= Len(open')
<1>1. /\ open \in Seq(Name) /\ open' \in Seq(Name)
      /\ Len(open) \in Nat /\ Len(open') = Len(open) - 1
      /\ Last(open) = open[Len(open)]
  BY FrontLast DEF TypeOK
<1>2. /\ skip.on /\ skip.at \in 1..Len(open)
      /\ skip.depth = Cardinality(Namesakes(open, skip.at, skip.name))
  BY SkipBalancedDef DEF SkippedEnd
<1>3. HandledDepth = skip.at - 1
  BY <1>2 DEF HandledDepth
<1>4. CASE Last(open) = skip.name /\ skip.depth = 0
  <2>1. skip' = NotSkipping(-1)
    BY <1>4 DEF SkippedEnd
  <2>2. HandledDepth' = Len(open')
    BY <2>1 DEF HandledDepth, NotSkipping
  <2>3. skip.at = Len(open)
    <3>1. ASSUME skip.at < Len(open)
          PROVE  FALSE
      <4>1. /\ Cardinality(Namesakes(Front(open), skip.at, skip.name)) \in Nat
            /\ Cardinality(Namesakes(open, skip.at, skip.name)) =
                 Cardinality(Namesakes(Front(open), skip.at, skip.name)) + 1
        <5>1. skip.at \in Nat
          BY DEF TypeOK
        <5>2. /\ Cardinality(Namesakes(Front(open), skip.at, skip.name)) \in Nat
              /\ Cardinality(Namesakes(open, skip.at, skip.name)) =
                   Cardinality(Namesakes(Front(open), skip.at, skip.name))
                     + IF Last(open) = skip.name THEN 1 ELSE 0
          BY <5>1, <1>1, <3>1, NamesakesShrink
        <5>3. QED
          BY <5>2, <1>4
      <4>2. QED
        BY <4>1, <1>2, <1>4
    <3>2. QED
      BY <3>1, <1>1, <1>2
  <2>4. QED
    BY <2>2, <2>3, <1>1, <1>3
<1>5. CASE ~(Last(open) = skip.name /\ skip.depth = 0)
  <2>1. skip'.on = skip.on /\ skip'.at = skip.at
    <3>1. skip \in SkipRecord
      BY DEF TypeOK, SkipRecord
    <3>2. CASE Last(open) = skip.name
      BY <3>1, <3>2, <1>5, SkipDepth DEF SkippedEnd
    <3>3. CASE Last(open) # skip.name
      BY <3>3 DEF SkippedEnd
    <3>4. QED
      BY <3>2, <3>3
  <2>2. QED
    BY <2>1, <1>1, <1>2, <1>3 DEF HandledDepth
<1>6. QED
  BY <1>4, <1>5

(* Nor does a skipped start tag change what is handled.                    *)
LEMMA SkippedStartDepth ==
  ASSUME TypeOK, SkipBalanced, NEW n \in Name, SkippedStart(n), open' = Append(open, n)
  PROVE  HandledDepth' = HandledDepth /\ HandledDepth \in Nat /\ HandledDepth <= Len(open')
<1>1. Len(open) \in Nat /\ Len(open') = Len(open) + 1
  BY AppendLast DEF TypeOK
<1>2. skip.on /\ skip.at \in 1..Len(open)
  BY SkipBalancedDef DEF SkippedStart
<1>3. skip'.on = skip.on /\ skip'.at = skip.at
  <2>1. skip \in SkipRecord
    BY DEF TypeOK, SkipRecord
  <2>2. CASE n = skip.name
    BY <2>1, <2>2, SkipDepth DEF SkippedStart
  <2>3. CASE n # skip.name
    BY <2>3 DEF SkippedStart
  <2>4. QED
    BY <2>2, <2>3
<1>4. QED
  BY <1>1, <1>2, <1>3 DEF HandledDepth

-----------------------------------------------------------------------------
(* The invariant.                                                          *)

StackInv ==
  /\ status = "initial" => open = <<>> /\ stack = <<>> /\ ~skip.on /\ ~delivered
  /\ status \in {"initial", "parsing"} => Aligned(stack, open, HandledDepth)
  /\ delivered => open = <<>>

(* The stack invariant holds before the document.                          *)
LEMMA StackInit == Init => StackInv
<1> SUFFICES ASSUME Init
             PROVE  StackInv
  OBVIOUS
<1>1. open = <<>> /\ stack = <<>> /\ ~skip.on /\ ~delivered
  BY DEF Init, NotSkipping
<1>2. HandledDepth = 0 /\ Len(stack) = 0 /\ Len(open) = 0
  BY <1>1, EmptySeq DEF HandledDepth
<1>3. Aligned(stack, open, 0)
  BY <1>2 DEF Aligned
<1>4. QED
  BY <1>1, <1>2, <1>3 DEF StackInv

(* A start tag keeps the stack invariant.                                  *)
LEMMA StartStack ==
  ASSUME TypeOK, SkipBalanced, StackInv, WellBehaved,
         NEW n \in Name, NEW x \in BOOLEAN, StartElement(n, x)
  PROVE  StackInv'
<1>1. /\ open' = Append(open, n) /\ delivered' = delivered /\ CanOpen(n)
      /\ open \in Seq(Name) /\ stack \in Seq(Parser)
  BY DEF StartElement, TypeOK
<1>2. Aligned(stack, open, HandledDepth) /\ ~delivered
  BY <1>1 DEF CanOpen, StackInv
<1>3. /\ Len(open) \in Nat /\ open' \in Seq(Name) /\ Len(open') = Len(open) + 1
      /\ \A i \in 1..Len(open) : open'[i] = open[i]
  BY <1>1, AppendLast
<1>4. HandledDepth \in 0..Len(open)
  BY <1>2 DEF Aligned
<1> DEFINE h == HandledDepth
           o2 == open'
<1>5. Aligned(stack, o2, h)
  <2>1. h \in Nat /\ h <= Len(o2) /\ o2 \in Seq(Name) /\ \A i \in 1..h : o2[i] = open[i]
    BY <1>3, <1>4
  <2>2. Aligned(stack, open, h)
    BY <1>2
  <2> HIDE DEF h, o2
  <2>3. QED
    BY <2>1, <2>2, <1>1, AlignedPrefix
<1>6. Lands
  <2>1. CASE SkippedStart(n)
    <3>1. HandledDepth' = HandledDepth /\ stack' = stack /\ status' = "parsing"
      BY <2>1, <1>1, SkippedStartDepth DEF SkippedStart
    <3>2. QED
      BY <3>1, <1>5 DEF Lands
  <2>2. CASE UnknownStart(n)
    <3>1. ~skip.on /\ Unexpected(stack, n)
      BY <2>2 DEF UnknownStart
    <3>2. HandledDepth' = HandledDepth /\ stack' = stack /\ status' = "parsing"
      BY <3>1, <1>3 DEF Unexpected, HandledDepth
    <3>3. QED
      BY <3>2, <1>5 DEF Lands
  <2>3. CASE HandledStart(n, x)
    <3>1. Opening(n)
      BY <2>3, <1>1, <1>2 DEF Opening, HandledStart, HandledDepth
    <3>2. QED
      BY <2>3, <3>1, <1>1, HandledStartLands
  <2>4. QED
    BY <2>1, <2>2, <2>3 DEF StartElement
<1>7. QED
  BY <1>1, <1>2, <1>6 DEF Lands, StackInv

(* An end tag keeps the stack invariant.                                   *)
LEMMA EndStack ==
  ASSUME TypeOK, SkipBalanced, StackInv, WellBehaved, EndElement
  PROVE  StackInv'
<1>1. /\ status = "parsing" /\ open # <<>> /\ open' = Front(open)
      /\ open \in Seq(Name) /\ stack \in Seq(Parser)
  BY DEF EndElement, TypeOK
<1>2. Aligned(stack, open, HandledDepth) /\ ~delivered
  BY <1>1 DEF StackInv
<1>3. /\ Len(open) \in Nat /\ open' \in Seq(Name)
      /\ \A i \in 1..Len(open') : open'[i] = open[i]
  BY <1>1, FrontLast
<1>4. CASE SkippedEnd
  <2> DEFINE h == HandledDepth
             o2 == open'
  <2>1. HandledDepth' = h /\ h \in Nat /\ h <= Len(o2)
    BY <1>1, <1>4, SkippedEndDepth
  <2>2. /\ stack' = stack /\ status' = status /\ delivered' = delivered
    BY <1>4 DEF SkippedEnd
  <2>3. Aligned(stack, o2, h)
    <3>1. o2 \in Seq(Name) /\ \A i \in 1..h : o2[i] = open[i]
      <4>1. Len(o2) \in Nat
        BY <1>3, LenProperties
      <4>2. QED
        BY <4>1, <2>1, <1>3
    <3>2. Aligned(stack, open, h)
      BY <1>2
    <3> HIDE DEF h, o2
    <3>3. QED
      BY <3>1, <3>2, <2>1, <1>1, AlignedPrefix
  <2>4. QED
    BY <2>1, <2>2, <2>3, <1>1, <1>2 DEF StackInv
<1>5. CASE HandledEnd
  <2>1. ~skip.on
    BY <1>5 DEF HandledEnd
  <2>2. Aligned(stack, open, Len(open))
    BY <1>2, <2>1 DEF HandledDepth
  <2>3. Leaves /\ skip' = skip
    BY <2>2, <1>1, <1>5, HandledEndLeaves
  <2>4. HandledDepth' = Len(open')
    BY <2>1, <2>3 DEF HandledDepth
  <2>5. QED
    BY <2>3, <2>4, <1>1, <1>2 DEF Leaves, StackInv
<1>6. QED
  BY <1>4, <1>5 DEF EndElement

(* Every step keeps the stack invariant.                                   *)
LEMMA StackInductive ==
  ASSUME WellBehaved
  PROVE  TypeOK /\ SkipBalanced /\ StackInv /\ [Next]_vars => StackInv'
<1> SUFFICES ASSUME TypeOK, SkipBalanced, StackInv, [Next]_vars
             PROVE  StackInv'
  OBVIOUS
<1>1. ASSUME NEW n \in Name, NEW x \in BOOLEAN, StartElement(n, x)
      PROVE  StackInv'
  BY <1>1, StartStack
<1>2. CASE EndElement
  BY <1>2, EndStack
<1>3. CASE EndDocument \/ XmlFatalError
  BY <1>3 DEF EndDocument, XmlFatalError, StackInv
<1>4. CASE UNCHANGED vars
  BY <1>4 DEF vars, StackInv, HandledDepth
<1>5. QED
  BY <1>1, <1>2, <1>3, <1>4 DEF Next

(* The stack invariant, which the theorems below follow from.              *)
LEMMA StackInvariant ==
  ASSUME WellBehaved
  PROVE  Spec => [](TypeOK /\ SkipBalanced /\ StackInv)
<1>1. Init => TypeOK /\ SkipBalanced /\ StackInv
  <2>1. Init => SkipBalanced
    BY DEF Init, NotSkipping, SkipBalanced
  <2>2. QED
    BY <2>1, InitTypes, StackInit
<1>2. (TypeOK /\ SkipBalanced /\ StackInv) /\ [Next]_vars => (TypeOK /\ SkipBalanced /\ StackInv)'
  BY TypeInductive, SkipInductive, StackInductive
<1>3. QED
  BY <1>1, <1>2, PTL DEF Spec

-----------------------------------------------------------------------------
(* What it means for the parser.                                           *)

(* With well-behaved element parsers the parser stack mirrors the open     *)
(* elements at any time: every parser is bound to an open element of its   *)
(* own node, inside that of the parser below it, and only the top waits    *)
(* (setCurrentElementParser, removeCurrentElementParser and the handlers   *)
(* of the generic parsers).                                                *)
THEOREM ParserStackAligned ==
  ASSUME WellBehaved
  PROVE  Spec => []StackAligned
<1>1. TypeOK /\ StackInv => StackAligned
  <2> SUFFICES ASSUME TypeOK, StackInv, status = "parsing",
                      NEW i \in 1..Len(stack)
               PROVE  /\ stack[i].at <= HandledDepth
                      /\ stack[i].bound # NoNode =>
                           stack[i].at > 0 /\ NodeOf[open[stack[i].at]] = stack[i].bound
                      /\ stack[i].bound = NoNode => i = Len(stack) /\ stack[i].at = HandledDepth
                      /\ \A j \in 1..Len(stack) : i < j => stack[i].at < stack[j].at
    BY DEF StackAligned
  <2>1. Aligned(stack, open, HandledDepth)
    BY DEF StackInv
  <2>2. Placed(stack, open, HandledDepth, i) /\ HandledDepth \in Int
    BY <2>1 DEF Aligned
  <2>3. QED
    BY <2>1, <2>2 DEF Aligned, Placed
<1>2. QED
  BY <1>1, StackInvariant, PTL

(* Every end tag that is not skipped finds a parser in charge: endElement  *)
(* never throws its "Unexpected element end." for a well-formed document.  *)
THEOREM EndTagParserThere ==
  ASSUME WellBehaved
  PROVE  Spec => []EndTagHasParser
<1>1. StackInv => EndTagHasParser
  <2> SUFFICES ASSUME StackInv, status = "parsing", HandledDepth > 0
               PROVE  /\ NodeOf[open[HandledDepth]] # NoNode
                      /\ RootBelow(stack)
    BY DEF EndTagHasParser, RootBelow
  <2>1. Aligned(stack, open, HandledDepth)
    BY DEF StackInv
  <2>2. HandledDepth \in 1..HandledDepth
    BY <2>1 DEF Aligned
  <2>3. QED
    BY <2>1, <2>2, TablesAssumption DEF Aligned, TablesAssumption
<1>2. QED
  BY <1>1, StackInvariant, PTL

(* When the root element has ended, no parser is left and nothing is being *)
(* skipped; the model is handed over at the root's end tag and not before. *)
THEOREM RootEndsParsing ==
  ASSUME WellBehaved
  PROVE  Spec => []NothingLeftOpen
<1>1. TypeOK /\ SkipBalanced /\ StackInv => NothingLeftOpen
  <2> SUFFICES ASSUME TypeOK, SkipBalanced, StackInv, status = "parsing", open = <<>>
               PROVE  stack = <<>> /\ ~skip.on
    BY DEF NothingLeftOpen, StackInv
  <2>1. Len(open) = 0
    BY EmptySeq
  <2>2. ~skip.on
    BY <2>1 DEF SkipBalanced
  <2>3. Aligned(stack, open, 0)
    BY <2>1, <2>2 DEF StackInv, HandledDepth
  <2>4. \A i \in 1..Len(stack) : FALSE
    BY <2>3 DEF Aligned, Placed
  <2>5. stack \in Seq(Parser)
    BY DEF TypeOK
  <2>6. Len(stack) = 0
    BY <2>4, <2>5, LenProperties
  <2>7. QED
    BY <2>2, <2>5, <2>6, EmptySeq
<1>2. QED
  BY <1>1, StackInvariant, PTL

(* The end tag of every handled element comes to a parser bound to it, to  *)
(* a skip parser, or to a parser that expected its start tag and does not  *)
(* take it for its own element's, although endElement compares nodes only: *)
(* what a parser then reports as unknown is missing in its own end tags.   *)
THEOREM ExpectedToTheEnd ==
  ASSUME WellBehaved
  PROVE  Spec => []EndTagsExpected
<1>1. TypeOK /\ StackInv => EndTagsExpected
  <2> SUFFICES ASSUME TypeOK, StackInv, status = "parsing",
                      NEW i \in 1..Len(stack), NEW j \in 1..HandledDepth,
                      stack[i].bound # NoNode, stack[i].at < j,
                      \A k \in (i + 1)..Len(stack) : stack[k].bound # NoNode => j < stack[k].at
               PROVE  \/ stack[i].type = "skip"
                      \/ /\ stack[i].type = "element"
                         /\ Expects(stack[i].kinds[1], NodeOf[open[j]])
                         /\ NodeOf[open[j]] # stack[i].bound
    BY DEF EndTagsExpected
  <2> DEFINE h == HandledDepth
  <2>1. Aligned(stack, open, h) /\ h \in Int
    BY DEF StackInv, Aligned
  <2>2. InCharge(stack, open, h, i) /\ stack[i].at \in Nat
    BY <2>1 DEF Aligned, Placed
  <2>3. stack \in Seq(Parser) /\ stack[i] \in Parser
    BY DEF TypeOK
  <2> HIDE DEF h
  <2>4. j <= Upper(stack, h, i)
    <3>1. CASE i = Len(stack)
      BY <3>1, <2>1 DEF Upper, h
    <3>2. CASE i # Len(stack)
      <4>1. i + 1 \in (i + 1)..Len(stack) /\ i + 1 \in 1..Len(stack)
        BY <3>2, <2>3, LenProperties
      <4>2. Placed(stack, open, h, i + 1)
        BY <4>1, <2>1 DEF Aligned
      <4>3. CASE stack[i + 1].bound = NoNode
        BY <4>2, <4>3, <3>2, <2>1 DEF Upper, Placed, h
      <4>4. CASE stack[i + 1].bound # NoNode
        BY <4>1, <4>2, <4>4, <3>2, <2>1 DEF Upper, Placed, h
      <4>5. QED
        BY <4>3, <4>4
    <3>3. QED
      BY <3>1, <3>2
  <2>5. Upper(stack, h, i) \in Int
    <3>1. CASE i = Len(stack)
      BY <3>1, <2>1 DEF Upper
    <3>2. CASE i # Len(stack)
      <4>1. i + 1 \in 1..Len(stack)
        BY <3>2, <2>3, LenProperties
      <4>2. stack[i + 1].at \in Int
        BY <4>1, <2>1 DEF Aligned, Placed
      <4>3. QED
        BY <4>2, <3>2 DEF Upper
    <3>3. QED
      BY <3>1, <3>2
  <2>6. j \in (stack[i].at + 1)..Upper(stack, h, i)
    BY <2>1, <2>2, <2>4, <2>5 DEF h
  <2>7. stack[i].type \in ParserType
    BY <2>3 DEF Parser
  <2>8. QED
    BY <2>2, <2>5, <2>6, <2>7 DEF InCharge, ParserType
<1>2. QED
  BY <1>1, StackInvariant, PTL

-----------------------------------------------------------------------------
(* Who is in charge of an element.                                         *)

(* The bound parsers of a stack whose element is not deeper than j.        *)
BoundUpTo(s, j) == {i \in 1..Len(s) : s[i].bound # NoNode /\ s[i].at <= j}

Chain(s, j) == {<<i, s[i].type, s[i].kinds>> : i \in BoundUpTo(s, j)}

(* The parsers in charge, with the set of bound parsers named.             *)
LEMMA CallChainDef ==
  ASSUME NEW j
  PROVE  CallChain(j) = IF skip.on /\ j >= skip.at THEN {} ELSE Chain(stack, j)
  BY DEF CallChain, Chain, BoundUpTo

(* Stacks with the same bound parsers up to a depth give the same answer.  *)
LEMMA SameChain ==
  ASSUME NEW s, NEW t, NEW j, BoundUpTo(s, j) = BoundUpTo(t, j),
         \A i \in BoundUpTo(s, j) : s[i].type = t[i].type /\ s[i].kinds = t[i].kinds
  PROVE  Chain(s, j) = Chain(t, j)
  BY DEF Chain

(* A parser that waits, or is bound to a deeper element, does not count.   *)
LEMMA ChainAppend ==
  ASSUME NEW s \in Seq(Parser), NEW q \in Parser, NEW j \in Nat,
         q.bound = NoNode \/ j < q.at
  PROVE  Chain(Append(s, q), j) = Chain(s, j)
<1> DEFINE t == Append(s, q)
<1>1. /\ Len(s) \in Nat /\ Len(t) = Len(s) + 1 /\ t[Len(s) + 1] = q
      /\ \A i \in 1..Len(s) : t[i] = s[i]
  BY AppendLast
<1>2. q.at \in Nat
  BY DEF Parser
<1> HIDE DEF t
<1>3. BoundUpTo(t, j) \subseteq 1..Len(s)
  BY <1>1, <1>2 DEF BoundUpTo
<1>4. BoundUpTo(t, j) = BoundUpTo(s, j)
  BY <1>1, <1>3 DEF BoundUpTo
<1>5. \A i \in BoundUpTo(t, j) : t[i].type = s[i].type /\ t[i].kinds = s[i].kinds
  BY <1>1, <1>3
<1>6. QED
  BY <1>4, <1>5, SameChain DEF t

(* Nor does it when it leaves the stack.                                   *)
LEMMA ChainFront ==
  ASSUME NEW s \in Seq(Parser), s # <<>>, NEW j \in Nat,
         Last(s).bound = NoNode \/ j < Last(s).at
  PROVE  Chain(Front(s), j) = Chain(s, j)
<1>1. Front(s) \in Seq(Parser) /\ Last(s) \in Parser
  BY FrontLast
<1>2. Chain(Append(Front(s), Last(s)), j) = Chain(Front(s), j)
  BY <1>1, ChainAppend
<1>3. QED
  BY <1>2, AppendFrontLast

(* A parser that only counts stays in charge of what it was.               *)
LEMMA ChainReplace ==
  ASSUME NEW s \in Seq(Parser), s # <<>>, NEW q \in Parser, NEW j \in Nat,
         q.type = Last(s).type, q.kinds = Last(s).kinds,
         q.bound = Last(s).bound, q.at = Last(s).at
  PROVE  Chain(Append(Front(s), q), j) = Chain(s, j)
<1> DEFINE t == Append(Front(s), q)
           m == Len(s)
<1>1. /\ m \in Nat /\ m >= 1
      /\ Front(s) \in Seq(Parser) /\ Len(Front(s)) = m - 1
      /\ \A i \in 1..(m - 1) : Front(s)[i] = s[i]
      /\ Last(s) = s[m]
  BY FrontLast
<1>2. /\ Len(t) = m /\ t[m] = q
      /\ \A i \in 1..(m - 1) : t[i] = s[i]
  BY <1>1, AppendLast
<1> HIDE DEF t
<1>3. ASSUME NEW i \in 1..m
      PROVE  /\ t[i].type = s[i].type /\ t[i].kinds = s[i].kinds
             /\ t[i].bound = s[i].bound /\ t[i].at = s[i].at
  <2>1. i \in 1..(m - 1) \/ i = m
    BY <1>1
  <2>2. QED
    BY <2>1, <1>1, <1>2
<1>4. BoundUpTo(t, j) = BoundUpTo(s, j)
  BY <1>2, <1>3 DEF BoundUpTo
<1>5. \A i \in BoundUpTo(t, j) : t[i].type = s[i].type /\ t[i].kinds = s[i].kinds
  BY <1>2, <1>3 DEF BoundUpTo
<1>6. QED
  BY <1>4, <1>5, SameChain DEF t

(* The element does not change hands, whatever becomes of the skip.        *)
LEMMA AcceptedKeeps ==
  ASSUME NEW s, Accepted(s), NEW j, Chain(s, j) = Chain(stack, j)
  PROVE  CallChain(j)' = CallChain(j)
  BY CallChainDef DEF Accepted, Chain, BoundUpTo, CallChain

(* Nor does it when an unexpected element begins, which is deeper.         *)
LEMMA UnexpectedKeeps ==
  ASSUME NEW s, NEW n, Unexpected(s, n), ~skip.on, NEW j \in Nat, Len(open) \in Nat,
         j <= Len(open), Chain(s, j) = Chain(stack, j)
  PROVE  CallChain(j)' = CallChain(j)
<1>1. skip'.at = Len(open) + 1 /\ stack' = s
  BY DEF Unexpected
<1>2. CallChain(j)' = Chain(s, j)
  BY <1>1 DEF CallChain, Chain, BoundUpTo
<1>3. CallChain(j) = Chain(stack, j)
  BY CallChainDef
<1>4. QED
  BY <1>2, <1>3

(* An exception leaves the stack as it is.                                 *)
LEMMA ThrownKeeps ==
  ASSUME Thrown, NEW j
  PROVE  CallChain(j)' = CallChain(j)
  BY DEF Thrown, CallChain

(* A parser that is bound to a new element is not in charge of others.     *)
LEMMA BindKeeps ==
  ASSUME TypeOK, ~skip.on, NEW n \in Name, NEW k \in Kind, NEW s \in Seq(Parser), Bind(s, k, n),
         NEW j \in 1..Len(open), Chain(s, j) = Chain(stack, j)
  PROVE  CallChain(j)' = CallChain(j)
<1> DEFINE q == Element(k, NodeOf[n], Len(open) + 1)
<1>1. Len(open) \in Nat
  BY LenProperties DEF TypeOK
<1>2. NodeOf[n] \in Node \cup {NoNode}
  BY TablesAssumption DEF TablesAssumption
<1>3. q \in Parser /\ q.at = Len(open) + 1
  <2>1. Len(open) + 1 \in Nat
    BY <1>1
  <2>2. q \in Parser
    BY <2>1, <1>2, ElementType
  <2>3. QED
    BY <2>2 DEF Element
<1> HIDE DEF q
<1>4. j \in Nat /\ j < q.at
  BY <1>1, <1>3
<1>5. Chain(Append(s, q), j) = Chain(s, j)
  BY <1>3, <1>4, ChainAppend
<1>6. Accepted(Append(s, q)) => CallChain(j)' = CallChain(j)
  BY <1>5, AcceptedKeeps
<1>7. QED
  BY <1>6, ThrownKeeps DEF Bind, q

(* A start tag that is not skipped.                                        *)
LEMMA HandledStartKeeps ==
  ASSUME TypeOK, NEW n \in Name, NEW x \in BOOLEAN, HandledStart(n, x), Aligned(stack, open, Len(open)),
         NEW j \in 1..Len(open)
  PROVE  CallChain(j)' = CallChain(j)
<1> DEFINE s == IF stack = <<>> THEN <<RootParser>> ELSE stack
<1>1. s \in Seq(Parser) /\ s # <<>>
  BY RootParserType DEF TypeOK
<1>2. /\ NodeOf[n] \in Node /\ ~skip.on
      /\ Len(open) \in Nat /\ Len(open) + 1 \in Nat /\ j \in Nat /\ j < Len(open) + 1
  BY TablesAssumption, LenProperties DEF TypeOK, TablesAssumption, HandledStart
<1>3. \/ BindUnbound(s, n)
      \/ OfferChild(s, n, x)
      \/ ResolveChoice(s, n)
      \/ NextInSequence(s, n)
      \/ SkipParserStart(s, n)
  BY DEF HandledStart
<1>4. stack # <<>> /\ stack \in Seq(Parser)
  BY <1>2 DEF Aligned, RootBelow, TypeOK
<1>5. s = stack
  BY <1>4
<1>6. Last(s).type = "choice" => Last(s).bound = NoNode
  BY <1>2, <1>4, <1>5, TopInCharge
<1> HIDE DEF s
<1>7. ASSUME Last(s).bound = NoNode
      PROVE  Chain(Front(s), j) = Chain(stack, j) /\ Front(s) \in Seq(Parser)
  BY <1>1, <1>2, <1>5, <1>7, ChainFront, TopTypes
<1>8. CASE BindUnbound(s, n)
  BY <1>1, <1>2, <1>7, <1>8, TopTypes, BindKeeps DEF BindUnbound
<1>9. CASE OfferChild(s, n, x)
  <2>1. PICK r \in ChildStart(Last(s).kinds[1], NodeOf[n], x) :
          LET after == setParserForNextElement(s, r, Len(open) + 1) IN
            \/ r.result = "accept" /\ Accepted(after)
            \/ r.result = "reject" /\ Unexpected(after, n)
            \/ r.result = "throw" /\ Thrown
    BY <1>9 DEF OfferChild
  <2>2. Last(s).kinds[1] \in Kind
    BY <1>1, <1>9, TopTypes DEF OfferChild
  <2>3. r \in Reaction
    BY <2>1, <2>2, <1>2, TablesAssumption DEF TablesAssumption
  <2> DEFINE after == setParserForNextElement(s, r, Len(open) + 1)
  <2>4. Chain(after, j) = Chain(s, j)
    <3>1. CASE r.push = <<>>
      BY <3>1 DEF setParserForNextElement
    <3>2. CASE r.push # <<>>
      <4> DEFINE q == Instantiate(r.push[1], Len(open) + 1)
      <4>1. r.push[1] \in Template
        BY <2>3, <3>2, EmptySeq, ElementOfSeq, LenProperties DEF Reaction
      <4>2. q \in Parser
        BY <4>1, <1>2, InstantiateType
      <4>3. q.at = Len(open) + 1
        BY DEF Instantiate
      <4> HIDE DEF q
      <4>4. Chain(Append(s, q), j) = Chain(s, j)
        BY <4>2, <4>3, <1>1, <1>2, ChainAppend
      <4>5. QED
        BY <4>4, <3>2 DEF setParserForNextElement, q
    <3>3. QED
      BY <3>1, <3>2
  <2>5. /\ r.result = "accept" => Accepted(after)
        /\ r.result = "reject" => Unexpected(after, n)
        /\ r.result = "throw" => Thrown
        /\ r.result \in {"accept", "reject", "throw"}
    BY <2>1
  <2> HIDE DEF after
  <2>6. j <= Len(open) /\ Chain(after, j) = Chain(stack, j)
    BY <2>4, <1>2, <1>5
  <2>7. QED
    BY <2>5, <2>6, <1>2, AcceptedKeeps, UnexpectedKeeps, ThrownKeeps
<1>10. CASE ResolveChoice(s, n)
  <2>1. CASE Thrown
    BY <2>1, ThrownKeeps
  <2>2. CASE \E i \in 1..Len(Last(s).kinds) : Bind(Front(s), Last(s).kinds[i], n)
    <3>1. PICK i \in 1..Len(Last(s).kinds) : Bind(Front(s), Last(s).kinds[i], n)
      BY <2>2
    <3>2. Last(s).kinds[i] \in Kind /\ Last(s).bound = NoNode
      BY <1>1, <1>6, <1>10, TopTypes, ElementOfSeq DEF ResolveChoice
    <3>3. QED
      BY <3>1, <3>2, <1>2, <1>7, BindKeeps
  <2>3. QED
    BY <1>10, <2>1, <2>2 DEF ResolveChoice
<1>11. CASE NextInSequence(s, n)
  BY <1>1, <1>2, <1>5, <1>11, TopTypes, BindKeeps DEF NextInSequence
<1>12. CASE SkipParserStart(s, n)
  <2> DEFINE p == Last(s)
             q == IF p.bound = NoNode
                  THEN [p EXCEPT !.bound = NodeOf[n], !.depth = 1, !.at = Len(open) + 1]
                  ELSE IF p.bound = NodeOf[n] THEN [p EXCEPT !.depth = @ + 1] ELSE p
  <2>1. p \in Parser /\ Front(s) \in Seq(Parser) /\ p.depth + 1 \in Int
    BY <1>1, TopTypes
  <2>2. Accepted(Append(Front(s), q))
    BY <1>12 DEF SkipParserStart
  <2>3. CASE p.bound = NoNode
    <3> DEFINE q1 == [p EXCEPT !.bound = NodeOf[n], !.depth = 1, !.at = Len(open) + 1]
    <3>1. q1 \in Parser /\ q1.at = Len(open) + 1
      <4> HIDE DEF p
      <4>1. 1 \in Int /\ NodeOf[n] \in Node \cup {NoNode} /\ Len(open) + 1 \in Nat
        BY <1>2
      <4>2. q1 \in Parser
        BY ONLY <2>1, <4>1, SkipParserTypes
      <4>3. QED
        BY <2>1, <4>2, SkipParserFields
    <3>2. q = q1
      BY <2>3
    <3> HIDE DEF q, q1
    <3>3. Chain(Append(Front(s), q1), j) = Chain(Front(s), j)
      BY <3>1, <2>1, <1>2, ChainAppend
    <3>4. QED
      BY <3>2, <3>3, <2>2, <2>3, <1>7, AcceptedKeeps
  <2>4. CASE p.bound # NoNode
    <3>1. q \in Parser /\ q.type = p.type /\ q.kinds = p.kinds /\ q.bound = p.bound /\ q.at = p.at
      <4>1. CASE p.bound = NodeOf[n]
        <5> DEFINE q2 == [p EXCEPT !.depth = p.depth + 1]
        <5>1. q2 \in Parser /\ q2.type = p.type /\ q2.kinds = p.kinds /\ q2.bound = p.bound /\ q2.at = p.at
          <6> HIDE DEF p
          <6>1. NodeOf[n] \in Node \cup {NoNode} /\ Len(open) + 1 \in Nat
            BY <1>2
          <6>2. q2 \in Parser
            BY ONLY <2>1, <6>1, SkipParserTypes
          <6>3. QED
            BY <2>1, <6>2, SkipParserFields
        <5>2. q = q2
          BY <4>1, <2>4
        <5> HIDE DEF q, q2
        <5>3. QED
          BY <5>1, <5>2
      <4>2. CASE p.bound # NodeOf[n]
        BY <4>2, <2>4, <2>1
      <4>3. QED
        BY <4>1, <4>2
    <3> HIDE DEF q
    <3>2. Chain(Append(Front(s), q), j) = Chain(s, j)
      BY <3>1, <1>1, <1>2, ChainReplace
    <3>3. QED
      BY <3>2, <2>2, <1>5, AcceptedKeeps
  <2>5. QED
    BY <2>3, <2>4
<1>13. QED
  BY <1>3, <1>8, <1>9, <1>10, <1>11, <1>12

(* The end tag of the element the parser on top is bound to.               *)
LEMMA TopEnds ==
  ASSUME NEW s, Closing(s), Last(s).bound # NoNode, Last(s).type = "element",
         Last(s).bound = NodeOf[Last(open)]
  PROVE  Last(s).at = Len(open)
<1> DEFINE h == Len(open)
           a == Last(s).at
<1>1. /\ h \in Nat /\ h >= 1 /\ s \in Seq(Parser) /\ s # <<>> /\ Aligned(s, open, h)
      /\ Last(open) = open[h]
  BY ClosedFacts DEF Closing
<1>2. a \in 1..h /\ \A i \in (a + 1)..h : NodeOf[open[i]] # Last(s).bound
  <2> HIDE DEF h
  <2>1. Last(s).at \in 1..h
    BY <1>1, BelowTop
  <2>2. \A i \in (Last(s).at + 1)..h : NodeOf[open[i]] # Last(s).bound
    BY <1>1, TopInCharge
  <2>3. QED
    BY <2>1, <2>2
<1>3. a # h => h \in (a + 1)..h
  BY <1>1, <1>2
<1>4. QED
  BY <1>1, <1>2, <1>3

(* A skip parser that counted down to its last element is at its own.      *)
LEMMA SkipEnds ==
  ASSUME NEW s, Closing(s), Last(s).bound # NoNode, Last(s).type = "skip",
         Last(s).bound = NodeOf[Last(open)], Last(s).depth = 1
  PROVE  Last(s).at = Len(open)
<1> DEFINE h == Len(open)
           h2 == h - 1
           a == Last(s).at
           b == Last(s).bound
           c == Cardinality((a..h2) \cap Depths(open, h2, b))
<1>1. /\ h \in Nat /\ h >= 1 /\ s \in Seq(Parser) /\ s # <<>> /\ Aligned(s, open, h)
      /\ Last(open) = open[h] /\ open \in Seq(Name)
  BY ClosedFacts DEF Closing
<1>2. a \in 1..h /\ NodeOf[open[a]] = b /\ Cardinality((a..h) \cap Depths(open, h, b)) = 1
  BY <1>1, BelowTop, TopInCharge
<1>3. h2 \in Nat /\ h2 + 1 = h /\ a \in 1..(h2 + 1) /\ h2 + 1 <= Len(open) /\ NodeOf[open[h2 + 1]] = b
  BY <1>1, <1>2
<1>4. c \in Nat /\ 1 = c + 1 /\ (c = 0 => (a..h2) \cap Depths(open, h2, b) = {})
  <2>0. h2 \in Nat /\ h2 + 1 <= Len(open) /\ a \in 1..(h2 + 1) /\ open \in Seq(Name)
    BY <1>1, <1>3
  <2> HIDE DEF h, h2, a, b
  <2>1. /\ c \in Nat
        /\ Cardinality((a..(h2 + 1)) \cap Depths(open, h2 + 1, b)) =
             c + IF NodeOf[open[h2 + 1]] = b THEN 1 ELSE 0
        /\ c = 0 => (a..h2) \cap Depths(open, h2, b) = {}
    BY <2>0, DepthsGrow
  <2>2. QED
    BY <2>1, <1>2, <1>3
<1>5. (a..h2) \cap Depths(open, h2, b) = {}
  BY <1>4
<1>6. a # h => a \in (a..h2) \cap Depths(open, h2, b)
  BY <1>1, <1>2 DEF Depths
<1>7. QED
  BY <1>5, <1>6

(* An end tag that is not skipped: only the parser whose element ends, or  *)
(* one that has none yet, leaves the stack.                                *)
LEMMA HandledEndKeeps ==
  ASSUME TypeOK, WellBehaved, Aligned(stack, open, Len(open)),
         open # <<>>, open' = Front(open), HandledEnd, NEW j \in 1..Len(open')
  PROVE  CallChain(j)' = CallChain(j)
<1> DEFINE s == IF stack # <<>> /\ Last(stack).type = "choice" THEN Front(stack) ELSE stack
           node == NodeOf[Last(open)]
           h == Len(open)
<1>1. Closing(s)
  BY ChoiceDropped
<1>2. /\ h \in Nat /\ h >= 1 /\ j \in Nat /\ j < h
      /\ node \in Node /\ stack \in Seq(Parser)
  BY <1>1, ClosedFacts DEF TypeOK
<1>3. s # <<>> /\ node # NoNode /\ s \in Seq(Parser) /\ ~skip.on
  BY <1>1, <1>2, TablesAssumption DEF Closing, TablesAssumption, HandledEnd
<1>4. Chain(s, j) = Chain(stack, j)
  <2>1. CASE stack # <<>> /\ Last(stack).type = "choice"
    <3>1. Last(stack).bound = NoNode
      BY <2>1, <1>2, TopInCharge
    <3>2. Chain(Front(stack), j) = Chain(stack, j)
      BY <2>1, <3>1, <1>2, ChainFront
    <3>3. QED
      BY <2>1, <3>2
  <2>2. CASE ~(stack # <<>> /\ Last(stack).type = "choice")
    BY <2>2
  <2>3. QED
    BY <2>1, <2>2
<1>5. \/ CloseBound(s, node) \/ CloseChild(s, node) \/ EndUnbound(s)
      \/ EndSequence(s, node) \/ SkipParserEnd(s, node)
  BY <1>3 DEF HandledEnd
<1> HIDE DEF s
<1>6. skip' = skip
  BY <1>5 DEF CloseBound, CloseChild, EndUnbound, EndSequence, SkipParserEnd
<1>7. ASSUME Chain(stack', j) = Chain(stack, j)
      PROVE  CallChain(j)' = CallChain(j)
  BY <1>6, <1>7 DEF CallChain, Chain, BoundUpTo
<1>8. ASSUME Last(s).bound = NoNode \/ Last(s).at = h
      PROVE  Chain(Front(s), j) = Chain(stack, j)
  <2>1. Last(s).bound = NoNode \/ j < Last(s).at
    BY <1>2, <1>8
  <2>2. QED
    BY <2>1, <1>2, <1>3, <1>4, ChainFront
<1>9. CASE CloseBound(s, node)
  <2>1. stack' = Front(s) /\ Last(s).at = h
    BY <1>1, <1>3, <1>9, TopEnds DEF CloseBound
  <2>2. QED
    BY <2>1, <1>7, <1>8
<1>10. CASE CloseChild(s, node)
  <2>1. Last(s).type = "element" /\ Last(s).bound \notin {NoNode, node}
    BY <1>10 DEF CloseChild
  <2>2. PICK r \in ChildEnd(Last(s).kinds[1], node) : stack' = setParserForNextElement(s, r, h - 1)
    BY <1>10 DEF CloseChild
  <2>3. Last(s).kinds[1] \in Kind
    BY <2>1, <1>3, TopTypes
  <2>4. Last(s).bound \in Binds[Last(s).kinds[1]]
    <3>1. Aligned(s, open, h) /\ s \in Seq(Parser) /\ s # <<>>
      BY <1>1, <1>3 DEF Closing
    <3> HIDE DEF h
    <3>2. QED
      BY <2>1, <3>1, <1>2, TopInCharge
  <2>5. r.push = <<>>
    BY <2>2, <2>3, <2>4, <1>2 DEF WellBehaved
  <2>6. stack' = s
    BY <2>2, <2>5 DEF setParserForNextElement
  <2>7. QED
    BY <2>6, <1>4, <1>7
<1>11. CASE EndUnbound(s)
  BY <1>7, <1>11 DEF EndUnbound
<1>12. CASE EndSequence(s, node)
  <2>1. CASE node = Last(s).bound
    <3>1. stack' = Front(s) /\ Last(s).type = "sequence" /\ Last(s).bound # NoNode
      BY <2>1, <1>3, <1>12 DEF EndSequence
    <3>2. Last(s).at = h
      BY <3>1, <1>1, <1>2, <1>3, TopInCharge DEF Closing
    <3>3. QED
      BY <3>1, <3>2, <1>7, <1>8
  <2>2. CASE node # Last(s).bound
    BY <2>2, <1>4, <1>7, <1>12 DEF EndSequence
  <2>3. QED
    BY <2>1, <2>2
<1>13. CASE SkipParserEnd(s, node)
  <2> DEFINE p == Last(s)
  <2>1. p.type = "skip" /\ p \in Parser /\ p.depth - 1 \in Int /\ Front(s) \in Seq(Parser)
    BY <1>3, <1>13, TopTypes DEF SkipParserEnd
  <2>2. CASE p.bound = NoNode
    <3>1. stack' = Front(s)
      BY <2>2, <1>13 DEF SkipParserEnd
    <3>2. QED
      BY <2>2, <3>1, <1>7, <1>8
  <2>3. CASE p.bound # NoNode /\ p.bound = node /\ p.depth = 1
    <3>1. stack' = Front(s)
      BY <2>3, <1>13 DEF SkipParserEnd
    <3>2. p.at = h
      BY <2>1, <2>3, <1>1, SkipEnds
    <3>3. QED
      BY <3>1, <3>2, <1>7, <1>8
  <2>4. CASE p.bound # NoNode /\ p.bound = node /\ p.depth # 1
    <3> DEFINE q == [p EXCEPT !.depth = p.depth - 1]
    <3>1. stack' = Append(Front(s), q)
      BY <2>4, <1>13 DEF SkipParserEnd
    <3>2. q \in Parser /\ q.type = p.type /\ q.kinds = p.kinds /\ q.bound = p.bound /\ q.at = p.at
      <4> HIDE DEF p
      <4>1. q \in Parser
        BY <2>1, <1>2, SkipParserTypes
      <4>2. QED
        BY <2>1, <4>1, SkipParserFields
    <3> HIDE DEF q
    <3>3. Chain(Append(Front(s), q), j) = Chain(s, j)
      BY <3>2, <1>2, <1>3, ChainReplace
    <3>4. QED
      BY <3>1, <3>3, <1>4, <1>7
  <2>5. CASE p.bound # NoNode /\ p.bound # node
    <3>1. stack' = s
      BY <2>5, <1>13 DEF SkipParserEnd
    <3>2. QED
      BY <3>1, <1>4, <1>7
  <2>6. QED
    BY <2>2, <2>3, <2>4, <2>5
<1>14. QED
  BY <1>5, <1>9, <1>10, <1>11, <1>12, <1>13

(* Nobody is in charge of a skipped element, from its start to its end.    *)
LEMMA SkippedStartKeeps ==
  ASSUME TypeOK, NEW n \in Name, SkippedStart(n), NEW j
  PROVE  CallChain(j)' = CallChain(j)
<1>1. skip'.on = skip.on /\ skip'.at = skip.at /\ stack' = stack
  <2>1. skip \in SkipRecord
    BY DEF TypeOK, SkipRecord
  <2>2. CASE n = skip.name
    BY <2>1, <2>2, SkipDepth DEF SkippedStart
  <2>3. CASE n # skip.name
    BY <2>3 DEF SkippedStart
  <2>4. QED
    BY <2>2, <2>3
<1>2. QED
  BY <1>1 DEF CallChain

(* The skip ends with the skipped element, which is the innermost one.     *)
LEMMA SkippedEndKeeps ==
  ASSUME TypeOK, SkipBalanced, SkippedEnd, open # <<>>, open' = Front(open),
         NEW j \in 1..Len(open')
  PROVE  CallChain(j)' = CallChain(j)
<1>1. HandledDepth' = HandledDepth /\ skip.on /\ stack' = stack
  BY SkippedEndDepth DEF SkippedEnd
<1>2. skip.at \in Nat /\ Len(open') \in Nat
  BY FrontLast DEF TypeOK
<1>3. CASE skip'.on
  <2>1. skip'.at = skip.at
    <3>1. skip \in SkipRecord
      BY DEF TypeOK, SkipRecord
    <3>2. CASE Last(open) = skip.name
      BY <3>1, <3>2, <1>3, SkipDepth DEF SkippedEnd, NotSkipping
    <3>3. CASE Last(open) # skip.name
      BY <3>3 DEF SkippedEnd
    <3>4. QED
      BY <3>2, <3>3
  <2>2. QED
    BY <2>1, <1>1, <1>3 DEF CallChain
<1>4. CASE ~skip'.on
  <2>1. Len(open') = skip.at - 1
    BY <1>1, <1>4 DEF HandledDepth
  <2>2. ~(j >= skip.at)
    BY <2>1, <1>2
  <2>3. QED
    BY <2>2, <1>1, <1>4 DEF CallChain
<1>5. QED
  BY <1>3, <1>4

(* A start tag leaves those in charge of the open elements as they are.    *)
LEMMA StartKeeps ==
  ASSUME TypeOK, StackInv, NEW n \in Name, NEW x \in BOOLEAN, StartElement(n, x),
         NEW j \in 1..Len(open)
  PROVE  CallChain(j)' = CallChain(j)
<1>1. Len(open) \in Nat /\ j \in Nat /\ j <= Len(open)
  BY LenProperties DEF TypeOK
<1>2. CASE SkippedStart(n)
  BY <1>2, SkippedStartKeeps
<1>3. CASE UnknownStart(n)
  BY <1>1, <1>3, UnexpectedKeeps DEF UnknownStart
<1>4. CASE HandledStart(n, x)
  <2>1. status \in {"initial", "parsing"}
    BY DEF StartElement, CanOpen
  <2>2. Aligned(stack, open, Len(open))
    BY <2>1, <1>4 DEF HandledStart, HandledDepth, StackInv
  <2>3. QED
    BY <2>2, <1>4, HandledStartKeeps
<1>5. QED
  BY <1>2, <1>3, <1>4 DEF StartElement

(* So does an end tag with those that stay open.                           *)
LEMMA EndKeeps ==
  ASSUME TypeOK, SkipBalanced, StackInv, WellBehaved, EndElement, NEW j \in 1..Len(open')
  PROVE  CallChain(j)' = CallChain(j)
<1>1. status = "parsing" /\ open # <<>> /\ open' = Front(open)
  BY DEF EndElement
<1>2. CASE SkippedEnd
  BY <1>1, <1>2, SkippedEndKeeps
<1>3. CASE HandledEnd
  <2>1. Aligned(stack, open, Len(open))
    BY <1>1, <1>3 DEF HandledEnd, HandledDepth, StackInv
  <2>2. QED
    BY <2>1, <1>1, <1>3, HandledEndKeeps
<1>4. QED
  BY <1>2, <1>3 DEF EndElement

(* For every table of well-behaved element parsers the stack machine       *)
(* implements element ownership: the parsers in charge of an element are   *)
(* those its start tag left in charge, until its end tag, whatever is      *)
(* parsed, skipped or given up inside it (setCurrentElementParser,         *)
(* removeCurrentElementParser and the handlers of the generic parsers).    *)
THEOREM OwnersStayInCharge ==
  ASSUME WellBehaved
  PROVE  Spec => OwnersStable
<1> DEFINE Inv == TypeOK /\ SkipBalanced /\ StackInv
           owned == [j \in 1..Len(open) |-> CallChain(j)]
<1>1. Init => owned = <<>>
  <2>1. Init => Len(open) = 0
    BY EmptySeq DEF Init
  <2>2. QED
    BY <2>1
<1>2. ASSUME Inv, [Next]_vars
      PROVE  [Ownership!Next]_owned
  <2>1. open \in Seq(Name) /\ open' \in Seq(Name) /\ Len(open) \in Nat /\ Len(open') \in Nat
    <3>1. open \in Seq(Name) /\ open' \in Seq(Name)
      BY <1>2, TypeInductive DEF TypeOK
    <3>2. QED
      BY <3>1, LenProperties
  <2>2. ASSUME NEW n \in Name, NEW x \in BOOLEAN, StartElement(n, x)
        PROVE  Ownership!Enter
    <3>1. Len(open') = Len(open) + 1
      BY <2>1, <2>2, AppendLast DEF StartElement
    <3>2. \A j \in 1..Len(open) : CallChain(j)' = CallChain(j)
      BY <1>2, <2>2, StartKeeps
    <3>3. owned' = [j \in 1..(Len(open) + 1) |-> CallChain(j)']
      BY <3>1
    <3> DEFINE g == [j \in 1..(Len(open) + 1) |-> CallChain(j)']
    <3>4. \A j \in 1..Len(open) : g[j] = owned[j]
      BY <3>2, <2>1
    <3>5. g = [j \in 1..(Len(open) + 1) |-> g[j]] /\ owned = [j \in 1..Len(open) |-> owned[j]]
      OBVIOUS
    <3> HIDE DEF g, owned
    <3>6. g # <<>> /\ Front(g) = owned
      BY <2>1, <3>4, <3>5, FrontOfFunction
    <3>7. owned' = g
      BY <3>3 DEF g, owned
    <3>8. owned' # <<>> /\ Front(owned') = owned
      BY <3>6, <3>7
    <3>9. QED
      BY <3>8 DEF owned, Front, Ownership!Enter, Ownership!Front
  <2>3. ASSUME EndElement
        PROVE  Ownership!Leave
    <3>1. Len(open) = Len(open') + 1
      BY <2>1, <2>3, FrontLast DEF EndElement
    <3>2. \A j \in 1..Len(open') : CallChain(j)' = CallChain(j)
      BY <1>2, <2>3, EndKeeps
    <3> DEFINE f == [j \in 1..Len(open') |-> CallChain(j)']
    <3>3. \A j \in 1..Len(open') : owned[j] = f[j]
      BY <3>1, <3>2, <2>1
    <3>4. f = [j \in 1..Len(open') |-> f[j]] /\ owned = [j \in 1..(Len(open') + 1) |-> owned[j]]
      BY <3>1
    <3>5. owned' = f
      OBVIOUS
    <3> HIDE DEF f, owned
    <3>6. owned # <<>> /\ Front(owned) = f
      BY <2>1, <3>3, <3>4, FrontOfFunction
    <3>7. owned # <<>> /\ owned' = Front(owned)
      BY <3>5, <3>6
    <3>8. QED
      BY <3>7 DEF owned, Front, Ownership!Leave, Ownership!Front
  <2>4. ASSUME EndDocument \/ XmlFatalError \/ UNCHANGED vars
        PROVE  owned' = owned
    BY <2>4 DEF EndDocument, XmlFatalError, vars, CallChain
  <2>5. QED
    BY <1>2, <2>2, <2>3, <2>4 DEF Next, Ownership!Next
<1>3. Spec => []Inv
  BY StackInvariant
<1>4. Init => Ownership!Init
  BY <1>1 DEF Ownership!Init
<1>5. Inv /\ [Next]_vars => [Ownership!Next]_owned
  BY <1>2
<1>6. QED
  BY <1>3, <1>4, <1>5, PTL DEF Spec, OwnersStable, Ownership!Spec

=============================================================================
