--------------------------- MODULE DocumentParser ---------------------------
(***************************************************************************)
(* The SAX driven control flow of the CityGML parser: the document parser  *)
(* (citygmldocumentparser.cpp) keeps a stack of element parsers and hands  *)
(* every start and end tag to the one on top; element parsers push parsers *)
(* for the elements they do not handle themselves and pop themselves when  *)
(* their own element ends.  Elements nobody expects are skipped.           *)
(*                                                                         *)
(* The concrete element parsers are the constants Binds, ChildStart and    *)
(* ChildEnd (module ElementParsers translates them): what is stated here   *)
(* holds of every such table.                                              *)
(***************************************************************************)
EXTENDS Integers, FiniteSets, SequencesExt

CONSTANTS
  Name,        \* raw qualified element names
  Node,        \* registered XMLNodes
  NoNode,      \* NodeType::InvalidNode
  NoName,      \* the empty name of m_unknownElementOrUnexpectedElementName
  NodeOf,      \* getXMLNodeFor: [Name -> Node \cup {NoNode}]
  Kind,        \* subclasses of CityGMLElementParser
  RootKind,    \* CityModelElementParser
  Binds,       \* nodes parseElementStartTag accepts; it throws for others
  ChildStart(_, _, _), \* possible outcomes of parseChildElementStartTag
  ChildEnd(_, _),      \* possible outcomes of parseChildElementEndTag
  Roots,       \* names a document may have as root element
  Content,     \* names of the children a document may put in an element
  NeverNested, \* nodes that documents never nest in themselves
  MaxDepth     \* bound: deepest nesting of elements

ParserType == {"element", "choice", "sequence", "skip"}

(* A parser to be pushed, as the code that creates it describes it: an     *)
(* element parser of one kind, a DelayedChoiceElementParser with its       *)
(* choices, a SequenceParser with the kind its factory makes and its       *)
(* container, a SkipElementParser with or without the node to skip.        *)
Template ==
  {t \in [type : ParserType, kinds : Seq(Kind), bound : Node \cup {NoNode}] :
     t.type \in {"element", "sequence"} => t.kinds # <<>>}

(* What a call of a parser does: its return value, or that it threw, and   *)
(* the parser it made current (none or one).                               *)
Reaction == [result : {"accept", "reject", "throw"}, push : Seq(Template)]

ASSUME TablesAssumption ==
  /\ NoNode \notin Node
  /\ NoName \notin Name
  /\ NodeOf \in [Name -> Node \cup {NoNode}]
  /\ RootKind \in Kind
  /\ Binds \in [Kind -> SUBSET Node]
  /\ \A k \in Kind, n \in Node :
       /\ \A x \in BOOLEAN : ChildStart(k, n, x) \subseteq Reaction
       /\ ChildEnd(k, n) \subseteq Reaction
  /\ Roots \subseteq Name
  /\ Content \in [Name -> SUBSET Name]
  /\ NeverNested \subseteq Node
  /\ MaxDepth \in Nat

(* What the element parsers have to keep to for the stack to work.  The    *)
(* end tag of a child element returns to the parser that expected its      *)
(* start tag, unless that made a parser current which is bound to the      *)
(* child and takes its end tag itself.                                     *)
Expects(k, n) ==
  \E x \in BOOLEAN : \E r \in ChildStart(k, n, x) :
    r.result = "accept" /\ (r.push # <<>> => r.push[1].bound = NoNode)

(* A parser makes another one current only when it accepts a start tag; a  *)
(* child of the kind the parser is bound to is not expected in documents.  *)
WellBehaved ==
  \A k \in Kind : Binds[k] # {} => \A n \in Node :
    /\ \A x \in BOOLEAN : \A r \in ChildStart(k, n, x) : r.push # <<>> =>
         /\ r.result = "accept"
         /\ r.push[1].type \in {"element", "choice"} => r.push[1].bound = NoNode
         /\ r.push[1].type = "sequence" => r.push[1].bound = n
         /\ r.push[1].type = "skip" => r.push[1].bound \in {NoNode, n}
         /\ \A i \in 1..Len(r.push[1].kinds) : r.push[1].kinds[i] # RootKind
    /\ \A r \in ChildEnd(k, n) : r.push = <<>>
    /\ n \in Binds[k] /\ Expects(k, n) => n \in NeverNested

-----------------------------------------------------------------------------
VARIABLES
  open,      \* names of the open elements, outermost first (the document)
  stack,     \* m_parserStack, bottom first
  skip,      \* m_currentElementUnknownOrUnexpected, its name and its depth
  status,    \* progress of CityGMLHandlerXerces through the document
  delivered, \* m_rootModel # nullptr
  rejected   \* some end tag was reported as unknown by the active parser

vars == <<open, stack, skip, status, delivered, rejected>>

(* bound is m_boundElement, m_containerType or m_skipNode; depth is the    *)
(* m_depth of a SkipElementParser.  at is auxiliary: the nesting depth of  *)
(* the element the parser is bound to, or, as long as it is unbound, of    *)
(* the element whose tag made the parser current.                          *)
Parser ==
  {p \in [type : ParserType, kinds : Seq(Kind), bound : Node \cup {NoNode},
          depth : Int, at : Nat] :
     p.type \in {"element", "sequence"} => p.kinds # <<>>}

(* skip.at is auxiliary too: the nesting depth of the skipped element.     *)
NotSkipping(d) == [on |-> FALSE, name |-> NoName, depth |-> d, at |-> 0]

Element(k, node, pos) ==
  [type |-> "element", kinds |-> <<k>>, bound |-> node, depth |-> 0, at |-> pos]

Instantiate(t, pos) ==
  [type |-> t.type, kinds |-> t.kinds, bound |-> t.bound,
   depth |-> IF t.type = "skip" /\ t.bound # NoNode THEN 1 ELSE 0, at |-> pos]

setParserForNextElement(s, r, pos) ==
  IF r.push = <<>> THEN s ELSE Append(s, Instantiate(r.push[1], pos))

Init ==
  /\ open = <<>>
  /\ stack = <<>>
  /\ skip = NotSkipping(0)
  /\ status = "initial"
  /\ delivered = FALSE
  /\ rejected = FALSE

(* How a start tag handler can end: accepted, reported as unexpected (the  *)
(* element is then skipped), or left by an exception, which ends parsing.  *)
Accepted(s) ==
  /\ stack' = s
  /\ status' = "parsing"
  /\ UNCHANGED skip

UnexpectedKeepsDepth(s, n) ==  \* mutant: m_currentElementUnexpectedDepth not reset
  /\ stack' = s
  /\ status' = "parsing"
  /\ skip' = [on |-> TRUE, name |-> n, depth |-> skip.depth, at |-> Len(open) + 1]

UnexpectedNotSkipped(s, n) ==  \* mutant: skipUnknownOrUnexpectedElement not called
  Accepted(s)

Unexpected(s, n) ==
  /\ stack' = s
  /\ status' = "parsing"
  /\ skip' = [on |-> TRUE, name |-> n, depth |-> 0, at |-> Len(open) + 1]

Thrown ==
  /\ status' = "aborted"
  /\ UNCHANGED <<stack, skip>>

(* A new element parser of kind k on top of s gets its first start tag.    *)
Bind(s, k, n) ==
  IF NodeOf[n] \in Binds[k]
  THEN Accepted(Append(s, Element(k, NodeOf[n], Len(open) + 1)))
  ELSE Thrown

-----------------------------------------------------------------------------
(* Start tags.                                                             *)

(* The documents: well-formed, of the given content model, no deeper than  *)
(* MaxDepth.                                                               *)
CanOpen(n) ==
  /\ \/ status = "initial" /\ n \in Roots
     \/ status = "parsing" /\ open # <<>> /\ n \in Content[Last(open)]
  /\ Len(open) < MaxDepth
  /\ NodeOf[n] \in NeverNested => \A i \in 1..Len(open) : NodeOf[open[i]] # NodeOf[n]

SkippedStartUncounted(n) ==  \* mutant: namesakes inside the skipped element not counted
  /\ skip.on
  /\ status' = "parsing"
  /\ UNCHANGED <<stack, skip>>

SkippedStart(n) ==
  /\ skip.on
  /\ skip' = IF n = skip.name THEN [skip EXCEPT !.depth = @ + 1] ELSE skip
  /\ status' = "parsing"
  /\ UNCHANGED stack

UnknownStartIgnored(n) ==  \* mutant: unknown element not skipped
  /\ ~skip.on
  /\ NodeOf[n] = NoNode
  /\ Accepted(stack)

UnknownStart(n) ==
  /\ ~skip.on
  /\ NodeOf[n] = NoNode
  /\ Unexpected(stack, n)

(* The first start tag after an element parser was pushed binds it.        *)
BindUnbound(s, n) ==
  /\ Last(s).type = "element"
  /\ Last(s).bound = NoNode
  /\ Bind(Front(s), Last(s).kinds[1], n)

OfferChild(s, n, x) ==
  /\ Last(s).type = "element"
  /\ Last(s).bound # NoNode
  /\ \E r \in ChildStart(Last(s).kinds[1], NodeOf[n], x) :
       LET after == setParserForNextElement(s, r, Len(open) + 1) IN
       \/ r.result = "accept" /\ Accepted(after)
       \/ r.result = "reject" /\ Unexpected(after, n)
       \/ r.result = "throw" /\ Thrown

ResolveChoiceKeepsIt(s, n) ==  \* mutant: removeCurrentElementParser(this) forgotten
  /\ Last(s).type = "choice"
  /\ LET choices == Last(s).kinds
         able == {i \in 1..Len(choices) : NodeOf[n] \in Binds[choices[i]]}
     IN  \/ able = {} /\ Thrown
         \/ \E i \in able : (\A j \in able : i <= j) /\ Bind(s, choices[i], n)

(* The first choice that handles the element takes the place of the        *)
(* DelayedChoiceElementParser.                                             *)
ResolveChoice(s, n) ==
  /\ Last(s).type = "choice"
  /\ LET choices == Last(s).kinds
         able == {i \in 1..Len(choices) : NodeOf[n] \in Binds[choices[i]]}
     IN  \/ able = {} /\ Thrown
         \/ \E i \in able : (\A j \in able : i <= j) /\ Bind(Front(s), choices[i], n)

NextInSequenceReplaces(s, n) ==  \* mutant: the child parser takes the sequence's place
  /\ Last(s).type = "sequence"
  /\ Bind(Front(s), Last(s).kinds[1], n)

NextInSequence(s, n) ==
  /\ Last(s).type = "sequence"
  /\ Bind(s, Last(s).kinds[1], n)

SkipParserStart(s, n) ==
  /\ Last(s).type = "skip"
  /\ LET p == Last(s)
         q == IF p.bound = NoNode
              THEN [p EXCEPT !.bound = NodeOf[n], !.depth = 1, !.at = Len(open) + 1]
              ELSE IF p.bound = NodeOf[n] THEN [p EXCEPT !.depth = @ + 1] ELSE p
     IN  Accepted(Append(Front(s), q))

RootParser ==
  [type |-> "element", kinds |-> <<RootKind>>, bound |-> NoNode, depth |-> 0, at |-> 0]

HandledStart(n, x) ==
  /\ ~skip.on
  /\ NodeOf[n] # NoNode
  /\ LET s == IF stack = <<>> THEN <<RootParser>> ELSE stack IN
     \/ BindUnbound(s, n)
     \/ OfferChild(s, n, x)
     \/ ResolveChoice(s, n)
     \/ NextInSequence(s, n)
     \/ SkipParserStart(s, n)

(* x: the element has an xlink:href attribute.                             *)
StartElement(n, x) ==
  /\ CanOpen(n)
  /\ open' = Append(open, n)
  /\ UNCHANGED <<delivered, rejected>>
  /\ \/ SkippedStart(n)
     \/ UnknownStart(n)
     \/ HandledStart(n, x)

-----------------------------------------------------------------------------
(* End tags.                                                               *)

SkippedEndLate ==  \* mutant: one end tag too many is swallowed
  /\ skip.on
  /\ skip' = IF Last(open) # skip.name THEN skip
             ELSE IF skip.depth = -1 THEN NotSkipping(-2)
             ELSE [skip EXCEPT !.depth = @ - 1]
  /\ UNCHANGED <<stack, status, delivered, rejected>>

SkippedEnd ==
  /\ skip.on
  /\ skip' = IF Last(open) # skip.name THEN skip
             ELSE IF skip.depth = 0 THEN NotSkipping(-1)
             ELSE [skip EXCEPT !.depth = @ - 1]
  /\ UNCHANGED <<stack, status, delivered, rejected>>

CloseBoundKeepsParser(s, node) ==  \* mutant: removeCurrentElementParser(this) forgotten
  /\ Last(s).type = "element"
  /\ Last(s).bound = node
  /\ stack' = s
  /\ delivered' = (delivered \/ Last(s).kinds[1] = RootKind)
  /\ UNCHANGED <<skip, status, rejected>>

(* The end tag of the element the parser is bound to: it leaves the stack; *)
(* the root parser hands its model to the document parser.                 *)
CloseBound(s, node) ==
  /\ Last(s).type = "element"
  /\ Last(s).bound = node
  /\ stack' = Front(s)
  /\ delivered' = (delivered \/ Last(s).kinds[1] = RootKind)
  /\ UNCHANGED <<skip, status, rejected>>

CloseChild(s, node) ==
  /\ Last(s).type = "element"
  /\ Last(s).bound \notin {NoNode, node}
  /\ \E r \in ChildEnd(Last(s).kinds[1], node) :
       /\ stack' = setParserForNextElement(s, r, Len(open) - 1)
       /\ rejected' = (rejected \/ r.result = "reject")
  /\ UNCHANGED <<skip, status, delivered>>

(* An element parser that was pushed but never saw a start tag throws.     *)
EndUnbound(s) ==
  /\ Last(s).type = "element"
  /\ Last(s).bound = NoNode
  /\ status' = "aborted"
  /\ UNCHANGED <<stack, skip, delivered, rejected>>

EndSequenceKeepsParser(s, node) ==  \* mutant: removeCurrentElementParser(this) forgotten
  /\ Last(s).type = "sequence"
  /\ stack' = s
  /\ rejected' = (rejected \/ node # Last(s).bound)
  /\ UNCHANGED <<skip, status, delivered>>

EndSequence(s, node) ==
  /\ Last(s).type = "sequence"
  /\ stack' = IF node = Last(s).bound THEN Front(s) ELSE s
  /\ rejected' = (rejected \/ node # Last(s).bound)
  /\ UNCHANGED <<skip, status, delivered>>

SkipParserEnd(s, node) ==
  /\ Last(s).type = "skip"
  /\ LET p == Last(s) IN
     stack' = IF p.bound = NoNode \/ (p.bound = node /\ p.depth = 1) THEN Front(s)
              ELSE IF p.bound = node THEN Append(Front(s), [p EXCEPT !.depth = @ - 1])
              ELSE s
  /\ UNCHANGED <<skip, status, delivered, rejected>>

(* A DelayedChoiceElementParser on top at an end tag is dropped, and the   *)
(* parser below it gets the tag.  With an empty stack endElement throws    *)
(* (it would read top() of one if a choice had been the only parser).      *)
HandledEnd ==
  /\ ~skip.on
  /\ LET node == NodeOf[Last(open)]
         s == IF stack # <<>> /\ Last(stack).type = "choice" THEN Front(stack) ELSE stack
     IN  IF node = NoNode THEN UNCHANGED <<stack, skip, status, delivered, rejected>>
         ELSE IF s = <<>> THEN Thrown /\ UNCHANGED <<delivered, rejected>>
         ELSE \/ CloseBound(s, node)
              \/ CloseChild(s, node)
              \/ EndUnbound(s)
              \/ EndSequence(s, node)
              \/ SkipParserEnd(s, node)

EndElement ==
  /\ status = "parsing"
  /\ open # <<>>
  /\ open' = Front(open)
  /\ (SkippedEnd \/ HandledEnd)

-----------------------------------------------------------------------------
(* closeFactory and, for a delivered model, finish and setThemes run; the  *)
(* transformation to another SRS may throw.                                *)
EndDocument ==
  /\ status = "parsing"
  /\ open = <<>>
  /\ \/ status' = "done"
     \/ delivered /\ status' = "aborted"
  /\ UNCHANGED <<open, stack, skip, delivered, rejected>>

(* Xerces stops at a document that is not well-formed; an exception over   *)
(* the text of an element (a number std::stoi does not convert) ends the   *)
(* parse in the same way.                                                  *)
XmlFatalError ==
  /\ status = "parsing"
  /\ status' = "aborted"
  /\ UNCHANGED <<open, stack, skip, delivered, rejected>>

Next ==
  \/ \E n \in Name, x \in BOOLEAN : StartElement(n, x)
  \/ EndElement
  \/ EndDocument
  \/ XmlFatalError

Spec == Init /\ [][Next]_vars

-----------------------------------------------------------------------------
(* Properties.                                                             *)

(* Types; a skipped depth is -1 after the decrement at the end of a skip.  *)
TypeOK ==
  /\ open \in Seq(Name)
  /\ stack \in Seq(Parser)
  /\ skip \in [on : BOOLEAN, name : Name \cup {NoName}, depth : Nat \cup {-1}, at : Nat]
  /\ skip.on => skip.depth \in Nat
  /\ status \in {"initial", "parsing", "done", "aborted"}
  /\ delivered \in BOOLEAN
  /\ rejected \in BOOLEAN

(* The counter the document parser keeps while it skips an element is the  *)
(* number of open elements of the same name inside the skipped one: the    *)
(* skip ends at the end tag of the element it began with, not at one of a  *)
(* namesake nested in it, nor later.                                       *)
SkipBalanced ==
  skip.on =>
    /\ skip.at \in 1..Len(open)
    /\ open[skip.at] = skip.name
    /\ skip.depth = Cardinality({i \in (skip.at + 1)..Len(open) : open[i] = skip.name})

(* The innermost open element that was shown to a parser.                  *)
HandledDepth == IF skip.on THEN skip.at - 1 ELSE Len(open)

(* Control is returned to the caller as soon as the end tag of the bound   *)
(* element is detected: no parser is bound to an element that is closed.   *)
ControlReturned ==
  \A i \in 1..Len(stack) : stack[i].bound # NoNode => stack[i].at <= Len(open)

(* The parsers on the stack are bound to open elements, each inside the    *)
(* element of the parser below it; only the top may wait for its element,  *)
(* and then no element has been opened since it was made current.          *)
StackAligned ==
  status = "parsing" =>
    /\ \A i \in 1..Len(stack) :
         /\ stack[i].at <= HandledDepth
         /\ stack[i].bound # NoNode => stack[i].at > 0 /\ NodeOf[open[stack[i].at]] = stack[i].bound
         /\ stack[i].bound = NoNode => i = Len(stack) /\ stack[i].at = HandledDepth
    /\ \A i, j \in 1..Len(stack) : i < j => stack[i].at < stack[j].at

(* Every end tag that is not skipped finds a parser that is responsible    *)
(* for it: the root parser is at the bottom of the stack as long as the    *)
(* root element is open, so that endElement never runs into an empty stack.*)
EndTagHasParser ==
  status = "parsing" /\ HandledDepth > 0 =>
    /\ NodeOf[open[HandledDepth]] # NoNode
    /\ stack # <<>>
    /\ stack[1].type = "element" /\ stack[1].kinds = <<RootKind>> /\ stack[1].at = 1

(* When the root element ends, nothing is left of the parsing state, and   *)
(* the model is there if the root element was a city model.                *)
NothingLeftOpen ==
  /\ status = "parsing" /\ open = <<>> => stack = <<>> /\ ~skip.on
  /\ delivered => open = <<>>

(* Parsers tell end tags by their node alone.  Still each open element     *)
(* that is not skipped has its end tag come to a parser bound to it, or    *)
(* else to a parser that expected its start tag and does not take it for   *)
(* the element it is bound to itself, or to a skip parser: a rejected end  *)
(* tag is a difference between what one parser lists for start tags and    *)
(* for end tags, never a stack that is off by a parser.                    *)
EndTagsExpected ==
  status = "parsing" =>
    \A i \in 1..Len(stack), j \in 1..HandledDepth :
      /\ stack[i].bound # NoNode
      /\ stack[i].at < j
      /\ \A k \in (i + 1)..Len(stack) : stack[k].bound # NoNode => j < stack[k].at
      => \/ stack[i].type = "skip"
         \/ /\ stack[i].type = "element"
            /\ Expects(stack[i].kinds[1], NodeOf[open[j]])
            /\ NodeOf[open[j]] # stack[i].bound

(* endElement knows of a rejected end tag that "it seems as if the         *)
(* corresponding start tag was not reported as unknown", and asks to       *)
(* "check the parser implementation": no parser rejects the end tag of a   *)
(* child whose start tag it accepted.                                      *)
NoEndTagRejected == ~rejected

(* "For such elements a child parser must only be created if there is no   *)
(* xlink attribute" (citygmlelementparser.cpp): the start tag of an        *)
(* element with an xlink, which may be empty, leaves no parser behind that *)
(* waits for an element, and would throw at the end tag.                   *)
ParserOnlyWithoutXlink ==
  [][\A n \in Name :
       StartElement(n, TRUE) /\ Len(stack') > Len(stack) =>
         ~(Last(stack').type = "element" /\ Last(stack').bound = NoNode)]_vars

(* The parsers in charge of the open element at depth j, outermost first;  *)
(* none for a skipped element.                                             *)
CallChain(j) ==
  IF skip.on /\ j >= skip.at THEN {}
  ELSE {<<i, stack[i].type, stack[i].kinds>> :
          i \in {k \in 1..Len(stack) : stack[k].bound # NoNode /\ stack[k].at <= j}}

Ownership == INSTANCE ElementOwnership WITH
  owners <- [j \in 1..Len(open) |-> CallChain(j)]

(* The stack machine implements element ownership: the parsers in charge   *)
(* of an element stay in charge until its end tag, whatever is parsed or   *)
(* skipped inside it.                                                      *)
OwnersStable == Ownership!Spec
=============================================================================
