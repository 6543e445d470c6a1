----------------------------- MODULE XMLWriter -----------------------------
(* The XML writer of the serializer (xmlwriter.cpp): a DOM document that   *)
(* is built through a pointer to the current element and a stack of the    *)
(* elements that are open. Elements are numbered in the order they are     *)
(* made. Every call may fail with an exception of the DOM, which is caught *)
(* and latched in hasError; from then on the calls return at once.         *)
EXTENDS Naturals, Sequences, FiniteSets, SequencesExt

VARIABLES
  elements,        \* every element made so far, of every document
  document,        \* the root of the current document, 0 before the first one
  currentElement,  \* m_currentElement, 0 for nullptr
  elementStack,    \* m_elementStack
  namespaces,      \* the keys of m_namespaces: prefixes, not URIs
  hasError         \* m_hasError

writerVars == <<elements, document, currentElement, elementStack, namespaces, hasError>>

NoElement == 0

(* declared: the caller's namespace is one of the prefixes declared at the *)
(* root; the element gets that prefix. Otherwise the argument itself is    *)
(* taken for the URI of its namespace. of: the part of the city model that *)
(* is being written, kept for the properties only.                         *)
Element(name, namespace, of, parent) ==
  [name |-> name, namespace |-> namespace, declared |-> namespace \in namespaces,
   of |-> of, parent |-> parent, content |-> {}]

WriterInit ==
  /\ elements = <<>>
  /\ document = NoElement
  /\ currentElement = NoElement
  /\ elementStack = <<>>
  /\ namespaces = {}
  /\ hasError \in BOOLEAN   \* Xerces-C may fail to initialise

Writable == document # NoElement /\ ~hasError

(* A caught exception: nothing but the latch changes.                      *)
Fails ==
  /\ hasError' = TRUE
  /\ UNCHANGED <<elements, document, currentElement, elementStack>>

Returns == UNCHANGED <<elements, document, currentElement, elementStack, hasError>>

addNamespaceDeclarations(prefixes) == namespaces' = namespaces \cup prefixes

(* A new root. Neither the stack nor the error of an earlier document is   *)
(* cleared.                                                                *)
NewDocument(root) ==
  LET new == Len(elements) + 1
  IN /\ elements' = Append(elements, Element(root, "", 0, NoElement))
     /\ document' = new
     /\ currentElement' = new
     /\ elementStack' = Append(elementStack, new)

createDocument(root) == NewDocument(root) /\ UNCHANGED hasError

(* An exception while the root gets its declarations: the document and the *)
(* open root stay.                                                         *)
DeclarationsFail(root) == NewDocument(root) /\ hasError' = TRUE

startElementKeepsCurrent(name, namespace, of) ==  \* mutant: m_currentElement is not set
  \/ /\ Writable
     /\ elements' = Append(elements, Element(name, namespace, of, currentElement))
     /\ elementStack' = Append(elementStack, Len(elements) + 1)
     /\ UNCHANGED <<document, currentElement, hasError>>
  \/ Writable /\ Fails
  \/ ~Writable /\ Returns

startElementPushedFirst(name, namespace, of) ==  \* mutant: pushed before it can fail
  \/ /\ Writable
     /\ elements' = Append(elements, Element(name, namespace, of, currentElement))
     /\ currentElement' = Len(elements) + 1
     /\ elementStack' = Append(elementStack, Len(elements) + 1)
     /\ UNCHANGED <<document, hasError>>
  \/ /\ Writable
     /\ hasError' = TRUE
     /\ elementStack' = Append(elementStack, Len(elements) + 1)
     /\ UNCHANGED <<elements, document, currentElement>>
  \/ ~Writable /\ Returns

startElement(name, namespace, of) ==
  \/ /\ Writable
     /\ elements' = Append(elements, Element(name, namespace, of, currentElement))
     /\ currentElement' = Len(elements) + 1
     /\ elementStack' = Append(elementStack, Len(elements) + 1)
     /\ UNCHANGED <<document, hasError>>
  \/ Writable /\ Fails
  \/ ~Writable /\ Returns

endElementKeepsCurrent ==  \* mutant: m_currentElement stays at the element that ended
  \/ /\ elementStack # <<>> /\ ~hasError
     /\ elementStack' = Front(elementStack)
     /\ UNCHANGED <<elements, document, currentElement, hasError>>
  \/ /\ elementStack = <<>> \/ hasError
     /\ Returns

endElement ==
  \/ /\ elementStack # <<>> /\ ~hasError
     /\ elementStack' = Front(elementStack)
     /\ currentElement' = IF elementStack' = <<>> THEN currentElement ELSE Last(elementStack')
     /\ UNCHANGED <<elements, document, hasError>>
  \/ /\ elementStack = <<>> \/ hasError
     /\ Returns

(* writeAttribute and writeTextContent, the latter under the name "text".  *)
writeContent(name, value) ==
  \/ /\ currentElement # NoElement /\ ~hasError
     /\ elements' = [elements EXCEPT ![currentElement].content =
          {c \in @ : c[1] # name \/ name = "text"} \cup {<<name, value>>}]
     /\ UNCHANGED <<document, currentElement, elementStack, hasError>>
  \/ currentElement # NoElement /\ ~hasError /\ Fails
  \/ /\ currentElement = NoElement \/ hasError
     /\ Returns
=============================================================================
