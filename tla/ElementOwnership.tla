-------------------------- MODULE ElementOwnership --------------------------
(***************************************************************************)
(* What the parser stack promises: the parsers in charge of an element are *)
(* settled when it is opened and stay in charge until it is closed, while  *)
(* elements inside it come and go ("it will be bound to the xml element    *)
(* whose start tag is found next", "as soon as the end tag of the bound    *)
(* element is detected the control flow is returned to the caller",        *)
(* citygmlelementparser.h).                                                *)
(***************************************************************************)
EXTENDS SequencesExt

VARIABLE owners  \* for each open element, outermost first, who is in charge

Init == owners = <<>>

(* An element is opened; those in charge of the others stay.               *)
Enter == owners' # <<>> /\ Front(owners') = owners

(* The innermost element is closed.                                        *)
Leave == owners # <<>> /\ owners' = Front(owners)

Next == Enter \/ Leave

Spec == Init /\ [][Next]_owners
=============================================================================
