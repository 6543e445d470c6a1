---------------------------- MODULE MCReferences ----------------------------
(* Model-checking instances of ModelFinish.                                *)
EXTENDS ModelFinish

Ids    == Permutations(Id)
Themes == Permutations(Theme)
=============================================================================
