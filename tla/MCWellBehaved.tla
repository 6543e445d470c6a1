--------------------------- MODULE MCWellBehaved ----------------------------
(* MCDocumentParser for alphabets whose element parsers keep to the rules  *)
(* that the theorems about the parser stack assume.                        *)
EXTENDS MCDocumentParser

ASSUME TablesWellBehaved == WellBehaved
=============================================================================
