--------------------------- MODULE MCDemandUpdates --------------------------
(* Small instances of DemandUpdates: one document, up to three PATCHes.      *)
EXTENDS DemandUpdates, TLC

CONSTANTS x1, r1, r2

OneDoc == {x1}
TwoRequests == {r1, r2}

AnyKind == SUBSET Part

\* Documents are interchangeable, and so are handlers.
Symmetric == Permutations(Doc) \cup Permutations(Request)
=============================================================================
