---------------------------- MODULE MCProposals ----------------------------
(***************************************************************************)
(* Small instances of Proposals.                                           *)
(***************************************************************************)
EXTENDS Proposals, TLC

CONSTANTS h1, h2, s1, s2

\* Handlers are alike, and so are stages, which are all required.
Symmetry == Permutations(Handler) \cup Permutations(Stage)

=============================================================================
