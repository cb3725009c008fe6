----------------------------- MODULE MCWorkflows ----------------------------
(***************************************************************************)
(* Small instances of a proposal on its way to its approval, and of a      *)
(* proof of concept on its way to its acceptance.  They share no row, so   *)
(* each is explored alone: moving says which one moves.                    *)
(***************************************************************************)
EXTENDS Proposals, Pocs, TLC

CONSTANTS h1, h2, s1, s2, q1, q2, e1

VARIABLE moving

flowVars == <<vars, pocVars, moving>>

FlowInit == Init /\ PocInit /\ moving \in {"proposal", "poc"}

TheProposal == moving = "proposal" /\ Next /\ UNCHANGED <<pocVars, moving>>

ThePoc == moving = "poc" /\ PocNext /\ UNCHANGED <<vars, moving>>

FlowSpec == FlowInit /\ [][TheProposal \/ ThePoc]_flowVars

\* Handlers are alike, and the same for both; so are stages, which are all required, and
\* questions.
Symmetry == Permutations(Handler) \cup Permutations(Stage) \cup Permutations(Question)

=============================================================================
