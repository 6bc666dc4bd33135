---------------------------- MODULE MCPromotion ----------------------------
(* Values of the constants of Promotion for model checking.                *)
EXTENDS Promotion, TLC

CONSTANTS ann, bob

\* Sessions differ in nothing but their names.
SymmetricSessions == Permutations(Sessions)

OneApprover == <<ann>>
=============================================================================
