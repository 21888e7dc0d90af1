---------------------------- MODULE MCNegotiation ----------------------------
(***************************************************************************)
(* Module Negotiation for TLC: symmetry of the controllers.                *)
(***************************************************************************)
EXTENDS Negotiation, TLC

Symmetry == Permutations(Controllers)

=============================================================================
