----------------------------- MODULE MCAccounts -----------------------------
(***************************************************************************)
(* Module Accounts for TLC: symmetry of the interchangeable values.        *)
(***************************************************************************)
EXTENDS Accounts, TLC

Symmetry == Permutations(Ids) \cup Permutations(Emails)
              \cup Permutations(Tokens) \cup Permutations(Requests)

=============================================================================
