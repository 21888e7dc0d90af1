-------------------------- MODULE MCSignalingServer --------------------------
(***************************************************************************)
(* Module SignalingServer for TLC: symmetry of the interchangeable values, *)
(* and the bounds on the life of accounts in the pairing run.              *)
(***************************************************************************)
EXTENDS SignalingRefinement, TLC

Symmetry ==
  Permutations(Conns) \cup Permutations(Devices) \cup Permutations(Accounts)
    \cup Permutations(Otps) \cup Permutations(SessionIds)

\* Accounts are made before the first device registers.
AccountsFirst == issued = {} \/ \A a \in Accounts : account[a] # "absent"

\* Not every account is deleted; the connections of one that is go on.
SomeAccountLeft == \E a \in Accounts : account[a] # "deleted"

=============================================================================
