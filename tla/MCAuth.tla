------------------------------- MODULE MCAuth --------------------------------
(* Symmetry for Auth: no action or property tells two accounts, addresses,  *)
(* handles, sessions or requests apart.                                     *)
EXTENDS Auth, TLC

Symmetry ==
  Permutations(Users) \cup Permutations(Emails) \cup Permutations(Handles)
    \cup Permutations(Sessions) \cup Permutations(Requests)
=============================================================================
