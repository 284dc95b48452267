------------------------------- MODULE MCRooms -------------------------------
(* Symmetry for the safety runs of Rooms: no action or property tells two   *)
(* users, two workers or two rooms apart.                                   *)
EXTENDS Rooms, TLC

Symmetry == Permutations(Users) \cup Permutations(Workers) \cup Permutations(Rooms)
=============================================================================
