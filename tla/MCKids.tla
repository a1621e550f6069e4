-------------------------------- MODULE MCKids --------------------------------
(* Small instances of Kids for TLC. *)
EXTENDS Kids, TLC

Symmetry == Permutations(Book) \cup Permutations(Request)

=============================================================================
