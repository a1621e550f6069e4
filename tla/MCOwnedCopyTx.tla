--------------------------- MODULE MCOwnedCopyTx ---------------------------
(* Small instances of OwnedCopyTx for TLC. *)
EXTENDS OwnedCopyTx, TLC

Symmetry == Permutations(Request) \cup Permutations(Member)
              \cup Permutations(Book)

=============================================================================
