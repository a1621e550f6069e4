----------------------------- MODULE MCBookClub -----------------------------
(* Small instances of BookClub for TLC. *)
EXTENDS BookClub, TLC

Symmetry == Permutations(Cycle) \cup Permutations(Post) \cup Permutations(Proposal)
              \cup Permutations(Member) \cup Permutations(Request)

=============================================================================
