------------------------------ MODULE MCLoans ------------------------------
(* Small instances of Loans for TLC. *)
EXTENDS Loans, TLC

Symmetry == Permutations(Request) \cup Permutations(Worker)
              \cup Permutations(Book) \cup Permutations(Loan)

=============================================================================
