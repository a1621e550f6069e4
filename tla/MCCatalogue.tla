----------------------------- MODULE MCCatalogue -----------------------------
(* Small instances of Catalogue for TLC. *)
EXTENDS Catalogue, TLC

CONSTANTS t1, t2, i1, u1

SomeAlike == {t1, t2} \X {t1, t2}

Book(title, isbn, rec, marked, rater) ==
  [title |-> title, isbn |-> isbn, record |-> rec, marked |-> marked, rater |-> rater]

\* A book with an ISBN, again as a wanted duplicate that is rated, a book
\* without ISBN, and the record that is there.
SomeItems ==
  {Book(t1, <<i1, "hyphens">>, NoRecord, FALSE, Nobody),
   Book(t1, <<i1, "hyphens">>, NoRecord, TRUE, u1),
   Book(t2, NoIsbn, NoRecord, FALSE, Nobody)}
    \cup {Book(t1, NoIsbn, <<Earlier, 1>>, m, Nobody) : m \in BOOLEAN}

Symmetry == Permutations(Request)

=============================================================================
