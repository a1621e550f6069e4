----------------------------- MODULE OwnedCopy -----------------------------
(***************************************************************************)
(* The owned copies of one library, as the catalog use cases promise to    *)
(* treat them when requests do not overlap: one atomic action per handler. *)
(*                                                                         *)
(* `books` is the table owned_books, `marks` the per-member tables         *)
(* book_reads, book_abandonments and reading_sessions, and `history` the   *)
(* kinds of audit events book_history holds for each copy.                 *)
(***************************************************************************)
EXTENDS Naturals, FiniteSets

CONSTANTS
  Book,      \* copy identifiers (UUIDs); an identifier is used once
  Member,    \* library members, whose accounts live in another service
  Place,     \* room/bookcase/section/shelf/position, as one value
  Unplaced,  \* the place of a copy whose location columns are all null
  NoOne,     \* current_reader_id is null
  NoBook     \* there is no row

ASSUME UnplacedIsPlace == Unplaced \in Place
ASSUME NoOneIsNoMember == NoOne \notin Member

VARIABLES books, marks, history

copyVars == <<books, marks, history>>

----------------------------------------------------------------------------
(* Rows *)

Status   == {"to_read", "reading", "read", "abandoned"}
Column   == {"to_read", "reading"}
MarkKind == {"read", "abandoned", "session"}
Event    == {"created", "deleted", "status", "metadata", "position"}

Row  == [reader : Member \cup {NoOne}, status : Column, place : Place]
Mark == MarkKind \X Book \X Member

ASSUME NoBookIsNoRow == NoBook \notin Row

Present(b) == books[b] # NoBook
Marked(k, b, m) == <<k, b, m>> \in marks
Recorded(e, b) == <<e, b>> \in history

\* A copy identifier nobody has used yet: uuid4 never repeats one.
Fresh(b) == ~Present(b) /\ \A e \in Event : ~Recorded(e, b)

\* The stored column: "reading" while somebody holds the copy.
ColumnOf(reader) == IF reader = NoOne THEN "to_read" ELSE "reading"

\* Mutant of NewRow: the column takes the status that was asked for.
NewRowStoresAsked(m, s, p) ==
  [reader |-> IF s = "reading" THEN m ELSE NoOne, status |-> s, place |-> p]

NewRow(m, s, p) ==
  LET reader == IF s = "reading" THEN m ELSE NoOne
  IN  [reader |-> reader, status |-> ColumnOf(reader), place |-> p]

\* What m sees of a copy whose holder is `reader`.
StatusFor(reader, hasRead, hasAbandoned) ==
  CASE reader # NoOne -> "reading"
    [] reader = NoOne /\ hasRead -> "read"
    [] reader = NoOne /\ ~hasRead /\ hasAbandoned -> "abandoned"
    [] OTHER -> "to_read"

\* Mutant of HolderAfter: asking for another status does not let go.
HolderKept(reader, m, s) == IF s = "reading" THEN m ELSE reader

\* The holder after m asks for status s: m claims the copy or lets go of its
\* own claim, and leaves anybody else's alone.
HolderAfter(reader, m, s) ==
  IF s = "reading" THEN m ELSE IF reader = m THEN NoOne ELSE reader

\* Mutant of RowAfter: the column is set by a claim but not by a release.
RowAfterClaimOnly(row, m, s) ==
  [row EXCEPT !.reader = HolderAfter(row.reader, m, s),
              !.status = IF s = "reading" THEN "reading" ELSE @]

\* The row after m asks for status s.
RowAfter(row, m, s) ==
  LET reader == HolderAfter(row.reader, m, s)
  IN  [row EXCEPT !.reader = reader, !.status = ColumnOf(reader)]

\* The marks a change to status s gives m, and those it takes away.
Gained(b, m, s) ==
  {<<k, b, m>> : k \in {s} \cap {"read", "abandoned"}}
Lost(b, m, s) ==
  {<<k, b, m>> : k \in (IF s = "reading" THEN {"abandoned"}
                        ELSE {"read", "abandoned"} \ {s})}

----------------------------------------------------------------------------
(* Handlers *)

Log(e, S) == history' = history \cup ({e} \X S)

AddBook(b, m, s, p) ==
  /\ Fresh(b)
  /\ books' = [books EXCEPT ![b] = NewRow(m, s, p)]
  /\ marks' = marks \cup {<<k, b, m>> : k \in {s} \cap {"read"}}
  /\ Log("created", {b})

SetStatus(b, m, s, e) ==
  /\ Present(b)
  /\ books' = [books EXCEPT ![b] = RowAfter(@, m, s)]
  /\ marks' = (marks \ Lost(b, m, s)) \cup Gained(b, m, s)
  /\ Log(e, {b})

UpdateReadingStatus(b, m, s) == SetStatus(b, m, s, "status")

\* The metadata form may leave the status out, and then changes none of the
\* columns modelled here.
UpdateBookMetadata(b, m) ==
  \/ \E s \in Status : SetStatus(b, m, s, "metadata")
  \/ /\ Present(b)
     /\ Log("metadata", {b})
     /\ UNCHANGED <<books, marks>>

MoveBooks(S, p) ==
  /\ \A b \in S : Present(b)
  /\ books' = [b \in Book |-> IF b \in S THEN [books[b] EXCEPT !.place = p]
                                         ELSE books[b]]
  /\ Log("position", S)
  /\ UNCHANGED marks

DeleteBooks(S) ==
  /\ \A b \in S : Present(b)
  /\ books' = [b \in Book |-> IF b \in S THEN NoBook ELSE books[b]]
  /\ marks' = {k \in marks : k[2] \notin S}
  /\ Log("deleted", S)

MarkBookRead(b, m) ==
  /\ Present(b)
  /\ marks' = marks \cup {<<"read", b, m>>}
  /\ UNCHANGED <<books, history>>

UnmarkBookRead(b, m) ==
  /\ Present(b)
  /\ marks' = marks \ {<<"read", b, m>>}
  /\ UNCHANGED <<books, history>>

\* A session "together" claims the copy for the child if nobody holds it.
LogReadingSession(b, m, together) ==
  /\ Present(b)
  /\ marks' = marks \cup {<<"session", b, m>>}
  /\ books' = IF together /\ books[b].reader = NoOne
              THEN [books EXCEPT ![b] = RowAfter(@, m, "reading")]
              ELSE books
  /\ UNCHANGED history

----------------------------------------------------------------------------
(* The library starts as a series of AddBook requests left it. *)

CopyInit ==
  /\ \E by \in [Book -> Member \cup {NoOne}], claimed \in SUBSET Book :
       /\ books = [b \in Book |->
                    IF by[b] = NoOne THEN NoBook
                    ELSE NewRow(by[b], IF b \in claimed THEN "reading"
                                       ELSE "to_read", Unplaced)]
       /\ history = {"created"} \X {b \in Book : by[b] # NoOne}
  /\ marks = {}

CopyNext ==
  \/ \E b \in Book, m \in Member, s \in Status :
       \/ \E p \in Place : AddBook(b, m, s, p)
       \/ UpdateReadingStatus(b, m, s)
  \/ \E b \in Book, m \in Member :
       \/ UpdateBookMetadata(b, m)
       \/ MarkBookRead(b, m)
       \/ UnmarkBookRead(b, m)
       \/ \E together \in BOOLEAN : LogReadingSession(b, m, together)
  \/ \E S \in (SUBSET Book) \ {{}} :
       \/ \E p \in Place : MoveBooks(S, p)
       \/ DeleteBooks(S)

CopySpec == CopyInit /\ [][CopyNext]_copyVars

----------------------------------------------------------------------------
(* Properties *)

CopyTypeOK ==
  /\ books \in [Book -> Row \cup {NoBook}]
  /\ marks \subseteq Mark
  /\ history \subseteq Event \X Book

(* The stored column only ever says whether anybody holds the copy: it is  *)
(* "reading" exactly while there is a current reader.                      *)
(* (update_reading_status.py, the assignment before the save)              *)
StatusTracksReader ==
  \A b \in Book : Present(b) => books[b].status = ColumnOf(books[b].reader)

(* A mark never outlives its copy: the rows of book_reads,                 *)
(* book_abandonments and reading_sessions go with the copy they are about, *)
(* and none is added to a copy that is gone.                               *)
MarksHaveBook == \A k \in marks : Present(k[2])

(* The audit trail tells which copies exist: a copy is in the table exactly *)
(* when its history has it created and not deleted, so a deleted copy      *)
(* never comes back.                                                       *)
AuditMatchesTable ==
  \A b \in Book :
    Present(b) <=> Recorded("created", b) /\ ~Recorded("deleted", b)

\* What m sees of copy b (OwnedBook.reading_status_for).
Seen(b, m) == StatusFor(books[b].reader, Marked("read", b, m),
                        Marked("abandoned", b, m))

\* Seen(b, m)' is what m sees once the request has ended.
AskedIsSeen(b, m, s) ==
  \/ Seen(b, m)' = s
  \/ books'[b].reader \notin {m, NoOne} /\ Seen(b, m)' = "reading"

(* Asking for a status works whatever the copy and its marks were before:  *)
(* the member then sees that status, unless somebody else holds the copy,  *)
(* which every member sees as "reading".                                   *)
(* (the new_status UpdateReadingStatusUseCase returns and records)         *)
StatusAskedIsSeen ==
  [][\A b \in Book, m \in Member, s \in Status :
       UpdateReadingStatus(b, m, s) => AskedIsSeen(b, m, s)]_copyVars

=============================================================================
