-------------------------- MODULE OwnedCopy_proofs --------------------------
(***************************************************************************)
(* Theorems about OwnedCopy, for any set of copies, members and places.    *)
(*                                                                         *)
(* CopyInv is inductive as it stands: the audit trail is what tells a copy *)
(* identifier nobody has used from one whose copy is gone, the presence of *)
(* the row is what a new mark is allowed by, and the row's type is what    *)
(* tells a row from its absence.                                           *)
(***************************************************************************)
EXTENDS OwnedCopy, TLAPS

CopyInv ==
  /\ CopyTypeOK
  /\ StatusTracksReader
  /\ MarksHaveBook
  /\ AuditMatchesTable

----------------------------------------------------------------------------
(* Rows *)

\* A row the handlers make has the type of a row, and so is not NoBook; its
\* column agrees with its reader.
LEMMA NewRowIsRow ==
  ASSUME NEW m \in Member, NEW s \in Status, NEW p \in Place
  PROVE  /\ NewRow(m, s, p) \in Row
         /\ NewRow(m, s, p) # NoBook
         /\ NewRow(m, s, p).status = ColumnOf(NewRow(m, s, p).reader)
<1>1. /\ NewRow(m, s, p) \in Row
      /\ NewRow(m, s, p).status = ColumnOf(NewRow(m, s, p).reader)
  BY DEF NewRow, ColumnOf, Row, Column
<1> QED
  BY <1>1, NoBookIsNoRow

\* What a request for a status makes of a row is such a row again.
LEMMA RowAfterIsRow ==
  ASSUME NEW row \in Row, NEW m \in Member, NEW s \in Status
  PROVE  /\ RowAfter(row, m, s) \in Row
         /\ RowAfter(row, m, s) # NoBook
         /\ RowAfter(row, m, s).status = ColumnOf(RowAfter(row, m, s).reader)
         /\ RowAfter(row, m, s).reader = HolderAfter(row.reader, m, s)
<1> DEFINE h == HolderAfter(row.reader, m, s)
           new == [row EXCEPT !.reader = h, !.status = ColumnOf(h)]
<1>1. h \in Member \cup {NoOne} /\ ColumnOf(h) \in Column
  BY DEF HolderAfter, Row, ColumnOf, Column
<1>2. RowAfter(row, m, s) = new
  BY DEF RowAfter
<1> HIDE DEF h
<1>3. new \in Row /\ new.reader = h /\ new.status = ColumnOf(h)
  BY <1>1 DEF Row
<1>4. new # NoBook
  BY <1>3, NoBookIsNoRow
<1> QED
  BY <1>2, <1>3, <1>4 DEF h

\* Moving a copy keeps it a row and leaves its reader and its column.
LEMMA MovedIsRow ==
  ASSUME NEW row \in Row, NEW p \in Place
  PROVE  /\ [row EXCEPT !.place = p] \in Row
         /\ [row EXCEPT !.place = p] # NoBook
         /\ [row EXCEPT !.place = p].reader = row.reader
         /\ [row EXCEPT !.place = p].status = row.status
  BY NoBookIsNoRow DEF Row

----------------------------------------------------------------------------
(* The initial states *)

LEMMA InitInv == CopyInit => CopyInv
<1> SUFFICES ASSUME CopyInit PROVE CopyInv
  OBVIOUS
<1>1. PICK by \in [Book -> Member \cup {NoOne}], claimed \in SUBSET Book :
        /\ books = [b \in Book |->
                     IF by[b] = NoOne THEN NoBook
                     ELSE NewRow(by[b], IF b \in claimed THEN "reading"
                                        ELSE "to_read", Unplaced)]
        /\ history = {"created"} \X {b \in Book : by[b] # NoOne}
  BY DEF CopyInit
<1>2. marks = {}
  BY DEF CopyInit
<1>3. ASSUME NEW b \in Book, by[b] # NoOne
      PROVE  /\ books[b] \in Row
             /\ books[b] # NoBook
             /\ books[b].status = ColumnOf(books[b].reader)
  <2>1. by[b] \in Member
    BY <1>3
  <2>2. (IF b \in claimed THEN "reading" ELSE "to_read") \in Status
    BY DEF Status
  <2>3. books[b] = NewRow(by[b], IF b \in claimed THEN "reading"
                                 ELSE "to_read", Unplaced)
    BY <1>1, <1>3
  <2> QED
    BY <2>1, <2>2, <2>3, NewRowIsRow, UnplacedIsPlace
<1>4. ASSUME NEW b \in Book, by[b] = NoOne
      PROVE  books[b] = NoBook
  BY <1>1, <1>4
<1>5. CopyTypeOK
  <2>1. books \in [Book -> Row \cup {NoBook}]
    BY <1>1, <1>3, <1>4
  <2>2. history \subseteq Event \X Book
    BY <1>1 DEF Event
  <2> QED
    BY <2>1, <2>2, <1>2 DEF CopyTypeOK
<1>6. StatusTracksReader
  BY <1>3, <1>4 DEF StatusTracksReader, Present
<1>7. MarksHaveBook
  BY <1>2 DEF MarksHaveBook
<1>8. AuditMatchesTable
  BY <1>1, <1>3, <1>4 DEF AuditMatchesTable, Present, Recorded
<1> QED
  BY <1>5, <1>6, <1>7, <1>8 DEF CopyInv

----------------------------------------------------------------------------
(* The steps, one lemma for each handler *)

LEMMA AddBookInv ==
  ASSUME CopyInv, NEW b \in Book, NEW m \in Member, NEW s \in Status,
         NEW p \in Place, AddBook(b, m, s, p)
  PROVE  CopyInv'
<1> DEFINE new == NewRow(m, s, p)
<1>1. /\ new \in Row
      /\ new # NoBook
      /\ new.status = ColumnOf(new.reader)
  BY NewRowIsRow
<1> HIDE DEF new
<1>2. /\ ~Present(b)
      /\ \A e \in Event : ~Recorded(e, b)
      /\ books' = [books EXCEPT ![b] = new]
      /\ marks' = marks \cup {<<k, b, m>> : k \in {s} \cap {"read"}}
      /\ history' = history \cup ({"created"} \X {b})
  BY DEF AddBook, Fresh, Log, new
<1>3. CopyTypeOK'
  BY <1>1, <1>2 DEF CopyInv, CopyTypeOK, Mark, MarkKind, Event
<1>4. StatusTracksReader'
  BY <1>1, <1>2 DEF CopyInv, CopyTypeOK, StatusTracksReader, Present
<1>5. MarksHaveBook'
  BY <1>1, <1>2 DEF CopyInv, CopyTypeOK, MarksHaveBook, Present, Mark
<1>6. AuditMatchesTable'
  BY <1>1, <1>2 DEF CopyInv, CopyTypeOK, AuditMatchesTable, Present, Recorded,
                    Event
<1> QED
  BY <1>3, <1>4, <1>5, <1>6 DEF CopyInv

\* The reading-status and the metadata handler: e is the event they record.
LEMMA SetStatusInv ==
  ASSUME CopyInv, NEW b \in Book, NEW m \in Member, NEW s \in Status,
         NEW e \in {"status", "metadata"}, SetStatus(b, m, s, e)
  PROVE  CopyInv'
<1> DEFINE new == RowAfter(books[b], m, s)
<1>1. /\ new \in Row
      /\ new # NoBook
      /\ new.status = ColumnOf(new.reader)
  <2>1. books[b] \in Row
    BY DEF CopyInv, CopyTypeOK, SetStatus, Present
  <2> QED
    BY <2>1, RowAfterIsRow
<1> HIDE DEF new
<1>2. /\ Present(b)
      /\ books' = [books EXCEPT ![b] = new]
      /\ marks' = (marks \ Lost(b, m, s)) \cup Gained(b, m, s)
      /\ history' = history \cup ({e} \X {b})
  BY DEF SetStatus, Log, new
<1>3. \A k \in Gained(b, m, s) : k \in Mark /\ k[2] = b
  BY DEF Gained, Mark, MarkKind
<1>4. CopyTypeOK'
  BY <1>1, <1>2, <1>3 DEF CopyInv, CopyTypeOK, Event
<1>5. StatusTracksReader'
  BY <1>1, <1>2 DEF CopyInv, CopyTypeOK, StatusTracksReader, Present
<1>6. MarksHaveBook'
  BY <1>1, <1>2, <1>3 DEF CopyInv, CopyTypeOK, MarksHaveBook, Present, Mark
<1>7. AuditMatchesTable'
  BY <1>1, <1>2 DEF CopyInv, CopyTypeOK, AuditMatchesTable, Present, Recorded
<1> QED
  BY <1>4, <1>5, <1>6, <1>7 DEF CopyInv

LEMMA MoveBooksInv ==
  ASSUME CopyInv, NEW S \in SUBSET Book, NEW p \in Place, MoveBooks(S, p)
  PROVE  CopyInv'
<1>1. /\ \A b \in S : Present(b)
      /\ books' = [b \in Book |-> IF b \in S THEN [books[b] EXCEPT !.place = p]
                                             ELSE books[b]]
      /\ marks' = marks
      /\ history' = history \cup ({"position"} \X S)
  BY DEF MoveBooks, Log
<1>2. ASSUME NEW b \in S
      PROVE  /\ books'[b] \in Row
             /\ books'[b] # NoBook
             /\ books'[b].reader = books[b].reader
             /\ books'[b].status = books[b].status
  <2>1. books[b] \in Row
    BY <1>1 DEF CopyInv, CopyTypeOK, Present
  <2>2. books'[b] = [books[b] EXCEPT !.place = p]
    BY <1>1
  <2> QED
    BY <2>1, <2>2, MovedIsRow
<1>3. ASSUME NEW b \in Book, b \notin S
      PROVE  books'[b] = books[b]
  BY <1>1, <1>3
<1>4. CopyTypeOK'
  <2>1. books' \in [Book -> Row \cup {NoBook}]
    <3>1. ASSUME NEW b \in Book PROVE books'[b] \in Row \cup {NoBook}
      BY <1>2, <1>3 DEF CopyInv, CopyTypeOK
    <3> QED
      BY <3>1, <1>1
  <2> QED
    BY <2>1, <1>1 DEF CopyInv, CopyTypeOK, Event
<1>5. \A b \in Book : Present(b)' <=> Present(b)
  BY <1>1, <1>2, <1>3 DEF Present
<1>6. StatusTracksReader'
  BY <1>2, <1>3, <1>5 DEF CopyInv, StatusTracksReader, Present
<1>7. MarksHaveBook'
  BY <1>1, <1>5 DEF CopyInv, CopyTypeOK, MarksHaveBook, Mark
<1>8. AuditMatchesTable'
  BY <1>1, <1>5 DEF CopyInv, AuditMatchesTable, Recorded
<1> QED
  BY <1>4, <1>6, <1>7, <1>8 DEF CopyInv

LEMMA DeleteBooksInv ==
  ASSUME CopyInv, NEW S \in SUBSET Book, DeleteBooks(S)
  PROVE  CopyInv'
<1>1. /\ books' = [b \in Book |-> IF b \in S THEN NoBook ELSE books[b]]
      /\ marks' = {k \in marks : k[2] \notin S}
      /\ history' = history \cup ({"deleted"} \X S)
  BY DEF DeleteBooks, Log
<1>2. CopyTypeOK'
  BY <1>1 DEF CopyInv, CopyTypeOK, Event
<1>3. StatusTracksReader'
  BY <1>1 DEF CopyInv, StatusTracksReader, Present
<1>4. MarksHaveBook'
  BY <1>1 DEF CopyInv, CopyTypeOK, MarksHaveBook, Present, Mark
<1>5. AuditMatchesTable'
  BY <1>1 DEF CopyInv, AuditMatchesTable, Present, Recorded
<1> QED
  BY <1>2, <1>3, <1>4, <1>5 DEF CopyInv

\* The handlers of one mark table leave the copies or claim one of them.
LEMMA MarkInv ==
  ASSUME CopyInv, NEW b \in Book, NEW m \in Member,
         MarkBookRead(b, m) \/ UnmarkBookRead(b, m)
  PROVE  CopyInv'
<1>1. /\ Present(b)
      /\ books' = books
      /\ history' = history
      /\ \A k \in marks' : k \in marks \/ k = <<"read", b, m>>
  BY DEF MarkBookRead, UnmarkBookRead
<1>2. CopyTypeOK'
  BY <1>1 DEF CopyInv, CopyTypeOK, Mark, MarkKind
<1>3. MarksHaveBook'
  BY <1>1 DEF CopyInv, MarksHaveBook, Present
<1>4. StatusTracksReader' /\ AuditMatchesTable'
  BY <1>1 DEF CopyInv, StatusTracksReader, AuditMatchesTable, Present, Recorded
<1> QED
  BY <1>2, <1>3, <1>4 DEF CopyInv

LEMMA LogReadingSessionInv ==
  ASSUME CopyInv, NEW b \in Book, NEW m \in Member, NEW together \in BOOLEAN,
         LogReadingSession(b, m, together)
  PROVE  CopyInv'
<1> DEFINE new == IF together /\ books[b].reader = NoOne
                  THEN RowAfter(books[b], m, "reading") ELSE books[b]
<1>1. /\ new \in Row
      /\ new # NoBook
      /\ new.status = ColumnOf(new.reader)
  <2>1. books[b] \in Row /\ books[b].status = ColumnOf(books[b].reader)
    BY DEF CopyInv, CopyTypeOK, StatusTracksReader, LogReadingSession, Present
  <2>2. "reading" \in Status
    BY DEF Status
  <2> QED
    BY <2>1, <2>2, RowAfterIsRow, NoBookIsNoRow
<1>2. /\ Present(b)
      /\ books' = [books EXCEPT ![b] = new]
      /\ marks' = marks \cup {<<"session", b, m>>}
      /\ history' = history
  BY DEF LogReadingSession, CopyInv, CopyTypeOK
<1> HIDE DEF new
<1>3. CopyTypeOK'
  BY <1>1, <1>2 DEF CopyInv, CopyTypeOK, Mark, MarkKind
<1>4. StatusTracksReader'
  BY <1>1, <1>2 DEF CopyInv, CopyTypeOK, StatusTracksReader, Present
<1>5. MarksHaveBook'
  BY <1>1, <1>2 DEF CopyInv, CopyTypeOK, MarksHaveBook, Present, Mark
<1>6. AuditMatchesTable'
  BY <1>1, <1>2 DEF CopyInv, CopyTypeOK, AuditMatchesTable, Present, Recorded
<1> QED
  BY <1>3, <1>4, <1>5, <1>6 DEF CopyInv

----------------------------------------------------------------------------
(* The specification *)

LEMMA StepInv == CopyInv /\ [CopyNext]_copyVars => CopyInv'
<1> SUFFICES ASSUME CopyInv, [CopyNext]_copyVars PROVE CopyInv'
  OBVIOUS
<1>1. CASE \E b \in Book, m \in Member, s \in Status, p \in Place :
             AddBook(b, m, s, p)
  BY <1>1, AddBookInv
<1>2. CASE \E b \in Book, m \in Member, s \in Status :
             UpdateReadingStatus(b, m, s)
  BY <1>2, SetStatusInv DEF UpdateReadingStatus
<1>3. CASE \E b \in Book, m \in Member : UpdateBookMetadata(b, m)
  <2>1. PICK b \in Book, m \in Member : UpdateBookMetadata(b, m)
    BY <1>3
  <2>2. CASE \E s \in Status : SetStatus(b, m, s, "metadata")
    BY <2>2, SetStatusInv
  <2>3. CASE Log("metadata", {b}) /\ UNCHANGED <<books, marks>>
    <3>1. CopyTypeOK'
      BY <2>3 DEF CopyInv, CopyTypeOK, Log, Event
    <3>2. StatusTracksReader' /\ MarksHaveBook' /\ AuditMatchesTable'
      BY <2>3 DEF CopyInv, StatusTracksReader, MarksHaveBook,
                  AuditMatchesTable, Present, Recorded, Log
    <3> QED
      BY <3>1, <3>2 DEF CopyInv
  <2> QED
    BY <2>1, <2>2, <2>3 DEF UpdateBookMetadata
<1>4. CASE \E b \in Book, m \in Member : MarkBookRead(b, m) \/ UnmarkBookRead(b, m)
  BY <1>4, MarkInv
<1>5. CASE \E b \in Book, m \in Member, together \in BOOLEAN :
             LogReadingSession(b, m, together)
  BY <1>5, LogReadingSessionInv
<1>6. CASE \E S \in (SUBSET Book) \ {{}} : \E p \in Place : MoveBooks(S, p)
  BY <1>6, MoveBooksInv
<1>7. CASE \E S \in (SUBSET Book) \ {{}} : DeleteBooks(S)
  BY <1>7, DeleteBooksInv
<1>8. CASE UNCHANGED copyVars
  BY <1>8 DEF copyVars, CopyInv, CopyTypeOK, StatusTracksReader, MarksHaveBook,
              AuditMatchesTable, Present, Recorded
<1> QED
  BY <1>1, <1>2, <1>3, <1>4, <1>5, <1>6, <1>7, <1>8 DEF CopyNext

(* The handlers keep the four invariants together, whatever the sets of    *)
(* copies, members and places.                                             *)
THEOREM CopyInvHolds == CopySpec => []CopyInv
  BY InitInv, StepInv, PTL DEF CopySpec

(* The tables keep their shape.                                            *)
THEOREM CopyTypesHold == CopySpec => []CopyTypeOK
<1>1. CopyInv => CopyTypeOK
  BY DEF CopyInv
<1> QED
  BY <1>1, CopyInvHolds, PTL

(* The stored column says "reading" exactly while somebody holds the copy. *)
THEOREM ColumnTracksReader == CopySpec => []StatusTracksReader
<1>1. CopyInv => StatusTracksReader
  BY DEF CopyInv
<1> QED
  BY <1>1, CopyInvHolds, PTL

(* No mark outlives its copy.                                              *)
THEOREM NoOrphanMark == CopySpec => []MarksHaveBook
<1>1. CopyInv => MarksHaveBook
  BY DEF CopyInv
<1> QED
  BY <1>1, CopyInvHolds, PTL

(* The audit trail tells which copies exist, and a deleted copy stays      *)
(* deleted.                                                                *)
THEOREM AuditTrailIsExact == CopySpec => []AuditMatchesTable
<1>1. CopyInv => AuditMatchesTable
  BY DEF CopyInv
<1> QED
  BY <1>1, CopyInvHolds, PTL

----------------------------------------------------------------------------
(* What a member sees *)

LEMMA AskedStep ==
  ASSUME CopyTypeOK, NEW b \in Book, NEW m \in Member, NEW s \in Status,
         UpdateReadingStatus(b, m, s)
  PROVE  AskedIsSeen(b, m, s)
<1> DEFINE reader == HolderAfter(books[b].reader, m, s)
<1>1. books[b] \in Row
  BY DEF UpdateReadingStatus, SetStatus, Present, CopyTypeOK
<1>2. books'[b].reader = reader
  <2>1. books'[b] = RowAfter(books[b], m, s)
    BY DEF UpdateReadingStatus, SetStatus, CopyTypeOK
  <2> QED
    BY <1>1, <2>1, RowAfterIsRow
<1>3. marks' = (marks \ Lost(b, m, s)) \cup Gained(b, m, s)
  BY DEF UpdateReadingStatus, SetStatus
<1>4. m # NoOne
  BY NoOneIsNoMember
<1>5. CASE s = "reading"
  <2>1. reader = m
    BY <1>5 DEF HolderAfter
  <2> QED
    BY <1>2, <1>4, <1>5, <2>1 DEF AskedIsSeen, Seen, StatusFor
<1>6. CASE s # "reading" /\ reader # NoOne
  <2>1. reader # m
    BY <1>4, <1>6 DEF HolderAfter
  <2> QED
    BY <1>2, <1>6, <2>1 DEF AskedIsSeen, Seen, StatusFor
<1>7. CASE s # "reading" /\ reader = NoOne
  <2>1. s \in {"read", "abandoned", "to_read"}
    BY <1>7 DEF Status
  <2>2. /\ <<"read", b, m>> \in marks' <=> s = "read"
        /\ <<"abandoned", b, m>> \in marks' <=> s = "abandoned"
    BY <1>3, <2>1 DEF Gained, Lost
  <2> QED
    BY <1>2, <1>7, <2>1, <2>2 DEF AskedIsSeen, Seen, StatusFor, Marked
<1> QED
  BY <1>5, <1>6, <1>7

(* A member who asks for a status sees it afterwards, unless somebody else *)
(* holds the copy, whatever the copy and its marks were before.            *)
THEOREM AskedStatusIsSeen == CopySpec => StatusAskedIsSeen
<1>1. CopyTypeOK => [\A b \in Book, m \in Member, s \in Status :
                       UpdateReadingStatus(b, m, s)
                         => AskedIsSeen(b, m, s)]_copyVars
  BY AskedStep
<1> QED
  BY <1>1, CopyTypesHold, PTL DEF StatusAskedIsSeen

=============================================================================
