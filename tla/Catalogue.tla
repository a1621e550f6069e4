------------------------------ MODULE Catalogue ------------------------------
(***************************************************************************)
(* The catalogue of a library: bibliographic records, the copies that are  *)
(* added to them one by one or in batches, wishes for records, and ratings *)
(* of copies.                                                              *)
(*                                                                         *)
(* The tables hold the rows of open transactions too: a row is named after *)
(* the request that inserts it, and others see it when that request has    *)
(* ended. Unique indexes do not wait for that.                             *)
(***************************************************************************)
EXTENDS Integers, Sequences, FiniteSetsExt

CONSTANTS
  Member,    \* members of the library
  Title,     \* titles with their authors
  Alike,     \* pairs of titles that resemble each other
  Isbn,      \* ISBNs, whatever way they are written
  NoIsbn,    \* isbn is null
  Stars,     \* the values of a rating
  Item,      \* what clients may ask to add, see Items
  Request,   \* requests; each is made at most once, and names its rows
  Earlier,   \* the request that made the rows that are there at first
  NoRow, NoRecord, Nobody

Written == Isbn \X {"plain", "hyphens"}

Code == Written \cup {NoIsbn}

From == Request \cup {Earlier}

\* A request inserts at most one row of a table for each of its items.
Number == 1..2

Name == From \X Number

\* A book to add: to a record, or to the record its ISBN or its title makes.
\* Who imports it may have rated it, and any item may be a wanted duplicate.
Items == [title : Title, isbn : Code, record : Name \cup {NoRecord},
          marked : BOOLEAN, rater : Member \cup {Nobody}]

ASSUME ItemsAreItems == Item \subseteq Items
ASSUME AlikeIsReflexive == \A t \in Title : <<t, t>> \in Alike
ASSUME EarlierIsEarlier == Earlier \notin Request
ASSUME NoRowIsNoRow == NoRow \notin [title : Title, isbn : Code,
                                     text : {"none", "derived", "manual", "ai"}]
ASSUME NoIsbnIsNone == NoIsbn \notin Written
ASSUME NoRecordIsNone == NoRecord \notin Name

VARIABLES
  record,   \* bibliographic_records: each name's row, or none
  copies,   \* owned_books
  wishes,   \* wishlist_items
  ratings,  \* book_ratings
  pc,       \* each request: "idle", "adding", "saving" or "done"
  job,      \* what it is adding or saving
  before,   \* history: the requests that had ended when it began
  writer    \* history: the request that last saved or deleted a record

vars == <<record, copies, wishes, ratings, pc, job, before, writer>>

----------------------------------------------------------------------------
(* The rows *)

Text == {"none", "derived", "manual", "ai"}

RecordRow == [title : Title, isbn : Code, text : Text]

\* place is shelf_position on the one shelf of this module, 0 for none.
CopyRow == [name : Name, record : Name, marked : BOOLEAN, place : Nat]

WishRow == [name : Name, user : Member, record : Name]

RatingRow == [name : Name, copy : Name, user : Member, stars : Stars]

Column == {"title", "isbn", "text"}

\* Adding: the items, the next of them, and the place for its copy.
Adding == [kind : {"add", "scan", "import"}, items : Seq(Item), at : 1..3, place : Nat]

\* Saving: a record as it was read, with one column changed.
Saving == [kind : {"save"}, record : Name, row : RecordRow, column : Column]

NoJob == [kind |-> "none"]

----------------------------------------------------------------------------
(* Requests, and what they see *)

Began(r) == before' = [before EXCEPT ![r] = {s \in Request : pc[s] = "done"}]

\* Mutant of Ends: what it was adding is not forgotten.
EndsAdding(r) ==
  /\ pc' = [pc EXCEPT ![r] = "done"]
  /\ UNCHANGED job

Ends(r) ==
  /\ pc' = [pc EXCEPT ![r] = "done"]
  /\ job' = [job EXCEPT ![r] = NoJob]

Once(r) == pc[r] = "idle" /\ Began(r) /\ Ends(r)

Starts(r, state, j) ==
  /\ pc[r] = "idle" /\ Began(r)
  /\ pc' = [pc EXCEPT ![r] = state]
  /\ job' = [job EXCEPT ![r] = j]
  /\ UNCHANGED <<record, copies, wishes, ratings, writer>>

\* The request that inserted this row has committed it.
Settled(name) == name[1] = Earlier \/ pc[name[1]] # "adding"

Sees(r, name) == name[1] = r \/ Settled(name)

Stored == {x \in Name : record[x] # NoRow}

Records(r) == {x \in Stored : Sees(r, x)}

Copies(r) == {c \in copies : Sees(r, c.name)}

FindByIsbn(r, code) == {x \in Records(r) : record[x].isbn = code}

FindByRecord(r, x) == {c \in Copies(r) : c.record = x}

\* Mutant of KeyFree: an index that only knows the committed rows.
KeyFreeOfSettled(code, x) ==
  code # NoIsbn => \A y \in {z \in Stored \ {x} : Settled(z)} : record[y].isbn # code

\* The unique index of ISBNs. A row that is not committed holds its key too:
\* who wants it waits, and is refused when it is committed.
KeyFree(code, x) ==
  code # NoIsbn => \A y \in Stored \ {x} : record[y].isbn # code

Insert(x, title, code) ==
  /\ record[x] = NoRow /\ KeyFree(code, x)
  /\ record' = [record EXCEPT ![x] = [title |-> title, isbn |-> code, text |-> "none"]]

----------------------------------------------------------------------------
(* Adding books *)

\* normalize_isbn
Normal(code) == IF code = NoIsbn THEN NoIsbn ELSE <<code[1], "plain">>

\* The record of an item: the one it names, the one that has its ISBN, or a
\* new one.
Resolve(r, item, new, x) ==
  \/ item.record # NoRecord /\ x = item.record /\ x \in Records(r) /\ UNCHANGED record
  \/ /\ item.record = NoRecord /\ item.isbn # NoIsbn
     /\ x \in FindByIsbn(r, Normal(item.isbn)) /\ UNCHANGED record
  \/ /\ item.record = NoRecord
     /\ item.isbn # NoIsbn => FindByIsbn(r, Normal(item.isbn)) = {}
     /\ x = new /\ Insert(new, item.title, Normal(item.isbn))

\* Mutant of IsOwned: other copies are looked for among the committed ones.
IsOwnedSettled(r, x) == \E c \in {d \in copies : Settled(d.name)} : c.record = x

\* The record has a copy.
IsOwned(r, x) == FindByRecord(r, x) # {}

\* Another record with this title, or one like it, has a copy. Which of the
\* records with the same title is looked at is not determined, and may be the
\* new one; of titles that are alike a language model is the judge.
Resembles(r, x, title) ==
  \E y \in Records(r) \ {x} : <<record[y].title, title>> \in Alike /\ IsOwned(r, y)

Key(item) == IF item.isbn = NoIsbn THEN <<item.title>> ELSE Normal(item.isbn)

\* An earlier item of the batch was the same book.
SeenInBatch(j) ==
  /\ ~j.items[j.at].marked
  /\ \E i \in 1..(j.at - 1) : ~j.items[i].marked /\ Key(j.items[i]) = Key(j.items[j.at])

\* Mutant of NextPlace: as many as there are, and one.
NextPlaceByCount(r) == Cardinality({c \in Copies(r) : c.place > 0}) + 1

NextPlace(r) == Max({c.place : c \in Copies(r)} \cup {0}) + 1

Skip(r) == job' = [job EXCEPT ![r].at = @ + 1]

AddCopy(r, x) ==
  LET j == job[r]
      item == j.items[j.at]
      name == <<r, j.at>>
  IN  /\ copies' = copies \cup {[name |-> name, record |-> x,
                                 marked |-> item.marked, place |-> j.place]}
      /\ IF item.rater = Nobody THEN UNCHANGED ratings
         ELSE \E n \in Stars : ratings' = ratings \cup
                {[name |-> name, copy |-> name, user |-> item.rater, stars |-> n]}
      /\ job' = [job EXCEPT ![r].at = @ + 1,
                            ![r].place = IF j.kind = "scan" THEN @ + 1 ELSE @]

\* A duplicate ends the request that adds one book, by GiveUp; of a batch it
\* is left out, and its record stays.
AddBook(r, item) ==
  \E x \in Name :
    /\ Resolve(r, item, <<r, job[r].at>>, x)
    /\ \/ (item.marked \/ ~IsOwned(r, x)) /\ AddCopy(r, x)
       \/ /\ ~item.marked /\ job[r].kind # "add"
          /\ IsOwned(r, x) \/ Resembles(r, x, record'[x].title)
          /\ Skip(r) /\ UNCHANGED <<copies, ratings>>

\* What others commit between the check of an item and its insert might as
\* well be committed after it: nothing is looked at again.
AddItem(r) ==
  LET j == job[r] IN
  /\ pc[r] = "adding" /\ j.at <= Len(j.items)
  /\ \/ SeenInBatch(j) /\ Skip(r) /\ UNCHANGED <<record, copies, ratings>>
     \/ ~SeenInBatch(j) /\ AddBook(r, j.items[j.at])
  /\ UNCHANGED <<wishes, pc, before, writer>>

Commit(r) ==
  /\ pc[r] = "adding" /\ job[r].at > Len(job[r].items)
  /\ Ends(r)
  /\ UNCHANGED <<record, copies, wishes, ratings, before, writer>>

Batch(kind, items, place) == [kind |-> kind, items |-> items, at |-> 1, place |-> place]

add_book(r) ==
  \E i \in Item : i.rater = Nobody /\ Starts(r, "adding", Batch("add", <<i>>, 0))

\* One or two items.
Batches(I) == {<<i>> : i \in I} \cup {<<i, k>> : i, k \in I}

\* The place of the first spine is read before anything is added.
ConfirmShelfScan(r, items) == Starts(r, "adding", Batch("scan", items, NextPlace(r)))

confirm_shelf_scan(r) ==
  \E items \in Batches({i \in Item : i.record = NoRecord /\ i.rater = Nobody}) :
    ConfirmShelfScan(r, items)

\* Books of an import have no place; the importer rates them.
ConfirmGoodreadsImport(r, items) == Starts(r, "adding", Batch("import", items, 0))

confirm_goodreads_import(r) ==
  \E items \in Batches({i \in Item : i.record = NoRecord}) : ConfirmGoodreadsImport(r, items)

----------------------------------------------------------------------------
(* Records *)

\* The ISBN is stored as it is written, and a record that has it answers.
CreateBibliographicRecord(r, t, code) ==
  IF code # NoIsbn /\ FindByIsbn(r, code) # {} THEN UNCHANGED record
  ELSE Insert(<<r, 1>>, t, code)

create_record(r) ==
  \E t \in Title, code \in Code :
    /\ Once(r)
    /\ CreateBibliographicRecord(r, t, code)
    /\ UNCHANGED <<copies, wishes, ratings, writer>>

\* Mutant of Edited: another ISBN drops the text.
EditedAnew(row, column, v) ==
  IF column = "isbn" THEN [row EXCEPT !.isbn = v, !.text = "none"]
  ELSE [row EXCEPT ![column] = v]

Edited(row, column, v) == [row EXCEPT ![column] = v]

\* The record is read, and will be saved with a column changed.
Edit(r, x, column, v) ==
  /\ x \in Records(r)
  /\ Starts(r, "saving", [kind |-> "save", record |-> x, column |-> column,
                          row |-> Edited(record[x], column, v)])

\* An ISBN can be changed, and not be taken away.
UpdateBibliographicRecord(r, x) ==
  \/ \E t \in Title : Edit(r, x, "title", t)
  \/ \E code \in Written : Edit(r, x, "isbn", code)

update_record(r) == \E x \in Records(r) : UpdateBibliographicRecord(r, x)

SetIncipit(r, x, source) == Edit(r, x, "text", source)

set_incipit(r) == \E x \in Records(r), v \in {"manual", "ai"} : SetIncipit(r, x, v)

\* A service is asked between the read and the save.
GenerateAiIncipit(r, x) == Edit(r, x, "text", "ai")

generate_incipit_ai(r) == \E x \in Records(r) : GenerateAiIncipit(r, x)

\* From what is cached for the ISBN.
DeriveIncipit(r, x) == record[x].isbn # NoIsbn /\ Edit(r, x, "text", "derived")

get_incipit(r) == \E x \in Records(r) : record[x].text = "none" /\ DeriveIncipit(r, x)

\* Every column is written as it was read; a record that has been deleted
\* since is inserted again.
Save(r) ==
  LET x == job[r].record
  IN  /\ pc[r] = "saving"
      /\ KeyFree(job[r].row.isbn, x)
      /\ record' = [record EXCEPT ![x] = job[r].row]
      /\ writer' = [writer EXCEPT ![x] = r]
      /\ Ends(r)
      /\ UNCHANGED <<copies, wishes, ratings, before>>

\* Mutant of Unreferenced: only the committed copies are looked at.
UnreferencedSettled(r, x) == FindByRecord(r, x) = {}

\* exists_by_bibliographic_record_id, and ON DELETE RESTRICT: a copy that is
\* not committed holds its record.
Unreferenced(r, x) == \A c \in copies : c.record # x

\* The wishes for it go with it.
DeleteBibliographicRecord(r, x) ==
  /\ Unreferenced(r, x)
  /\ record' = [record EXCEPT ![x] = NoRow]
  /\ wishes' = {w \in wishes : w.record # x}
  /\ writer' = [writer EXCEPT ![x] = r]

delete_record(r) ==
  /\ \E x \in Records(r) : DeleteBibliographicRecord(r, x)
  /\ Once(r)
  /\ UNCHANGED <<copies, ratings>>

----------------------------------------------------------------------------
(* Wishes, ratings, and the end of a copy *)

\* For a record that is there, or for a new one, inserted unseen.
AddToWishlist(r, u, x) ==
  /\ \/ x \in Records(r) /\ UNCHANGED record
     \/ x = <<r, 1>> /\ \E t \in Title, code \in Code : Insert(x, t, code)
  /\ \A w \in wishes : ~(w.user = u /\ w.record = x)
  /\ wishes' = wishes \cup {[name |-> <<r, 1>>, user |-> u, record |-> x]}

add_to_wishlist(r) ==
  /\ \E u \in Member, x \in Name : AddToWishlist(r, u, x)
  /\ Once(r)
  /\ UNCHANGED <<copies, ratings, writer>>

\* By whom it belongs to, or an administrator: by anyone, here.
RemoveFromWishlist(w) == wishes' = wishes \ {w}

remove_from_wishlist(r) ==
  /\ \E w \in wishes : RemoveFromWishlist(w)
  /\ Once(r)
  /\ UNCHANGED <<record, copies, ratings, writer>>

CreateBookRating(r, c, u, n) ==
  /\ \A s \in ratings : ~(s.copy = c.name /\ s.user = u)
  /\ ratings' = ratings \cup {[name |-> <<r, 1>>, copy |-> c.name, user |-> u, stars |-> n]}

create_rating(r) ==
  /\ \E c \in Copies(r), u \in Member, n \in Stars : CreateBookRating(r, c, u, n)
  /\ Once(r)
  /\ UNCHANGED <<record, copies, wishes, writer>>

Ratings(r) == {s \in ratings : Sees(r, s.name)}

UpdateBookRating(s, n) == ratings' = (ratings \ {s}) \cup {[s EXCEPT !.stars = n]}

update_rating(r) ==
  /\ \E s \in Ratings(r), n \in Stars : UpdateBookRating(s, n)
  /\ Once(r)
  /\ UNCHANGED <<record, copies, wishes, writer>>

DeleteBookRating(s) == ratings' = ratings \ {s}

delete_rating(r) ==
  /\ \E s \in Ratings(r) : DeleteBookRating(s)
  /\ Once(r)
  /\ UNCHANGED <<record, copies, wishes, writer>>

\* Mutant of RatingsKept: the rows of the copy stay.
RatingsKeptAll(c) == ratings

RatingsKept(c) == {s \in ratings : s.copy # c.name}

DeleteBook(c) ==
  /\ copies' = copies \ {c}
  /\ ratings' = RatingsKept(c)

delete_book(r) ==
  /\ \E c \in Copies(r) : DeleteBook(c)
  /\ Once(r)
  /\ UNCHANGED <<record, wishes, writer>>

\* The request ends with an error, and its rows are gone.
GiveUp(r) ==
  /\ pc[r] # "done" /\ Ends(r)
  /\ IF pc[r] = "idle" THEN Began(r) ELSE UNCHANGED before
  /\ record' = [x \in Name |-> IF pc[r] = "adding" /\ x[1] = r THEN NoRow ELSE record[x]]
  /\ copies' = {c \in copies : c.name[1] # r}
  /\ ratings' = {s \in ratings : s.name[1] # r}
  /\ UNCHANGED <<wishes, writer>>

----------------------------------------------------------------------------
\* A library as earlier requests left it: nothing, or a record with an ISBN,
\* which may have a copy, at the second place of the shelf, and a wish.
Init ==
  /\ \/ record = [x \in Name |-> NoRow] /\ copies = {} /\ wishes = {}
     \/ \E t \in Title, code \in Code, u \in Member :
          LET x == <<Earlier, 1>> IN
          /\ record = [y \in Name |->
                         IF y = x THEN [title |-> t, isbn |-> code, text |-> "none"] ELSE NoRow]
          /\ copies \in {{}, {[name |-> x, record |-> x, marked |-> FALSE, place |-> 2]}}
          /\ wishes \in {{}, {[name |-> x, user |-> u, record |-> x]}}
  /\ ratings = {}
  /\ pc = [r \in Request |-> "idle"]
  /\ job = [r \in Request |-> NoJob]
  /\ before = [r \in Request |-> {}]
  /\ writer = [x \in Name |-> Earlier]

Step(r) ==
  \/ add_book(r) \/ confirm_shelf_scan(r) \/ confirm_goodreads_import(r)
  \/ AddItem(r) \/ Commit(r)
  \/ create_record(r) \/ update_record(r) \/ set_incipit(r)
  \/ generate_incipit_ai(r) \/ get_incipit(r) \/ Save(r) \/ delete_record(r)
  \/ add_to_wishlist(r) \/ remove_from_wishlist(r)
  \/ create_rating(r) \/ update_rating(r) \/ delete_rating(r)
  \/ delete_book(r)
  \/ GiveUp(r)

Ended == (\A r \in Request : pc[r] = "done") /\ UNCHANGED vars

Next == Ended \/ \E r \in Request : Step(r)

Spec == Init /\ [][Next]_vars

----------------------------------------------------------------------------
(* Properties *)

TypeOK ==
  /\ record \in [Name -> RecordRow \cup {NoRow}]
  /\ copies \subseteq CopyRow /\ wishes \subseteq WishRow /\ ratings \subseteq RatingRow
  /\ pc \in [Request -> {"idle", "adding", "saving", "done"}]
  /\ \A r \in Request : /\ pc[r] = "adding" => job[r] \in Adding
                        /\ pc[r] = "saving" => job[r] \in Saving
                        /\ pc[r] \in {"idle", "done"} => job[r] = NoJob
  /\ before \in [Request -> SUBSET Request]
  /\ writer \in [Name -> From]

(* No ISBN, as it is written, has two records, although requests insert and *)
(* edit records for it at the same time, some without looking for one.      *)
(* (uq_bib_library_isbn, SQLAlchemyBibliographicRecordRepository.save)      *)
OneRecordPerIsbn ==
  \A x, y \in Stored :
    record[x].isbn = record[y].isbn /\ record[x].isbn # NoIsbn => x = y

\* The request that made the one had ended when the request that made the
\* other began, or it is an earlier item of the same request.
Precedes(c, d) ==
  \/ d[1] \in Request /\ c[1] \in before[d[1]] \cup {Earlier}
  \/ c[1] = d[1] /\ c[2] < d[2]

(* A record gets a further copy only when the client says that it wants a   *)
(* duplicate, or when the requests that add the copies overlap; nor does a  *)
(* batch add one book twice.                                                *)
(* (AddBookUseCase._check_for_duplicate, ConfirmShelfScanUseCase.execute)   *)
NoSilentDuplicate ==
  \A c, d \in copies :
    c.record = d.record /\ Precedes(c.name, d.name) => d.marked

(* Books that are scanned later stand behind the books that were there, and *)
(* those of one scan in the order of their spines, unless scans overlap:    *)
(* the place is read once per request. (ConfirmShelfScanUseCase.execute)    *)
ShelfOrder ==
  \A c, d \in copies :
    c.place > 0 /\ d.place > 0 /\ Precedes(c.name, d.name) => c.place < d.place

(* A save changes the column that was asked for, of a record that is there: *)
(* it undoes another request, or brings a record back, only when that one   *)
(* had not ended when this one began.                                       *)
(* (UpdateBibliographicRecordUseCase, GenerateAiIncipitUseCase)             *)
SavesWhatWasAsked ==
  [][\A r \in Request :
       LET x == job[r].record IN
       pc[r] = "saving" /\ writer'[x] = r /\ writer[x] \in before[r] \cup {Earlier} =>
         /\ record[x] # NoRow
         /\ \A col \in Column \ {job[r].column} : record'[x][col] = record[x][col]]_vars

Tables == {"copy", "wish"}

Present == {x \in Stored : Settled(x)}

Shelved == {c \in copies : Settled(c.name)}

Spent == {x \in Name : x[1] = Earlier \/ pc[x[1]] = "done"}

OfRecords == INSTANCE Hanging WITH
  Parent <- Name, Id <- Tables \X Name,
  parents <- Present,
  rows <- {<<c.record, <<"copy", c.name>>>> : c \in Shelved}
            \cup {<<w.record, <<"wish", w.name>>>> : w \in wishes},
  spent <- Tables \X Spent

OfCopies == INSTANCE Hanging WITH
  Parent <- Name, Id <- Name,
  parents <- {c.name : c \in Shelved},
  rows <- {<<s.copy, s.name>> : s \in {t \in ratings : Settled(t.name)}},
  spent <- Spent

(* What is committed keeps the promise of foreign keys, under every         *)
(* interleaving: a copy or a wish has its record for as long as it is there. *)
(* (OwnedBookModel.bibliographic_record_id, WishlistItemModel)              *)
RecordsHold == OfRecords!Spec

(* A rating has its copy, and goes with it. (BookRatingModel.owned_book_id) *)
CopiesHold == OfCopies!Spec

=============================================================================
