------------------------------- MODULE Library -------------------------------
(***************************************************************************)
(* The tables of a library as a whole: the places its copies stand at, and *)
(* the requests that work on all of it: the backup, which reads the tables *)
(* page by page, the restore of a backup, and the wipe, which deletes one  *)
(* table after the other.                                                  *)
(*                                                                         *)
(* Every row has the same shape: what it refers to, its natural key within *)
(* that, and one more column.                                              *)
(***************************************************************************)
EXTENDS Naturals, Sequences, FiniteSets

CONSTANTS
  Index,      \* names of rooms and bookcases, indices of sections and shelves
  Member,     \* users of the library
  Request,    \* requests; each is made at most once, and names its rows
  Earlier,    \* the requests that made the rows that are there at first
  None,       \* null
  Libraries,  \* tables as earlier requests left them
  Backups,    \* files that were written in another library, or in this one
  PageSize,   \* DEFAULT_PAGE_SIZE
  Rank        \* the order of names and indices, and of the times of requests

Parents == {"record", "room", "bookcase", "section", "shelf", "book"}

Place == {"room", "bookcase", "section", "shelf"}

\* Reading paths and family challenges name the library, without a foreign key.
Plans == {"path", "challenge"}

Table == Parents \cup Plans \cup {"read", "loan", "history", "wish", "removed", "cycle"}

From == Request \cup {Earlier}

VARIABLES
  db,      \* the rows of all tables
  file,    \* the backup that each request has written, or is writing
  pc,      \* each request: "idle", "done", or what it is at
  job,     \* what it has read
  image,   \* history: the row that each row of a backup was restored to
  before   \* history: the requests that had ended when it began

vars == <<db, file, pc, job, image, before>>

----------------------------------------------------------------------------
(* The rows *)

NoRefs == [p \in Parents |-> None]

\* data is the ISBN of a record or "none", who reads a copy or "free" or
\* "unknown", whether a loan is "out" or "back", how old a removal is.
Row(table, id, refs, key, data) ==
  [table |-> table, id |-> id, refs |-> refs, key |-> key, data |-> data]

Tag(x) == <<x.table, x.id>>

Ids(D) == {x.id : x \in D}

Of(D, t) == {x \in D : x.table = t}

Has(D, t, id) == \E x \in D : x.table = t /\ x.id = id

\* The references a table has columns for, and those that may not be null.
Columns(t) ==
  CASE t = "bookcase" -> {"room"}
    [] t = "section" -> {"bookcase"}
    [] t = "shelf" -> {"section"}
    [] t = "book" -> {"record"} \cup Place
    [] t \in {"wish", "cycle"} -> {"record"}
    [] t \in {"read", "loan", "history"} -> {"book"}
    [] OTHER -> {}

Needs(t) == IF t = "book" THEN {"record"} ELSE Columns(t)

\* What a row refers to is there. The history of a copy has no foreign key.
Refers(D, x) ==
  x.table = "history" \/ \A p \in Parents : /\ x.refs[p] # None => Has(D, p, x.refs[p])
                                            /\ p \in Needs(x.table) => x.refs[p] # None

Position == {"none", "1"}

\* Requests name their rows; a snapshot is named after its member.
Id == From \X (Nat \cup Member)

Rows ==
  {x \in [table : Table, id : Id, refs : [Parents -> Id \cup {None}],
          key : Index \cup Member \cup From \cup Position,
          data : Index \cup Member \cup {"none", "free", "unknown", "out", "back", "recent", "expired"}] :
     /\ \A p \in Parents : x.refs[p] # None => p \in Columns(x.table)
     /\ x.table \in Place => x.key \in Index
     /\ IF x.table = "removed" THEN x.key \in Member /\ x.id = <<Earlier, x.key>>
        ELSE x.id[2] \in Nat}

Unique(D) == \A x, y \in D : x.id = y.id => x = y

ASSUME EarlierIsNoRequest == Earlier \notin Request
ASSUME MemberIsNoNumber == Member \cap Nat = {}
ASSUME NoneIsNoId == None \notin Id
ASSUME PagesHaveRows == PageSize \in Nat \ {0}
ASSUME RanksAreNumbers == Rank \in [Index \cup From -> Nat]

\* A library keeps its constraints.
ASSUME LibrariesAreSound ==
  \A D \in Libraries :
    /\ D \subseteq Rows /\ IsFiniteSet(D) /\ Unique(D)
    /\ \A x \in D : /\ Refers(D, x) /\ x.id[1] = Earlier
                   /\ \A p \in Parents : x.refs[p] # None => x.refs[p][1] = Earlier

\* A file has no cycles and no plans.
ASSUME BackupsNameRows ==
  \A f \in Backups : f \subseteq Rows /\ \A x \in f : x.table \notin Plans \cup {"cycle"}

\* The unique indexes: not for the names of rooms and bookcases.
Clash(x, y) ==
  /\ x.table = y.table /\ x.id # y.id
  /\ \/ x.table \in {"section", "shelf", "read", "wish"} /\ x.refs = y.refs /\ x.key = y.key
     \/ x.table = "record" /\ x.data = y.data /\ x.data # "none"
     \/ x.table = "loan" /\ x.refs = y.refs /\ x.data = "out" /\ y.data = "out"

\* The rows that wipes have deleted and not committed. Others see them, and
\* wait when they would write them or refer to them.
Held == UNION {job[s].gone : s \in {t \in Request : pc[t] = "wiping"}}

Firm == {x \in db : Tag(x) \notin Held}

\* The tables take these rows.
Takes(new) ==
  /\ \A x \in new : Refers(Firm \cup new, x)
  /\ \A x \in new, y \in db \cup new : ~Clash(x, y)

Insert(new) == Takes(new) /\ db' = db \cup new

----------------------------------------------------------------------------
(* Requests *)

Began(r) == before' = [before EXCEPT ![r] = {s \in Request : pc[s] = "done"}]

NoJob == [kind |-> "none"]

\* Mutant of Ends: the copies that were read are not forgotten.
EndsReading(r) == pc' = [pc EXCEPT ![r] = "done"] /\ UNCHANGED job

Ends(r) ==
  /\ pc' = [pc EXCEPT ![r] = "done"]
  /\ job' = [job EXCEPT ![r] = NoJob]

Once(r) == pc[r] = "idle" /\ Began(r) /\ Ends(r) /\ UNCHANGED <<file, image>>

Starts(r, state, j) ==
  /\ pc[r] = "idle" /\ Began(r)
  /\ pc' = [pc EXCEPT ![r] = state]
  /\ job' = [job EXCEPT ![r] = j]
  /\ UNCHANGED <<db, file, image>>

----------------------------------------------------------------------------
(* Places *)

\* What a row of this table stands in.
In(t) == CASE t = "bookcase" -> "room" [] t = "section" -> "bookcase" [] t = "shelf" -> "section"

PlaceRow(r, t, parent, key) == Row(t, <<r, 1>>, [NoRefs EXCEPT ![In(t)] = parent.id], key, "none")

CreateRoom(r, key) == Insert({Row("room", <<r, 1>>, NoRefs, key, "none")})

create_room(r) == Once(r) /\ \E key \in Index : CreateRoom(r, key)

CreateBookcase(r, room, key) == Insert({PlaceRow(r, "bookcase", room, key)})

create_bookcase(r) ==
  Once(r) /\ \E room \in Of(db, "room"), key \in Index : CreateBookcase(r, room, key)

CreateSection(r, bookcase, key) == Insert({PlaceRow(r, "section", bookcase, key)})

create_section(r) ==
  Once(r) /\ \E bookcase \in Of(db, "bookcase"), key \in Index : CreateSection(r, bookcase, key)

CreateShelf(r, section, key) == Insert({PlaceRow(r, "shelf", section, key)})

create_shelf(r) ==
  Once(r) /\ \E section \in Of(db, "section"), key \in Index : CreateShelf(r, section, key)

\* The row is read, and will be saved with what was edited.
Edit(r, y) == Starts(r, "saving", [kind |-> "save", row |-> y])

\* It is given a key, and stands in this parent.
Placed(x, parent, key) == [x EXCEPT !.key = key, !.refs[In(x.table)] = parent.id]

UpdateRoom(r, x, key) == Edit(r, [x EXCEPT !.key = key])

update_room(r) == \E x \in Of(db, "room"), key \in Index : UpdateRoom(r, x, key)

UpdateBookcase(r, x, room, key) == Edit(r, Placed(x, room, key))

update_bookcase(r) ==
  \E x \in Of(db, "bookcase"), room \in Of(db, "room"), key \in Index : UpdateBookcase(r, x, room, key)

UpdateSection(r, x, bookcase, key) == Edit(r, Placed(x, bookcase, key))

update_section(r) ==
  \E x \in Of(db, "section"), bookcase \in Of(db, "bookcase"), key \in Index :
    UpdateSection(r, x, bookcase, key)

UpdateShelf(r, x, section, key) == Edit(r, Placed(x, section, key))

update_shelf(r) ==
  \E x \in Of(db, "shelf"), section \in Of(db, "section"), key \in Index : UpdateShelf(r, x, section, key)

\* The whole row is written; one that has been deleted since is inserted.
Save(r) ==
  LET x == job[r].row
      rest == {y \in db : y.id # x.id}
  IN  /\ pc[r] = "saving"
      /\ Tag(x) \notin Held
      /\ Refers(rest \cap Firm, x) /\ \A y \in rest : ~Clash(x, y)
      /\ db' = rest \cup {x}
      /\ Ends(r)
      /\ UNCHANGED <<file, image, before>>

\* Copies that stood at this place stand nowhere.
Unplaced(D, x) ==
  {IF y.table = "book" /\ y.refs[x.table] = x.id THEN [y EXCEPT !.refs[x.table] = None] ELSE y : y \in D}

\* The mapper would take what stands in it out of it, which its column
\* does not allow: the request is refused.
Delete(x) ==
  /\ Tag(x) \notin Held
  /\ \A y \in db : y.refs[x.table] = x.id => y.table = "book" /\ Tag(y) \notin Held
  /\ db' = Unplaced(db \ {x}, x)

DeleteRoom(r, x) == Delete(x)

delete_room(r) == Once(r) /\ \E x \in Of(db, "room") : DeleteRoom(r, x)

DeleteBookcase(r, x) == Delete(x)

delete_bookcase(r) == Once(r) /\ \E x \in Of(db, "bookcase") : DeleteBookcase(r, x)

DeleteSection(r, x) == Delete(x)

delete_section(r) == Once(r) /\ \E x \in Of(db, "section") : DeleteSection(r, x)

DeleteShelf(r, x) == Delete(x)

delete_shelf(r) == Once(r) /\ \E x \in Of(db, "shelf") : DeleteShelf(r, x)

----------------------------------------------------------------------------
(* Copies, as far as backups tell them apart *)

Parent(p, x) == CHOOSE y \in db : y.table = p /\ y.id = x.refs[p]

\* A shelf with all that it stands in. Nothing compels a client to name them
\* all, or rightly.
Chain(shelf) ==
  LET section == Parent("section", shelf)
      bookcase == Parent("bookcase", section)
  IN  [NoRefs EXCEPT !["shelf"] = shelf.id, !["section"] = section.id,
                     !["bookcase"] = bookcase.id, !["room"] = bookcase.refs["room"]]

Spots == {NoRefs} \cup {Chain(shelf) : shelf \in Of(Firm, "shelf")}

\* created_at is the time of the request.
Event(r, n, id) == Row("history", <<r, n>>, [NoRefs EXCEPT !["book"] = id], r, "none")

AddBook(r, record, spot, position) ==
  Insert({Row("book", <<r, 1>>, [spot EXCEPT !["record"] = record.id], position, "free"),
          Event(r, 2, <<r, 1>>)})

add_book(r) ==
  Once(r) /\ \E record \in Of(db, "record"), spot \in Spots, position \in Position :
               AddBook(r, record, spot, position)

UpdateBookPosition(r, x, spot, position) ==
  /\ Tag(x) \notin Held
  /\ db' = (db \ {x}) \cup {[x EXCEPT !.refs = [spot EXCEPT !["record"] = x.refs["record"]],
                                      !.key = position],
                            Event(r, 1, x.id)}

update_book_position(r) ==
  Once(r) /\ \E x \in Of(db, "book"), spot \in Spots, position \in Position :
               UpdateBookPosition(r, x, spot, position)

\* Its reads and loans go with it, its history does not.
DeleteBook(r, x) ==
  /\ Tag(x) \notin Held
  /\ db' = {y \in db \ {x} : ~(y.table \in {"read", "loan"} /\ y.refs["book"] = x.id)}
             \cup {Event(r, 1, x.id)}

delete_book(r) == Once(r) /\ \E x \in Of(db, "book") : DeleteBook(r, x)

\* loaned_at is the time of the request. A copy that is out is not lent.
LendBook(r, x) == Insert({Row("loan", <<r, 1>>, [NoRefs EXCEPT !["book"] = x.id], r, "out")})

lend_book(r) == Once(r) /\ \E x \in Of(db, "book") : LendBook(r, x)

\* The snapshot of a member, taken again if it is there.
RecordRemovedMember(u) ==
  /\ <<"removed", <<Earlier, u>>>> \notin Held
  /\ db' = {x \in db : ~(x.table = "removed" /\ x.key = u)}
             \cup {Row("removed", <<Earlier, u>>, NoRefs, u, "recent")}

record_removed_member(r) == Once(r) /\ \E u \in Member : RecordRemovedMember(u)

\* The time for which it may be kept passes.
Expire ==
  /\ \E x \in Of(db, "removed") : x.data = "recent" /\ db' = (db \ {x}) \cup {[x EXCEPT !.data = "expired"]}
  /\ UNCHANGED <<file, pc, job, image, before>>

PurgeExpiredPersonalData ==
  /\ \E x \in Of(db, "removed") : x.data = "expired"
  /\ \A x \in Of(db, "removed") : x.data = "expired" => Tag(x) \notin Held
  /\ db' = {x \in db : ~(x.table = "removed" /\ x.data = "expired")}
  /\ UNCHANGED <<file, pc, job, image, before>>

----------------------------------------------------------------------------
(* Tables that are read in pages *)

Paged == Place \cup {"record", "book"}

\* What such a table is ordered by: a name, an index, or when the row was made.
\* None of them is unique in a library.
OrderedBy(x) == Rank[IF x.table \in Place THEN x.key ELSE x.id[1]]

\* What may come first, n rows of T: a statement puts rows that tie in any order.
Firsts(T, n) ==
  {D \in SUBSET T : /\ Cardinality(D) = IF n < Cardinality(T) THEN n ELSE Cardinality(T)
                    /\ \A x \in D, y \in T \ D : OrderedBy(x) <= OrderedBy(y)}

\* LIMIT PageSize OFFSET offset
Pages(T, offset) ==
  {f[2] \ f[1] : f \in {g \in Firsts(T, offset) \X Firsts(T, offset + PageSize) : g[1] \subseteq g[2]}}

\* Mutant of Last: a page that is full is the last one.
LastIfFull(page) == Cardinality(page) <= PageSize

\* A page that is shorter than others is the last one.
Last(page) == Cardinality(page) < PageSize

----------------------------------------------------------------------------
(* The backup *)

ReadOrder == <<"room", "bookcase", "section", "shelf", "record", "book",
               "read", "loan", "history", "wish", "removed">>

Exported == {ReadOrder[i] : i \in DOMAIN ReadOrder}

export_full_library(r) == Starts(r, "exporting", [kind |-> "export", at |-> 1, offset |-> 0])

\* History is joined to the copies: that of copies that are gone is left.
Joined(t) == {x \in Of(db, t) : t = "history" => Has(db, "book", x.refs["book"])}

\* A statement: a page of a table, or a table that is not paged.
ExportPage(r) ==
  LET at == job[r].at
      t == ReadOrder[at]
  IN  /\ pc[r] = "exporting" /\ at <= Len(ReadOrder)
      /\ \E page \in IF t \in Paged THEN Pages(Joined(t), job[r].offset) ELSE {Joined(t)} :
           /\ file' = [file EXCEPT ![r] = @ \cup page]
           /\ job' = IF t \in Paged /\ ~Last(page)
                     THEN [job EXCEPT ![r].offset = @ + PageSize]
                     ELSE [job EXCEPT ![r].at = at + 1, ![r].offset = 0]
      /\ UNCHANGED <<db, pc, image, before>>

ExportEnds(r) ==
  /\ pc[r] = "exporting" /\ job[r].at > Len(ReadOrder)
  /\ Ends(r)
  /\ UNCHANGED <<db, file, image, before>>

----------------------------------------------------------------------------
(* The restore *)

ImportOrder == <<"record", "room", "bookcase", "section", "shelf", "book",
                 "read", "loan", "history", "wish">>

Imported == {ImportOrder[i] : i \in DOMAIN ImportOrder}

NoMap == [i \in {} |-> None]

\* What a row refers to is in the file. A wish is not looked at.
Valid(f) ==
  \A x \in f : x.table # "wish" =>
    \A p \in Parents : x.refs[p] # None => Has(f, p, x.refs[p])

\* Mutant of Alike: a copy of the record is the copy, wherever it stands.
AlikeByRecord(x, refs, y) ==
  /\ y.table = x.table
  /\ CASE x.table = "record" -> IF x.data # "none" THEN y.data = x.data ELSE y.key = x.key
       [] x.table = "book" -> y.refs["record"] = refs["record"]
       [] OTHER -> y.refs = refs /\ y.key = x.key

\* Mutant of Alike: rooms are inserted as new.
AlikeButRooms(x, refs, y) ==
  /\ y.table = x.table /\ x.table # "room"
  /\ IF x.table = "record" THEN IF x.data # "none" THEN y.data = x.data ELSE y.key = x.key
     ELSE y.refs = refs /\ y.key = x.key

\* The row y of the library is the row x of the file, which refers to refs.
Alike(x, refs, y) ==
  /\ y.table = x.table
  /\ IF x.table = "record" THEN IF x.data # "none" THEN y.data = x.data ELSE y.key = x.key
     ELSE y.refs = refs /\ y.key = x.key

\* Who reads a copy is looked up among the users that were restored before.
Data(x, known) == IF x.table = "book" /\ x.data \in Member \ known THEN "unknown" ELSE x.data

\* What a row of the file refers to, as it has been restored.
Mapped(x, to) == [p \in Parents |-> IF x.refs[p] = None THEN None ELSE to[x.refs[p]]]

\* A wish for a record that is not in the file is left out.
LeftOut(x, to) == x.table = "wish" /\ x.refs["record"] \notin DOMAIN to

\* The rows of the library and of this import that are the row x.
Same(j, x) == {y \in db \cup j.added : Alike(x, Mapped(x, j.to), y)}

Copied(r, j, x) == Row(x.table, <<r, j.next>>, Mapped(x, j.to), x.key, Data(x, j.known))

\* A file, which may have been written by this service for this library.
\* todo are the rows to restore; to says which row each row of the file has
\* become, one that was added or one that was found; flush is the row that is
\* being added. History: seen is what was there whenever it looked.
import_full_library(r) ==
  \E f \in {file[s] : s \in {t \in From : t # r /\ pc[t] = "done"}} \ {{}}, known \in {{}, Member} :
    /\ Valid(f)
    /\ Starts(r, "importing",
              [kind |-> "import", file |-> f, known |-> known, seen |-> db, next |-> 1,
               todo |-> {x \in f : x.table \in Imported}, flush |-> {}, added |-> {}, found |-> {},
               to |-> NoMap])

\* Table by table; the order of the rows of a table is the file's.
Turn(x, todo) ==
  \E i \in DOMAIN ImportOrder :
    /\ x.table = ImportOrder[i]
    /\ \A y \in todo, k \in 1..(i - 1) : y.table # ImportOrder[k]

With(to, i, id) == [k \in DOMAIN to \cup {i} |-> IF k = i THEN id ELSE to[k]]

Restored(j, x, added, found, to) ==
  [kind |-> "import", file |-> j.file, known |-> j.known, seen |-> j.seen \cap db,
   next |-> j.next + 1, todo |-> j.todo \ {x}, flush |-> {}, added |-> added, found |-> found, to |-> to]

Becomes(r, x, added, found, to) ==
  job' = [job EXCEPT ![r] = Restored(job[r], x, added, found, to)]

\* The row is looked for in the library as it is by then, and will be added if
\* none is alike.
Restore(r, x) ==
  LET j == job[r]
  IN  \/ LeftOut(x, j.to) /\ Becomes(r, x, j.added, j.found, j.to)
      \/ /\ ~LeftOut(x, j.to)
         /\ \E y \in Same(j, x) :
              Becomes(r, x, j.added, j.found \cup {y}, With(j.to, x.id, y.id))
      \/ /\ ~LeftOut(x, j.to) /\ Same(j, x) = {}
         /\ job' = [job EXCEPT ![r].flush = {x}, ![r].seen = @ \cap db]

ImportRow(r) ==
  /\ pc[r] = "importing" /\ job[r].flush = {}
  /\ \E x \in job[r].todo : Turn(x, job[r].todo) /\ Restore(r, x)
  /\ UNCHANGED <<db, file, pc, image, before>>

\* The tables take the row, with those that this import has added.
Fits(j, y) ==
  /\ Refers(Firm \cup j.added, y)
  /\ \A z \in db \cup j.added : ~Clash(y, z)

\* Another request has added a record with this ISBN since it was looked for.
LosesRace(y, z) == y.table = "record" /\ Clash(y, z)

\* The row is added. A record that loses the race is not, and save() returns the
\* winner; but the import keeps the identifier of the record it has made.
Flush(r) ==
  LET j == job[r]
  IN  /\ pc[r] = "importing"
      /\ \E x \in j.flush :
           LET y == Copied(r, j, x)
               to == With(j.to, x.id, <<r, j.next>>)
           IN  \/ Fits(j, y) /\ Becomes(r, x, j.added \cup {y}, j.found, to)
               \/ \E z \in Firm : LosesRace(y, z) /\ Becomes(r, x, j.added, j.found \cup {z}, to)
      /\ UNCHANGED <<db, file, pc, image, before>>

\* The rows that were added are seen by others from here on. They are locked
\* from their flush; here another may still take what they need, and then the
\* import is refused, as one is that fails before.
ImportFullLibrary(r) ==
  /\ pc[r] = "importing" /\ job[r].todo = {}
  /\ Insert(job[r].added)
  /\ image' = [image EXCEPT ![r] = job[r].to]
  /\ Ends(r)
  /\ UNCHANGED <<file, before>>

----------------------------------------------------------------------------
(* The wipe *)

\* The copies are listed first, to find their history. gone are the rows that
\* were deleted. History: seen are those that have been there since it began.
delete_account_data(r) ==
  Starts(r, "listing", [kind |-> "wipe", at |-> 1, offset |-> 0, listed |-> {}, gone |-> {},
                        seen |-> {Tag(x) : x \in db}])

Listed(j, page) == [j EXCEPT !.listed = @ \cup Ids(page), !.offset = @ + PageSize]

ListCopies(r) ==
  /\ pc[r] = "listing"
  /\ \E page \in Pages(Of(db, "book"), job[r].offset) :
       /\ job' = [job EXCEPT ![r] = Listed(job[r], page)]
       /\ pc' = [pc EXCEPT ![r] = IF Last(page) THEN "wiping" ELSE "listing"]
  /\ UNCHANGED <<db, file, image, before>>

\* Mutant of WipeOrder: the snapshots of removed members are left.
WipeOrderOfPlaces == <<"history", "book", "record", "bookcase", "room">>

WipeOrder == <<"history", "book", "record", "bookcase", "room", "removed">>

\* What goes with the rows of a table, and what stands against their deletion.
Cascades(t) ==
  CASE t = "book" -> {"read", "loan"}
    [] t = "record" -> {"wish"}
    [] t = "bookcase" -> {"section", "shelf"}
    [] OTHER -> {}

Restricts(t) == CASE t = "record" -> {"book", "cycle"} [] t = "room" -> {"bookcase"} [] OTHER -> {}

\* What the wipe has not deleted.
Left(r) == {x \in db : Tag(x) \notin job[r].gone}

\* What a DELETE finds: all rows of its table and those that go with them; of
\* the history, that of the copies that were listed.
Hit(r, t) ==
  {x \in Left(r) : \/ x.table = t /\ (t = "history" => x.refs["book"] \in job[r].listed)
                   \/ x.table \in Cascades(t)}

\* A statement. It waits for rows that another wipe has deleted.
DeleteLibraryData(r) ==
  LET j == job[r]
      t == WipeOrder[j.at]
  IN  /\ pc[r] = "wiping" /\ j.at <= Len(WipeOrder)
      /\ \A x \in Hit(r, t) : Tag(x) \in Held => Tag(x) \in j.gone
      /\ \A x \in Left(r) : x.table \notin Restricts(t)
      /\ job' = [job EXCEPT ![r] = [j EXCEPT !.at = j.at + 1,
                                            !.gone = j.gone \cup {Tag(x) : x \in Hit(r, t)},
                                            !.seen = j.seen \cap {Tag(x) : x \in db}]]
      /\ UNCHANGED <<db, file, pc, image, before>>

\* Copies that stood at places that are gone stand nowhere.
Displaced(x, gone) ==
  IF x.table = "book"
  THEN [x EXCEPT !.refs = [p \in Parents |-> IF <<p, x.refs[p]>> \in gone THEN None ELSE x.refs[p]]]
  ELSE x

\* The commit.
WipeEnds(r) ==
  /\ pc[r] = "wiping" /\ job[r].at > Len(WipeOrder)
  /\ db' = {Displaced(x, job[r].gone) : x \in Left(r)}
  /\ Ends(r)
  /\ UNCHANGED <<file, image, before>>

\* A request is refused, and nothing of it is kept.
GiveUp(r) ==
  /\ pc[r] # "done"
  /\ IF pc[r] = "idle" THEN Began(r) ELSE UNCHANGED before
  /\ Ends(r)
  /\ file' = [file EXCEPT ![r] = {}]
  /\ UNCHANGED <<db, image>>

----------------------------------------------------------------------------
Init ==
  /\ db \in Libraries
  /\ \E f \in Backups : file = [s \in From |-> IF s = Earlier THEN f ELSE {}]
  /\ pc = [s \in From |-> IF s = Earlier THEN "done" ELSE "idle"]
  /\ job = [r \in Request |-> NoJob]
  /\ image = [r \in Request |-> NoMap]
  /\ before = [r \in Request |-> {}]

Step(r) ==
  \/ create_room(r) \/ create_bookcase(r) \/ create_section(r) \/ create_shelf(r)
  \/ update_room(r) \/ update_bookcase(r) \/ update_section(r) \/ update_shelf(r) \/ Save(r)
  \/ delete_room(r) \/ delete_bookcase(r) \/ delete_section(r) \/ delete_shelf(r)
  \/ add_book(r) \/ update_book_position(r) \/ delete_book(r) \/ lend_book(r)
  \/ record_removed_member(r)
  \/ export_full_library(r) \/ ExportPage(r) \/ ExportEnds(r)
  \/ import_full_library(r) \/ ImportRow(r) \/ Flush(r) \/ ImportFullLibrary(r)
  \/ delete_account_data(r) \/ ListCopies(r) \/ DeleteLibraryData(r) \/ WipeEnds(r)
  \/ GiveUp(r)

Ended == (\A r \in Request : pc[r] = "done") /\ UNCHANGED vars

Next == Expire \/ PurgeExpiredPersonalData \/ Ended \/ \E r \in Request : Step(r)

Spec == Init /\ [][Next]_vars

----------------------------------------------------------------------------
(* Properties *)

TypeOK ==
  /\ db \subseteq Rows
  /\ \A s \in From : file[s] \subseteq Rows
  /\ \A r \in Request :
       CASE pc[r] = "saving" -> job[r].row \in Rows
         [] pc[r] = "exporting" -> job[r].at \in 1..(Len(ReadOrder) + 1)
         [] pc[r] = "importing" -> job[r].file \cup job[r].added \subseteq Rows
         [] pc[r] \in {"listing", "wiping"} ->
              /\ job[r].at \in 1..(Len(WipeOrder) + 1)
              /\ job[r].listed \subseteq Id /\ job[r].gone \subseteq Table \X Id
         [] pc[r] \in {"idle", "done"} -> job[r] = NoJob
  /\ before \in [Request -> SUBSET Request]

Overlap(r, s) == r # s /\ pc[s] # "idle" /\ s \notin before[r] /\ r \notin before[s]

Alone(r) == \A s \in Request : ~Overlap(r, s)

\* The pages of a table do not cut it: it fits into one, or no two rows tie.
Ordered(T) ==
  \/ Cardinality(T) <= PageSize
  \/ \A x, y \in T : OrderedBy(x) = OrderedBy(y) => x = y

(* A backup that no other request overlaps has every row of the tables it   *)
(* reads, the history of copies that are gone left out, if no table is      *)
(* longer than a page and has rows that tie: a page boundary among them may *)
(* skip one. So it can be restored, since nothing in it refers to what it   *)
(* has left out. The snapshots of removed members age meanwhile.            *)
(* (ExportFullLibraryUseCase.execute, fetch_all_pages)                      *)
BackupIsWhole ==
  \A r \in Request :
    pc[r] = "exporting" /\ job[r].at > Len(ReadOrder) /\ Alone(r)
      /\ (\A t \in Paged : Ordered(Of(db, t))) =>
      /\ Valid(file[r])
      /\ \A x \in db \ file[r] :
           \/ x.table \in Plans \cup {"removed", "cycle"}
           \/ x.table = "history" /\ ~Has(db, "book", x.refs["book"])

(* Importing again what the library has does not pile it up: no place, read,*)
(* loan, event or wish is inserted when the library had one with its key    *)
(* whenever the import looked; nor a copy in the slot of another.           *)
(* (ImportFullLibraryUseCase, "In every dedup case the existing row wins")  *)
NoPileUp ==
  [][\A r \in Request :
       image'[r] # image[r] =>
         \A y \in db' \ db : \A x \in job[r].seen :
           ~(x.table = y.table /\ x.table # "record" /\ x.refs = y.refs /\ x.key = y.key)]_vars

\* The row x of a backup has become y.
Became(to, x, y) ==
  /\ y.table = x.table /\ y.id = to[x.id]
  /\ IF x.table = "record" THEN IF x.data # "none" THEN y.data = x.data ELSE y.key = x.key
     ELSE /\ y.key = x.key
          /\ \A p \in Parents : x.refs[p] # None => y.refs[p] = to[x.refs[p]]

\* A record of the backup that lost the race for its ISBN has become nothing;
\* the winner was found, and nothing in the backup may refer to the record.
Lost(j, to, x, D) ==
  /\ x.table = "record" /\ x.data # "none"
  /\ ~Has(D, "record", to[x.id])
  /\ \E y \in j.found : y.table = "record" /\ y.data = x.data
  /\ \A z \in j.file : z.refs["record"] # x.id

(* What an import restores of a backup is what the backup says: each of its *)
(* rows is a row of the library, or was one when the import looked, with    *)
(* its key, and refers to what the rows that it referred to have become;    *)
(* only wishes for records that the backup has not are left out, and        *)
(* records that lost the race for their ISBN. Nothing else is added. Two    *)
(* copies of the backup become one new copy, or one that the library has    *)
(* and nobody moves meanwhile, only if they are in the same place, or both  *)
(* in none.                                                                 *)
(* (ImportFullLibraryUseCase.execute, BibliographicRecordRepository.save)   *)
RestoredWhole ==
  [][\A r \in Request :
       image'[r] # image[r] /\ Unique(job[r].file) =>
         /\ \A x \in job[r].file :
              \/ x.table = "removed"
              \/ x.table = "wish" /\ ~Has(job[r].file, "record", x.refs["record"])
              \/ \E y \in db' \cup job[r].found : Became(image'[r], x, y)
              \/ Lost(job[r], image'[r], x, db')
         /\ \A y \in db' \ db : \E x \in job[r].file : Became(image'[r], x, y)
         /\ \A x, y \in Of(job[r].file, "book") :
              /\ image'[r][x.id] = image'[r][y.id]
              /\ Alone(r) \/ Has(job[r].added, "book", image'[r][x.id])
              => x.key = y.key /\ Mapped(x, image'[r]) = Mapped(y, image'[r])]_vars

(* A wipe leaves none of the rows that were there when it began, but reading*)
(* paths, family challenges, and history. The history it leaves, if no other*)
(* request overlaps it and no page boundary cuts the copies, is that of     *)
(* copies that were gone when it began. (DeleteLibraryDataUseCase.execute)  *)
WipeLeavesNothing ==
  [][\A r \in Request :
       pc[r] = "wiping" /\ db' # db /\ pc'[r] = "done" =>
         \A x \in db' :
           /\ Tag(x) \in job[r].seen => x.table \in Plans \cup {"history"}
           /\ x.table = "history" /\ Alone(r) /\ Ordered(Of(db, "book")) =>
                ~Has(db, "book", x.refs["book"])]_vars

=============================================================================
