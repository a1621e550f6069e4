-------------------------- MODULE Catalogue_proofs --------------------------
(***************************************************************************)
(* Theorems about Catalogue, for any members, titles, ISBNs, items and     *)
(* requests.                                                               *)
(*                                                                         *)
(* A request may add its rows over many steps, so the inductive invariant  *)
(* says whose rows there can be: of requests that have ended, and of those *)
(* that are adding, whose items are numbered. A row refers to one of its   *)
(* own request, or to one that is there to stay until it is deleted. Who   *)
(* saves a record has read it as it is, unless somebody who overlaps has   *)
(* written it; and the places a scan gives lie behind those it has seen.   *)
(***************************************************************************)
EXTENDS Catalogue, WellFoundedInduction, TLAPS

Done == {r \in Request : pc[r] = "done"}

Past == Done \cup {Earlier}

Adds(r) == r \in Request /\ pc[r] = "adding"

\* A row of this name may be there.
Home(x) == x[1] \in Past \/ Adds(x[1])

Homes ==
  /\ \A x \in Stored : Home(x)
  /\ \A c \in copies : Home(c.name)
  /\ \A s \in ratings : Home(s.name)
  /\ \A w \in wishes : w.name[1] \in Past
  /\ \A r \in Request, c \in copies : c.name[1] = r /\ Adds(r) => c.name[2] < job[r].at

\* A row refers to one of its own request, or of one that has ended.
Refs ==
  /\ \A c \in copies : c.record \in Stored /\ c.record[1] \in Past \cup {c.name[1]}
  /\ \A w \in wishes : w.record \in Stored /\ w.record[1] \in Past
  /\ \A s \in ratings : /\ s.copy[1] \in Past \cup {s.name[1]}
                        /\ \E c \in copies : c.name = s.copy

NamesDiffer == \A c, d \in copies : c.name = d.name => c = d

BegunAfter == \A r \in Request : before[r] \subseteq Done

\* Who has written a record since it was read overlaps who saves it.
Fresh(r) ==
  pc[r] = "saving" =>
    LET x == job[r].record IN
    /\ x[1] \in Past
    /\ writer[x] \in before[r] \cup {Earlier} =>
         /\ x \in Stored
         /\ \A col \in Column \ {job[r].column} : record[x][col] = job[r].row[col]

ReadFresh == \A r \in Request : Fresh(r)

\* The copies there were when a request began, and its own.
Ahead(r) == {c \in copies : c.place > 0 /\ c.name[1] \in before[r] \cup {Earlier, r}}

PlaceBehind(r) ==
  Adds(r) => IF job[r].kind = "scan" THEN \A c \in Ahead(r) : c.place < job[r].place
             ELSE job[r].place = 0

PlacesBehind == \A r \in Request : PlaceBehind(r)

PlacesBounded == \E n \in Nat : \A c \in copies : c.place <= n

JobsOK ==
  /\ job \in [Request -> Adding \cup Saving \cup {NoJob}]
  /\ \A r \in Request : Adds(r) => Len(job[r].items) <= 2

CatInv ==
  /\ TypeOK /\ JobsOK
  /\ Homes /\ Refs /\ NamesDiffer
  /\ BegunAfter /\ ReadFresh
  /\ PlacesBehind /\ PlacesBounded
  /\ OneRecordPerIsbn
  /\ NoSilentDuplicate
  /\ ShelfOrder

----------------------------------------------------------------------------
(* Requests *)

ReqTypes ==
  /\ pc \in [Request -> {"idle", "adding", "saving", "done"}]
  /\ \A r \in Request : /\ pc[r] = "adding" => job[r] \in Adding
                        /\ pc[r] = "saving" => job[r] \in Saving
                        /\ pc[r] \in {"idle", "done"} => job[r] = NoJob
  /\ before \in [Request -> SUBSET Request]
  /\ JobsOK

TableTypes ==
  /\ record \in [Name -> RecordRow \cup {NoRow}]
  /\ copies \subseteq CopyRow /\ wishes \subseteq WishRow /\ ratings \subseteq RatingRow
  /\ writer \in [Name -> From]

LEMMA InvTypes == CatInv => ReqTypes /\ TableTypes
BY DEF CatInv, TypeOK, ReqTypes, TableTypes

\* What every step of a request does to the requests: it was not done, the
\* others stay as they were, and what was past is past.
Moved(r) ==
  /\ pc[r] # "done" /\ r \notin Past
  /\ \A s \in Request \ {r} : /\ pc'[s] = pc[s] /\ job'[s] = job[s]
                              /\ before'[s] = before[s]
  /\ Done \subseteq Done' /\ Past \subseteq Past'
  /\ ReqTypes' /\ BegunAfter'

\* It has ended.
Finishes(r) == Moved(r) /\ pc'[r] = "done" /\ r \in Past'

LEMMA OnceMoves ==
  ASSUME CatInv, NEW r \in Request, Once(r)
  PROVE  Finishes(r) /\ pc[r] = "idle"
BY EarlierIsEarlier
   DEF CatInv, TypeOK, JobsOK, ReqTypes, BegunAfter, Once, Began, Ends, Moved, Finishes,
       Done, Past, Adds

LEMMA EndsMoves ==
  ASSUME CatInv, NEW r \in Request, pc[r] # "done", Ends(r), before' = before \/ Began(r)
  PROVE  Finishes(r)
BY EarlierIsEarlier
   DEF CatInv, TypeOK, JobsOK, ReqTypes, BegunAfter, Began, Ends, Moved, Finishes, Done,
       Past, Adds

LEMMA StartsMoves ==
  ASSUME CatInv, NEW r \in Request, NEW j, NEW state,
         Starts(r, state, j),
         \/ state = "adding" /\ j \in Adding /\ Len(j.items) <= 2
         \/ state = "saving" /\ j \in Saving
  PROVE  /\ Moved(r) /\ pc[r] = "idle" /\ pc'[r] = state /\ job'[r] = j
         /\ before'[r] = Done /\ Done' = Done /\ Past' = Past
         /\ UNCHANGED <<record, copies, wishes, ratings, writer>>
BY EarlierIsEarlier
   DEF CatInv, TypeOK, JobsOK, ReqTypes, BegunAfter, Starts, Began, Moved, Done, Past, Adds

LEMMA EarlierIsPast == Earlier \in Past
BY DEF Past

\* Nothing is named after a request that has not begun.
LEMMA IdleHasNothing ==
  ASSUME CatInv, NEW r \in Request, pc[r] \in {"idle", "saving"}
  PROVE  /\ \A x \in Stored : x[1] # r
         /\ \A c \in copies : c.name[1] # r
         /\ \A s \in ratings : s.name[1] # r
         /\ \A w \in wishes : w.name[1] # r
BY EarlierIsEarlier DEF CatInv, Homes, Home, Past, Done, Adds

\* What a request that is not adding sees is there to stay.
LEMMA SeenIsPast ==
  ASSUME CatInv, NEW r \in Request, NEW x, Sees(r, x), Home(x), pc[r] = "idle", x[1] # r
  PROVE  x[1] \in Past
BY EarlierIsEarlier DEF Sees, Settled, Home, Adds, Past

----------------------------------------------------------------------------
(* What the others are promised *)

\* A step of a request leaves the records of others, or has written them.
Apart(r) ==
  \A x \in Name : x[1] \in Past =>
    \/ writer'[x] = r
    \/ writer'[x] = writer[x] /\ (x \in Stored => x \in Stored' /\ record'[x] = record[x])

LEMMA FreshKeeps ==
  ASSUME CatInv, NEW r \in Request, Moved(r), Apart(r), NEW s \in Request \ {r}
  PROVE  Fresh(s)'
<1> SUFFICES ASSUME pc[s] = "saving" PROVE Fresh(s)'
  BY DEF Moved, Fresh
<1> DEFINE x == job[s].record
<1>1. pc'[s] = "saving" /\ job'[s] = job[s] /\ before'[s] = before[s]
  BY DEF Moved
<1>2. x \in Name /\ x[1] \in Past /\ x[1] \in Past'
  BY DEF CatInv, TypeOK, Saving, ReadFresh, Fresh, Moved
<1>3. r \notin before[s] \cup {Earlier}
  BY DEF Moved, CatInv, BegunAfter, Past
<1>4. CASE writer'[x] = r
  BY <1>1, <1>2, <1>3, <1>4 DEF Fresh
<1>5. CASE writer'[x] = writer[x] /\ (x \in Stored => x \in Stored' /\ record'[x] = record[x])
  BY <1>1, <1>2, <1>5 DEF Fresh, CatInv, ReadFresh
<1> QED
  BY <1>2, <1>4, <1>5 DEF Apart

LEMMA BehindKeeps ==
  ASSUME CatInv, NEW r \in Request, Moved(r), NEW s \in Request \ {r},
         \A c \in copies' : c \in copies \/ c.name[1] = r
  PROVE  PlaceBehind(s)'
<1>1. pc'[s] = pc[s] /\ job'[s] = job[s] /\ before'[s] = before[s]
  BY DEF Moved
<1>2. r \notin before[s] \cup {Earlier, s}
  BY DEF Moved, CatInv, BegunAfter, Past
<1>3. Ahead(s)' \subseteq Ahead(s)
  BY <1>1, <1>2 DEF Ahead
<1> QED
  BY <1>1, <1>3 DEF CatInv, PlacesBehind, PlaceBehind, Adds

\* Copies that stay among themselves.
LEMMA CopiesKeep ==
  ASSUME CatInv, NEW r \in Request, Moved(r), copies' \subseteq copies,
         before' = before \/ pc[r] = "idle"
  PROVE  NamesDiffer' /\ NoSilentDuplicate' /\ ShelfOrder' /\ PlacesBounded'
<1>1. ASSUME NEW c \in copies', NEW d \in copies', Precedes(c.name, d.name)'
      PROVE  Precedes(c.name, d.name)
  <2>1. d.name[1] \in Request => before'[d.name[1]] = before[d.name[1]]
    BY IdleHasNothing DEF Moved
  <2> QED
    BY <1>1, <2>1 DEF Precedes
<1>2. NamesDiffer' /\ PlacesBounded'
  BY DEF CatInv, NamesDiffer, PlacesBounded
<1>3. NoSilentDuplicate' /\ ShelfOrder'
  BY <1>1 DEF CatInv, NoSilentDuplicate, ShelfOrder
<1> QED
  BY <1>2, <1>3

\* Rows that are added here belong to a request that ends.
LEMMA HomesKeep ==
  ASSUME CatInv, NEW r \in Request, Moved(r), r \in Past' \/ pc[r] = "idle",
         \A x \in Stored' : x \in Stored \/ x[1] \in Past',
         copies' \subseteq copies,
         \A s \in ratings' : s.name[1] \in Past' \/ \E q \in ratings : q.name = s.name,
         \A w \in wishes' : w \in wishes \/ w.name[1] \in Past'
  PROVE  Homes'
<1>1. ASSUME NEW x, Home(x), x[1] # r \/ r \in Past' PROVE Home(x)'
  BY <1>1 DEF Home, Adds, Moved
<1>2. \A x \in Stored' : Home(x)'
  BY <1>1, IdleHasNothing DEF CatInv, Homes, Home
<1>3. \A c \in copies' : Home(c.name)'
  BY <1>1, IdleHasNothing DEF CatInv, Homes
<1>4. \A s \in ratings' : Home(s.name)'
  <2> SUFFICES ASSUME NEW s \in ratings', NEW q \in ratings, q.name = s.name
               PROVE  Home(s.name)'
    BY DEF Home
  <2> QED
    BY <1>1, IdleHasNothing DEF CatInv, Homes
<1>5. \A w \in wishes' : w.name[1] \in Past'
  BY DEF CatInv, Homes, Moved
<1>6. ASSUME NEW s \in Request, NEW c \in copies', c.name[1] = s, Adds(s)'
      PROVE  c.name[2] < job'[s].at
  <2>1. s # r
    BY <1>6, IdleHasNothing, EarlierIsEarlier DEF Past, Done, Adds
  <2> QED
    BY <1>6, <2>1 DEF Moved, Adds, CatInv, Homes
<1> QED
  BY <1>2, <1>3, <1>4, <1>5, <1>6 DEF Homes

\* A step that ends a request.
LEMMA FinishKeeps ==
  ASSUME CatInv, NEW r \in Request, Finishes(r), TableTypes', copies' \subseteq copies,
         before' = before \/ pc[r] = "idle", Apart(r),
         Homes', Refs', OneRecordPerIsbn'
  PROVE  CatInv'
<1>1. ReadFresh'
  BY FreshKeeps DEF Finishes, ReadFresh, Fresh
<1>2. PlacesBehind'
  BY BehindKeeps DEF Finishes, PlacesBehind, PlaceBehind, Adds
<1>3. TypeOK' /\ JobsOK' /\ BegunAfter'
  BY DEF Finishes, Moved, ReqTypes, TableTypes, TypeOK
<1> QED
  BY <1>1, <1>2, <1>3, CopiesKeep DEF Finishes, CatInv

\* A step that begins a request, and only reads.
LEMMA StartKeeps ==
  ASSUME CatInv, NEW r \in Request, Moved(r), pc[r] = "idle", Past' = Past,
         UNCHANGED <<record, copies, wishes, ratings, writer>>,
         Fresh(r)', PlaceBehind(r)'
  PROVE  CatInv'
<1>1. Stored' = Stored
  BY DEF Stored
<1>2. ReadFresh' /\ PlacesBehind'
  BY <1>1, FreshKeeps, BehindKeeps DEF ReadFresh, PlacesBehind, Apart
<1>3. TypeOK' /\ JobsOK' /\ BegunAfter'
  BY InvTypes DEF Moved, ReqTypes, TableTypes, TypeOK
<1>4. Homes'
  BY <1>1, HomesKeep
<1>5. Refs' /\ OneRecordPerIsbn'
  BY <1>1 DEF CatInv, Refs, OneRecordPerIsbn
<1> QED
  BY <1>2, <1>3, <1>4, <1>5, CopiesKeep DEF CatInv

----------------------------------------------------------------------------
(* Records *)

\* Rows that are kept refer to what they referred to.
LEMMA RefsKeep ==
  ASSUME CatInv, NEW r \in Request, Finishes(r), copies' = copies, ratings' = ratings,
         \A w \in wishes' : w \in wishes \/ (w.record \in Stored' /\ w.record[1] \in Past'),
         \A c \in copies : c.record \in Stored', \A w \in wishes' \cap wishes : w.record \in Stored'
  PROVE  Refs'
BY DEF CatInv, Refs, Finishes, Moved

LEMMA InsertStores ==
  ASSUME CatInv, NEW x \in Name, NEW title \in Title, NEW code \in Code,
         Insert(x, title, code)
  PROVE  /\ record' \in [Name -> RecordRow \cup {NoRow}]
         /\ x \notin Stored /\ Stored' = Stored \cup {x}
         /\ \A y \in Name \ {x} : record'[y] = record[y]
         /\ OneRecordPerIsbn'
<1> DEFINE row == [title |-> title, isbn |-> code, text |-> "none"]
<1>1. row \in RecordRow /\ row # NoRow /\ row.isbn = code
  BY NoRowIsNoRow DEF RecordRow, Text
<1>2. record \in [Name -> RecordRow \cup {NoRow}] /\ record' = [record EXCEPT ![x] = row]
  BY DEF CatInv, TypeOK, Insert
<1> HIDE DEF row
<1>3. /\ record' \in [Name -> RecordRow \cup {NoRow}] /\ record'[x] = row
      /\ \A y \in Name \ {x} : record'[y] = record[y]
  BY <1>1, <1>2
<1>4. x \notin Stored /\ Stored' = Stored \cup {x}
  BY <1>1, <1>3 DEF Stored, Insert
<1>5. OneRecordPerIsbn'
  <2> SUFFICES ASSUME NEW y \in Stored', NEW z \in Stored',
                      record'[y].isbn = record'[z].isbn, record'[y].isbn # NoIsbn
               PROVE  y = z
    BY DEF OneRecordPerIsbn
  <2>1. \A u \in Stored : u # x /\ record'[u] = record[u]
    BY <1>3, <1>4 DEF Stored
  <2>2. code # NoIsbn => \A u \in Stored : record[u].isbn # code
    BY <1>4 DEF Insert, KeyFree
  <2>3. CASE y \in Stored /\ z \in Stored
    BY <2>1, <2>3 DEF CatInv, OneRecordPerIsbn
  <2> QED
    BY <1>1, <1>3, <1>4, <2>1, <2>2, <2>3
<1> QED
  BY <1>3, <1>4, <1>5

\* Records are as they were, but for one that the request has added.
Grown(r) ==
  /\ record' \in [Name -> RecordRow \cup {NoRow}] /\ OneRecordPerIsbn'
  /\ Stored \subseteq Stored' /\ \A y \in Stored' : y \in Stored \/ y[1] = r
  /\ \A y \in Stored : record'[y] = record[y]

LEMMA SameGrown ==
  ASSUME CatInv, NEW r, UNCHANGED record
  PROVE  Grown(r) /\ Stored' = Stored
BY DEF CatInv, TypeOK, OneRecordPerIsbn, Stored, Grown

LEMMA InsertGrown ==
  ASSUME CatInv, NEW x \in Name, NEW title \in Title, NEW code \in Code,
         Insert(x, title, code)
  PROVE  Grown(x[1]) /\ x \in Stored'
BY InsertStores DEF Grown, Stored

LEMMA CreateRecordKeeps ==
  ASSUME CatInv, NEW r \in Request, create_record(r)
  PROVE  CatInv'
<1>1. PICK t \in Title, code \in Code :
        /\ Once(r) /\ CreateBibliographicRecord(r, t, code)
        /\ UNCHANGED <<copies, wishes, ratings, writer>>
  BY DEF create_record
<1>2. Finishes(r) /\ pc[r] = "idle" /\ Moved(r)
  BY <1>1, OnceMoves DEF Finishes
<1> DEFINE x == <<r, 1>>
<1>3. x \in Name /\ x[1] = r
  BY DEF Name, From, Number
<1> HIDE DEF x
<1>4. Grown(r)
  BY <1>1, <1>3, SameGrown, InsertGrown DEF CreateBibliographicRecord, x
<1>5. TableTypes' /\ Apart(r) /\ OneRecordPerIsbn'
  BY <1>1, <1>4, InvTypes DEF TableTypes, Apart, Grown
<1>6. Homes'
  BY <1>1, <1>2, <1>4, HomesKeep DEF Finishes, Grown
<1>7. Refs'
  BY <1>1, <1>2, <1>4, RefsKeep DEF CatInv, Refs, Grown
<1> QED
  BY <1>1, <1>2, <1>5, <1>6, <1>7, FinishKeeps

\* What is edited is read, and it is there to stay.
LEMMA EditKeeps ==
  ASSUME CatInv, NEW r \in Request, NEW x \in Name, NEW column \in Column, NEW v,
         Edited(record[x], column, v) \in RecordRow, Edit(r, x, column, v)
  PROVE  CatInv'
<1> DEFINE j == [kind |-> "save", record |-> x, column |-> column,
                 row |-> Edited(record[x], column, v)]
<1>1. x \in Stored /\ Sees(r, x) /\ Starts(r, "saving", j) /\ pc[r] = "idle"
  BY DEF Edit, Records, Starts
<1>2. j \in Saving
  BY DEF Saving
<1>3. /\ Moved(r) /\ pc'[r] = "saving" /\ job'[r] = j /\ Past' = Past
      /\ UNCHANGED <<record, copies, wishes, ratings, writer>>
  BY <1>1, <1>2, StartsMoves
<1>4. x[1] \in Past
  BY <1>1, IdleHasNothing, SeenIsPast DEF CatInv, Homes
<1>5. record[x] \in RecordRow
  BY <1>1 DEF CatInv, TypeOK, Stored
<1>6. \A col \in Column \ {column} : record[x][col] = Edited(record[x], column, v)[col]
  BY <1>5 DEF Edited, RecordRow, Column
<1>7. Fresh(r)'
  BY <1>1, <1>3, <1>4, <1>6 DEF Fresh, Stored
<1>8. PlaceBehind(r)'
  BY <1>3 DEF PlaceBehind, Adds
<1> QED
  BY <1>1, <1>3, <1>7, <1>8, StartKeeps

LEMMA EditsKeep ==
  ASSUME CatInv, NEW r \in Request,
         \/ update_record(r) \/ set_incipit(r) \/ generate_incipit_ai(r) \/ get_incipit(r)
  PROVE  CatInv'
<1>1. ASSUME NEW x \in Records(r) PROVE x \in Name /\ record[x] \in RecordRow
  BY DEF Records, Stored, CatInv, TypeOK
<1>2. ASSUME NEW x \in Records(r), NEW t \in Title, Edit(r, x, "title", t) PROVE CatInv'
  <2>1. Edited(record[x], "title", t) \in RecordRow
    BY <1>1 DEF Edited, RecordRow
  <2> QED
    BY <1>1, <1>2, <2>1, EditKeeps DEF Column
<1>3. ASSUME NEW x \in Records(r), NEW c \in Written, Edit(r, x, "isbn", c) PROVE CatInv'
  <2>1. Edited(record[x], "isbn", c) \in RecordRow
    BY <1>1 DEF Edited, RecordRow, Code
  <2> QED
    BY <1>1, <1>3, <2>1, EditKeeps DEF Column
<1>4. ASSUME NEW x \in Records(r), NEW v \in Text, Edit(r, x, "text", v) PROVE CatInv'
  <2>1. Edited(record[x], "text", v) \in RecordRow
    BY <1>1 DEF Edited, RecordRow
  <2> QED
    BY <1>1, <1>4, <2>1, EditKeeps DEF Column
<1> QED
  BY <1>2, <1>3, <1>4
     DEF update_record, UpdateBibliographicRecord, set_incipit, SetIncipit,
         generate_incipit_ai, GenerateAiIncipit, get_incipit, DeriveIncipit, Text

LEMMA SaveKeeps ==
  ASSUME CatInv, NEW r \in Request, Save(r)
  PROVE  CatInv'
<1> DEFINE x == job[r].record
           row == job[r].row
<1>1. /\ pc[r] = "saving" /\ KeyFree(row.isbn, x) /\ Ends(r)
      /\ record' = [record EXCEPT ![x] = row] /\ writer' = [writer EXCEPT ![x] = r]
      /\ UNCHANGED <<copies, wishes, ratings, before>>
  BY DEF Save
<1>2. x \in Name /\ row \in RecordRow /\ row # NoRow /\ x[1] \in Past
  BY <1>1, NoRowIsNoRow DEF CatInv, TypeOK, Saving, ReadFresh, Fresh, RecordRow, Text
<1>3. Finishes(r) /\ Moved(r)
  BY <1>1, EndsMoves DEF Finishes
<1> HIDE DEF x, row
<1>4. /\ record' \in [Name -> RecordRow \cup {NoRow}] /\ record'[x] = row
      /\ \A y \in Name \ {x} : record'[y] = record[y]
      /\ Stored' = Stored \cup {x}
  BY <1>1, <1>2 DEF CatInv, TypeOK, Stored
<1>5. writer' \in [Name -> From] /\ writer'[x] = r /\ \A y \in Name \ {x} : writer'[y] = writer[y]
  BY <1>1, <1>2 DEF CatInv, TypeOK, From
<1>6. TableTypes'
  BY <1>1, <1>4, <1>5, InvTypes DEF TableTypes
<1>7. OneRecordPerIsbn'
  <2> SUFFICES ASSUME NEW y \in Stored', NEW z \in Stored',
                      record'[y].isbn = record'[z].isbn, record'[y].isbn # NoIsbn
               PROVE  y = z
    BY DEF OneRecordPerIsbn
  <2>1. \A u \in Stored \ {x} : record'[u] = record[u]
    BY <1>4 DEF Stored
  <2>2. row.isbn # NoIsbn => \A u \in Stored \ {x} : record[u].isbn # row.isbn
    BY <1>1 DEF KeyFree
  <2>3. CASE y # x /\ z # x
    BY <1>4, <2>1, <2>3 DEF CatInv, OneRecordPerIsbn
  <2> QED
    BY <1>4, <2>1, <2>2, <2>3
<1>8. Apart(r)
  BY <1>4, <1>5 DEF Apart, Stored
<1>9. Homes'
  BY <1>1, <1>2, <1>3, <1>4, HomesKeep DEF Finishes, Moved
<1>10. Refs'
  BY <1>1, <1>3, <1>4, RefsKeep DEF CatInv, Refs
<1> QED
  BY <1>1, <1>3, <1>6, <1>7, <1>8, <1>9, <1>10, FinishKeeps

LEMMA DeleteRecordKeeps ==
  ASSUME CatInv, NEW r \in Request, delete_record(r)
  PROVE  CatInv'
<1>1. PICK x \in Records(r) : DeleteBibliographicRecord(r, x)
  BY DEF delete_record
<1>2. Once(r) /\ UNCHANGED <<copies, ratings>>
  BY DEF delete_record
<1>3. Finishes(r) /\ Moved(r) /\ pc[r] = "idle"
  BY <1>2, OnceMoves DEF Finishes
<1>4. x \in Name /\ \A c \in copies : c.record # x
  BY <1>1 DEF Records, Stored, DeleteBibliographicRecord, Unreferenced
<1>5. /\ record' \in [Name -> RecordRow \cup {NoRow}]
      /\ \A y \in Name \ {x} : record'[y] = record[y]
      /\ Stored' = Stored \ {x}
  BY <1>1, <1>4 DEF CatInv, TypeOK, Stored, DeleteBibliographicRecord
<1>6. writer' \in [Name -> From] /\ writer'[x] = r /\ \A y \in Name \ {x} : writer'[y] = writer[y]
  BY <1>1, <1>4 DEF CatInv, TypeOK, From, DeleteBibliographicRecord
<1>7. wishes' \subseteq wishes /\ \A w \in wishes' : w.record # x
  BY <1>1 DEF DeleteBibliographicRecord
<1>8. TableTypes' /\ OneRecordPerIsbn'
  <2>1. \A u \in Stored' : u \in Stored /\ record'[u] = record[u]
    BY <1>5 DEF Stored
  <2> QED
    BY <1>2, <1>5, <1>6, <1>7, <2>1, InvTypes DEF TableTypes, CatInv, OneRecordPerIsbn
<1>9. Apart(r)
  BY <1>5, <1>6 DEF Apart, Stored
<1>10. Homes'
  BY <1>2, <1>3, <1>5, <1>7, HomesKeep
<1>11. Refs'
  BY <1>2, <1>3, <1>4, <1>5, <1>7, RefsKeep DEF CatInv, Refs
<1> QED
  BY <1>2, <1>3, <1>8, <1>9, <1>10, <1>11, FinishKeeps

----------------------------------------------------------------------------
(* Wishes, ratings, the end of a copy *)

LEMMA AddWishKeeps ==
  ASSUME CatInv, NEW r \in Request, add_to_wishlist(r)
  PROVE  CatInv'
<1>1. PICK u \in Member, x \in Name : AddToWishlist(r, u, x)
  BY DEF add_to_wishlist
<1>2. Once(r) /\ UNCHANGED <<copies, ratings, writer>>
  BY DEF add_to_wishlist
<1>3. Finishes(r) /\ Moved(r) /\ pc[r] = "idle" /\ r \in Past'
  BY <1>2, OnceMoves DEF Finishes
<1> DEFINE w == [name |-> <<r, 1>>, user |-> u, record |-> x]
<1>4. wishes' = wishes \cup {w} /\ w \in WishRow /\ w.name[1] = r /\ w.record = x
  BY <1>1 DEF AddToWishlist, WishRow, Name, From, Number
<1> HIDE DEF w
<1>5. Grown(r) /\ x \in Stored' /\ x[1] \in Past'
  <2>1. CASE x \in Records(r) /\ UNCHANGED record
    <3>1. x \in Stored /\ Sees(r, x)
      BY <2>1 DEF Records, Stored
    <3>2. x[1] \in Past
      BY <1>3, <3>1, IdleHasNothing, SeenIsPast DEF CatInv, Homes
    <3> QED
      BY <1>3, <2>1, <3>1, <3>2, SameGrown DEF Grown, Moved
  <2>2. ASSUME NEW t \in Title, NEW code \in Code, Insert(x, t, code), x = <<r, 1>>
        PROVE  Grown(r) /\ x \in Stored' /\ x[1] \in Past'
    BY <1>3, <2>2, InsertGrown
  <2> QED
    BY <1>1, <2>1, <2>2 DEF AddToWishlist
<1>6. TableTypes'
  BY <1>2, <1>4, <1>5, InvTypes DEF TableTypes, Grown
<1>7. Apart(r) /\ OneRecordPerIsbn'
  BY <1>2, <1>5 DEF Apart, Grown
<1>8. Homes'
  BY <1>2, <1>3, <1>4, <1>5, HomesKeep DEF Grown
<1>9. Refs'
  BY <1>2, <1>3, <1>4, <1>5, RefsKeep DEF CatInv, Refs, Grown
<1> QED
  BY <1>2, <1>3, <1>6, <1>7, <1>8, <1>9, FinishKeeps

\* Records stay, and so do copies, except that one may go with its ratings.
LEMMA RowsKeep ==
  ASSUME CatInv, NEW r \in Request, Finishes(r), pc[r] = "idle",
         UNCHANGED <<record, writer>>, wishes' \subseteq wishes, copies' \subseteq copies,
         ratings' \subseteq RatingRow,
         \A s \in ratings' : /\ \E c \in copies' : c.name = s.copy
                             /\ \/ s.name[1] = r /\ s.copy[1] \in Past
                                \/ \E q \in ratings : q.name = s.name /\ q.copy = s.copy
  PROVE  CatInv'
<1>1. Stored' = Stored /\ Moved(r) /\ r \in Past'
  BY DEF Stored, Finishes
<1>2. TableTypes' /\ OneRecordPerIsbn' /\ Apart(r)
  BY <1>1, InvTypes DEF TableTypes, CatInv, OneRecordPerIsbn, Apart
<1>3. Homes'
  BY <1>1, HomesKeep
<1>4. Refs'
  <2>1. \A s \in ratings' : s.copy[1] \in Past' \cup {s.name[1]}
    <3> SUFFICES ASSUME NEW s \in ratings', NEW q \in ratings, q.name = s.name, q.copy = s.copy
                 PROVE  s.copy[1] \in Past' \cup {s.name[1]}
      BY <1>1 DEF Moved
    <3> QED
      BY <1>1 DEF CatInv, Refs, Moved
  <2> QED
    BY <1>1, <2>1 DEF CatInv, Refs, Moved
<1> QED
  BY <1>2, <1>3, <1>4, FinishKeeps

LEMMA OthersKeep ==
  ASSUME CatInv, NEW r \in Request,
         \/ remove_from_wishlist(r) \/ create_rating(r) \/ update_rating(r)
         \/ delete_rating(r) \/ delete_book(r)
  PROVE  CatInv'
<1>1. Once(r) /\ UNCHANGED <<record, writer>>
  BY DEF remove_from_wishlist, create_rating, update_rating, delete_rating, delete_book
<1>2. Finishes(r) /\ pc[r] = "idle"
  BY <1>1, OnceMoves
<1>3. /\ ratings \subseteq RatingRow
      /\ \A s \in ratings : \E c \in copies : c.name = s.copy
  BY DEF CatInv, TypeOK, Refs
<1>4. CASE remove_from_wishlist(r) \/ delete_rating(r)
  <2>1. /\ wishes' \subseteq wishes /\ copies' = copies /\ ratings' \subseteq ratings
    BY <1>4 DEF remove_from_wishlist, RemoveFromWishlist, delete_rating, DeleteBookRating
  <2> QED
    BY <1>1, <1>2, <1>3, <2>1, RowsKeep
<1>5. CASE create_rating(r)
  <2>1. PICK c \in Copies(r), u \in Member, n \in Stars : CreateBookRating(r, c, u, n)
    BY <1>5 DEF create_rating
  <2> DEFINE s == [name |-> <<r, 1>>, copy |-> c.name, user |-> u, stars |-> n]
  <2>2. c \in copies /\ Sees(r, c.name)
    BY DEF Copies
  <2>3. s \in RatingRow /\ ratings' = ratings \cup {s} /\ s.name[1] = r /\ s.copy = c.name
    BY <2>1, <2>2 DEF CreateBookRating, RatingRow, Name, From, Number, CatInv, TypeOK, CopyRow
  <2>4. c.name[1] \in Past
    BY <1>2, <2>2, IdleHasNothing, SeenIsPast DEF CatInv, Homes
  <2>5. wishes' = wishes /\ copies' = copies
    BY <1>5 DEF create_rating
  <2> HIDE DEF s
  <2> QED
    BY <1>1, <1>2, <1>3, <2>2, <2>3, <2>4, <2>5, RowsKeep
<1>6. CASE update_rating(r)
  <2>1. PICK s \in ratings, n \in Stars : UpdateBookRating(s, n)
    BY <1>6 DEF update_rating, Ratings
  <2> DEFINE t == [s EXCEPT !.stars = n]
  <2>2. t \in RatingRow /\ t.name = s.name /\ t.copy = s.copy
    BY <1>3 DEF RatingRow
  <2>3. ratings' = (ratings \ {s}) \cup {t}
    BY <2>1 DEF UpdateBookRating
  <2>4. wishes' = wishes /\ copies' = copies
    BY <1>6 DEF update_rating
  <2> HIDE DEF t
  <2> QED
    BY <1>1, <1>2, <1>3, <2>2, <2>3, <2>4, RowsKeep
<1>7. CASE delete_book(r)
  <2>1. PICK c \in Copies(r) : DeleteBook(c)
    BY <1>7 DEF delete_book
  <2>2. copies' = copies \ {c} /\ ratings' \subseteq ratings /\ \A s \in ratings' : s.copy # c.name
    BY <2>1 DEF DeleteBook, RatingsKept
  <2>3. wishes' = wishes
    BY <1>7 DEF delete_book
  <2>4. \A s \in ratings' : \E d \in copies' : d.name = s.copy
    BY <1>3, <2>2
  <2> QED
    BY <1>1, <1>2, <1>3, <2>2, <2>3, <2>4, RowsKeep
<1> QED
  BY <1>4, <1>5, <1>6, <1>7

\* Nobody refers to the rows of a request that gives up.
LEMMA GiveUpKeeps ==
  ASSUME CatInv, NEW r \in Request, GiveUp(r)
  PROVE  CatInv'
<1>1. /\ pc[r] # "done" /\ Ends(r) /\ (before' = before \/ (Began(r) /\ pc[r] = "idle"))
      /\ copies' = {c \in copies : c.name[1] # r} /\ ratings' = {s \in ratings : s.name[1] # r}
      /\ UNCHANGED <<wishes, writer>>
      /\ record' = [x \in Name |-> IF pc[r] = "adding" /\ x[1] = r THEN NoRow ELSE record[x]]
  BY DEF GiveUp
<1>2. Finishes(r) /\ Moved(r) /\ r \in Past'
  BY <1>1, EndsMoves DEF Finishes
<1>3. pc[r] # "adding" => \A x \in Stored : x[1] # r
  BY <1>1, IdleHasNothing DEF CatInv, TypeOK
<1>4. Stored' = {x \in Stored : x[1] # r} /\ \A x \in Stored' : record'[x] = record[x]
  BY <1>1, <1>3 DEF Stored
<1>5. record' \in [Name -> RecordRow \cup {NoRow}]
  BY <1>1 DEF CatInv, TypeOK
<1>6. TableTypes'
  BY <1>1, <1>5, InvTypes DEF TableTypes
<1>7. OneRecordPerIsbn'
  BY <1>4 DEF CatInv, OneRecordPerIsbn
<1>8. Apart(r)
  BY <1>1, <1>2, <1>4 DEF Apart, Moved
<1>9. Homes'
  BY <1>1, <1>2, <1>4, HomesKeep
<1>10. Refs'
  <2>1. \A c \in copies' : c.record \in Stored' /\ c.record[1] \in Past' \cup {c.name[1]}
    BY <1>1, <1>2, <1>4 DEF CatInv, Refs, Moved
  <2>2. \A w \in wishes' : w.record \in Stored' /\ w.record[1] \in Past'
    BY <1>1, <1>2, <1>4 DEF CatInv, Refs, Moved
  <2>3. \A s \in ratings' : s.copy[1] \in Past' \cup {s.name[1]} /\ s.copy[1] # r
    BY <1>1, <1>2 DEF CatInv, Refs, Moved
  <2>4. \A s \in ratings' : \E c \in copies' : c.name = s.copy
    BY <1>1, <2>3 DEF CatInv, Refs
  <2> QED
    BY <2>1, <2>2, <2>3, <2>4 DEF Refs
<1> QED
  BY <1>1, <1>2, <1>6, <1>7, <1>8, <1>9, <1>10, FinishKeeps

LEMMA CommitKeeps ==
  ASSUME CatInv, NEW r \in Request, Commit(r)
  PROVE  CatInv'
<1>1. Ends(r) /\ pc[r] = "adding" /\ UNCHANGED <<record, copies, wishes, ratings, before, writer>>
  BY DEF Commit
<1>2. Finishes(r) /\ Moved(r) /\ r \in Past' /\ Stored' = Stored
  BY <1>1, EndsMoves DEF Finishes, Stored
<1>3. TableTypes' /\ OneRecordPerIsbn' /\ Apart(r)
  BY <1>1, <1>2, InvTypes DEF TableTypes, CatInv, OneRecordPerIsbn, Apart
<1>4. Homes'
  BY <1>1, <1>2, HomesKeep
<1>5. Refs'
  BY <1>1, <1>2 DEF CatInv, Refs, Moved
<1> QED
  BY <1>1, <1>2, <1>3, <1>4, <1>5, FinishKeeps

----------------------------------------------------------------------------
(* The first place that is free *)

LEMMA BoundedHasMax ==
  ASSUME NEW S \in SUBSET Nat, 0 \in S, NEW n \in Nat, \A k \in S : k <= n
  PROVE  Max(S) \in S /\ \A k \in S : k <= Max(S)
<1> DEFINE T == {m \in Nat : \A k \in S : k <= m}
<1>1. PICK m \in T : \A y \in T : ~(<<y, m>> \in OpToRel(<, Nat))
  <2>1. T \subseteq Nat /\ n \in T
    OBVIOUS
  <2> HIDE DEF T
  <2> QED
    BY <2>1, NatLessThanWellFounded, WFMin
<1>2. \A y \in T : ~(y < m)
  BY <1>1 DEF OpToRel
<1>3. m \in S
  <2> SUFFICES ASSUME m \notin S PROVE FALSE
    OBVIOUS
  <2>1. m - 1 \in Nat /\ \A k \in S : k <= m - 1
    OBVIOUS
  <2> QED
    BY <1>2, <2>1
<1>4. \E k \in S : \A y \in S : k >= y
  BY <1>3
<1>5. Max(S) \in S /\ \A y \in S : Max(S) >= y
  BY <1>4 DEF Max
<1> QED
  BY <1>5

LEMMA NextPlaceIsFree ==
  ASSUME CatInv, NEW r \in Request
  PROVE  /\ NextPlace(r) \in Nat
         /\ \A c \in Copies(r) : c.place < NextPlace(r)
<1> DEFINE S == {c.place : c \in Copies(r)} \cup {0}
<1>1. S \in SUBSET Nat /\ 0 \in S
  BY DEF Copies, CatInv, TypeOK, CopyRow
<1>2. PICK n \in Nat : \A c \in copies : c.place <= n
  BY DEF CatInv, PlacesBounded
<1>3. \A k \in S : k <= n
  BY <1>2 DEF Copies
<1>4. \A c \in Copies(r) : c.place \in S
  OBVIOUS
<1>5. NextPlace(r) = Max(S) + 1
  BY DEF NextPlace
<1> HIDE DEF S
<1>6. Max(S) \in S /\ \A k \in S : k <= Max(S)
  BY <1>1, <1>3, BoundedHasMax
<1>7. Max(S) \in Nat /\ \A c \in Copies(r) : c.place \in Nat /\ c.place <= Max(S)
  BY <1>1, <1>4, <1>6
<1> DEFINE m == Max(S)
<1>8. NextPlace(r) = m + 1 /\ m \in Nat /\ \A c \in Copies(r) : c.place \in Nat /\ c.place <= m
  BY <1>5, <1>7
<1> HIDE DEF m
<1> QED
  BY <1>8

----------------------------------------------------------------------------
(* Adding books *)

LEMMA BatchKeeps ==
  ASSUME CatInv, NEW r \in Request, NEW kind \in {"add", "scan", "import"},
         NEW items \in Seq(Item), Len(items) <= 2,
         NEW place \in Nat, place = IF kind = "scan" THEN NextPlace(r) ELSE 0,
         Starts(r, "adding", Batch(kind, items, place))
  PROVE  CatInv'
<1> DEFINE j == Batch(kind, items, place)
<1>1. j \in Adding /\ Len(j.items) <= 2
  BY DEF Batch, Adding
<1>2. /\ Moved(r) /\ pc[r] = "idle" /\ pc'[r] = "adding" /\ job'[r] = j
      /\ before'[r] = Done /\ Past' = Past
      /\ UNCHANGED <<record, copies, wishes, ratings, writer>>
  BY <1>1, StartsMoves
<1>3. Fresh(r)'
  BY <1>2 DEF Fresh
<1>4. PlaceBehind(r)'
  <2>1. Ahead(r)' \subseteq Copies(r)
    BY <1>2, EarlierIsEarlier, IdleHasNothing DEF Ahead, Copies, Sees, Settled, Done
  <2>2. job'[r].kind = kind /\ job'[r].place = place
    BY <1>2 DEF Batch
  <2> QED
    BY <2>1, <2>2, NextPlaceIsFree DEF PlaceBehind
<1> QED
  BY <1>2, <1>3, <1>4, StartKeeps

LEMMA BatchesKeep ==
  ASSUME CatInv, NEW r \in Request,
         add_book(r) \/ confirm_shelf_scan(r) \/ confirm_goodreads_import(r)
  PROVE  CatInv'
<1>1. ASSUME NEW I \in SUBSET Item, NEW b \in Batches(I)
      PROVE  b \in Seq(Item) /\ Len(b) <= 2
  <2>1. ASSUME NEW i \in I, b = <<i>> PROVE b \in Seq(Item) /\ Len(b) <= 2
    BY <2>1
  <2>2. ASSUME NEW i \in I, NEW k \in I, b = <<i, k>> PROVE b \in Seq(Item) /\ Len(b) <= 2
    BY <2>2
  <2> QED
    BY <2>1, <2>2 DEF Batches
<1>2. CASE add_book(r)
  <2>1. PICK i \in Item : Starts(r, "adding", Batch("add", <<i>>, 0))
    BY <1>2 DEF add_book
  <2>2. <<i>> \in Seq(Item) /\ Len(<<i>>) <= 2
    OBVIOUS
  <2> QED
    BY <2>1, <2>2, BatchKeeps
<1>3. CASE confirm_shelf_scan(r)
  <2> DEFINE I == {i \in Item : i.record = NoRecord /\ i.rater = Nobody}
  <2>1. PICK items \in Batches(I) : ConfirmShelfScan(r, items)
    BY <1>3 DEF confirm_shelf_scan
  <2>2. items \in Seq(Item) /\ Len(items) <= 2
    BY <1>1
  <2> QED
    BY <2>1, <2>2, NextPlaceIsFree, BatchKeeps DEF ConfirmShelfScan
<1>4. CASE confirm_goodreads_import(r)
  <2> DEFINE I == {i \in Item : i.record = NoRecord}
  <2>1. PICK items \in Batches(I) : ConfirmGoodreadsImport(r, items)
    BY <1>4 DEF confirm_goodreads_import
  <2>2. items \in Seq(Item) /\ Len(items) <= 2
    BY <1>1
  <2> QED
    BY <2>1, <2>2, BatchKeeps DEF ConfirmGoodreadsImport
<1> QED
  BY <1>2, <1>3, <1>4

\* Going on to the next item, with the place for its copy.
NextItem(r, place) ==
  /\ Moved(r) /\ Past' = Past /\ UNCHANGED <<pc, before>>
  /\ job'[r].at = job[r].at + 1 /\ job'[r].kind = job[r].kind /\ job'[r].place = place

LEMMA NextItemMoves ==
  ASSUME CatInv, NEW r \in Request, Adds(r), job[r].at <= Len(job[r].items),
         UNCHANGED <<pc, before>>, NEW place \in Nat,
         job' = [job EXCEPT ![r].at = @ + 1, ![r].place = place]
  PROVE  NextItem(r, place)
<1>1. /\ job[r] \in Adding /\ Len(job[r].items) <= 2 /\ Len(job[r].items) \in Nat
      /\ job[r].at \in 1..3
  BY DEF Adds, CatInv, TypeOK, JobsOK, Adding
<1>2. job[r].at + 1 \in 1..3
  BY <1>1
<1> DEFINE j == [job[r] EXCEPT !.at = @ + 1, !.place = place]
<1>3. j \in Adding /\ j.items = job[r].items
  BY <1>1, <1>2 DEF Adding
<1>4. j.at = job[r].at + 1 /\ j.kind = job[r].kind /\ j.place = place
  BY <1>1 DEF Adding
<1>5. job \in [Request -> Adding \cup Saving \cup {NoJob}]
  BY DEF CatInv, JobsOK
<1>6. job'[r] = j /\ \A s \in Request \ {r} : job'[s] = job[s]
  BY <1>5
<1>7. job' \in [Request -> Adding \cup Saving \cup {NoJob}]
  BY <1>3, <1>5
<1> HIDE DEF j
<1>8. ReqTypes'
  BY <1>1, <1>3, <1>6, <1>7 DEF ReqTypes, JobsOK, Adds, CatInv, TypeOK
<1>9. Done' = Done /\ Past' = Past /\ r \notin Past /\ BegunAfter'
  BY EarlierIsEarlier DEF Done, Past, BegunAfter, Adds, CatInv
<1> QED
  BY <1>4, <1>6, <1>8, <1>9 DEF NextItem, Moved, Adds

\* The record of an item is one the request sees.
LEMMA ResolveFinds ==
  ASSUME CatInv, NEW r \in Request, Adds(r), NEW item \in Item, NEW n \in Number,
         NEW x \in Name, Resolve(r, item, <<r, n>>, x)
  PROVE  Grown(r) /\ x \in Stored' /\ x[1] \in Past \cup {r}
<1>1. item.title \in Title /\ Normal(item.isbn) \in Code
  <2>1. item.title \in Title /\ item.isbn \in Code
    BY ItemsAreItems DEF Items
  <2> QED
    BY <2>1 DEF Normal, Code, Written
<1>2. CASE x \in Records(r) /\ UNCHANGED record
  <2>1. x \in Stored /\ Sees(r, x)
    BY <1>2 DEF Records
  <2>2. x[1] \in Past \cup {r}
    BY <2>1, EarlierIsEarlier DEF CatInv, Homes, Home, Adds, Sees, Settled, Past
  <2> QED
    BY <1>2, <2>1, <2>2, SameGrown
<1>3. CASE x = <<r, n>> /\ Insert(x, item.title, Normal(item.isbn))
  BY <1>1, <1>3, InsertGrown
<1> QED
  BY <1>2, <1>3 DEF Resolve, FindByIsbn

\* Homes and references, when an item has been done.
LEMMA ItemHomes ==
  ASSUME CatInv, NEW r \in Request, Adds(r), NEW place, NextItem(r, place), Grown(r),
         UNCHANGED <<wishes, writer>>, job[r].at \in Nat,
         \A c \in copies' : \/ c \in copies
                            \/ /\ c.name = <<r, job[r].at>>
                               /\ c.record \in Stored' /\ c.record[1] \in Past \cup {r},
         copies \subseteq copies',
         \A s \in ratings' : \/ s \in ratings
                             \/ /\ s.name = <<r, job[r].at>> /\ s.copy = <<r, job[r].at>>
                                /\ \E c \in copies' : c.name = s.copy
  PROVE  Homes' /\ Refs'
<1>1. ASSUME NEW x, Home(x) \/ x[1] = r PROVE Home(x)'
  BY <1>1 DEF Home, Adds, NextItem
<1>2. Homes'
  <2>1. ASSUME NEW s \in Request, NEW c \in copies', c.name[1] = s, Adds(s)'
        PROVE  c.name[2] < job'[s].at
    <3>1. CASE c \in copies /\ s # r
      BY <2>1, <3>1 DEF NextItem, Moved, Adds, CatInv, Homes
    <3>2. CASE c \in copies /\ s = r
      <4>1. c.name[2] < job[r].at /\ c.name[2] \in Nat
        BY <2>1, <3>2 DEF CatInv, Homes, TypeOK, CopyRow, Name, Number
      <4> QED
        BY <3>2, <4>1 DEF NextItem
    <3>3. CASE c \notin copies
      BY <2>1, <3>3 DEF NextItem
    <3> QED
      BY <3>1, <3>2, <3>3
  <2>2. /\ \A x \in Stored' : Home(x)'
        /\ \A w \in wishes' : w.name[1] \in Past'
    BY <1>1 DEF CatInv, Homes, Grown, NextItem
  <2>3. \A c \in copies' : Home(c.name)'
    BY <1>1 DEF CatInv, Homes
  <2>4. \A s \in ratings' : Home(s.name)'
    BY <1>1 DEF CatInv, Homes
  <2> QED
    BY <2>1, <2>2, <2>3, <2>4 DEF Homes
<1>3. Refs'
  <2>1. \A c \in copies' : c.record \in Stored' /\ c.record[1] \in Past' \cup {c.name[1]}
    BY DEF CatInv, Refs, Grown, NextItem
  <2>2. \A w \in wishes' : w.record \in Stored' /\ w.record[1] \in Past'
    BY DEF CatInv, Refs, Grown, NextItem
  <2>3. \A s \in ratings' : /\ s.copy[1] \in Past' \cup {s.name[1]}
                            /\ \E c \in copies' : c.name = s.copy
    BY DEF CatInv, Refs, NextItem
  <2> QED
    BY <2>1, <2>2, <2>3 DEF Refs
<1> QED
  BY <1>2, <1>3

LEMMA ItemApart ==
  ASSUME CatInv, NEW r \in Request, Adds(r), NEW place, NextItem(r, place), Grown(r), writer' = writer
  PROVE  ReadFresh'
<1>1. Apart(r)
  BY DEF Apart, Grown
<1>2. Fresh(r)'
  BY DEF Fresh, NextItem, Adds
<1> QED
  BY <1>1, <1>2, FreshKeeps DEF ReadFresh, NextItem

\* An item is left out.
LEMMA SkipKeeps ==
  ASSUME CatInv, NEW r \in Request, Adds(r), NextItem(r, job[r].place), Grown(r), job[r].at \in Nat,
         UNCHANGED <<copies, wishes, ratings, writer>>
  PROVE  CatInv'
<1>1. Moved(r) /\ before' = before
  BY DEF NextItem
<1>2. TypeOK' /\ JobsOK' /\ BegunAfter'
  BY <1>1, InvTypes DEF Moved, ReqTypes, TableTypes, TypeOK, Grown
<1>3. Homes' /\ Refs'
  BY ItemHomes
<1>4. PlacesBehind'
  <2>1. Ahead(r)' = Ahead(r)
    BY <1>1 DEF Ahead
  <2>2. PlaceBehind(r)'
    BY <2>1 DEF CatInv, PlacesBehind, PlaceBehind, NextItem, Adds
  <2> QED
    BY <1>1, <2>2, BehindKeeps DEF PlacesBehind
<1> QED
  BY <1>1, <1>2, <1>3, <1>4, CopiesKeep, ItemApart DEF CatInv, Grown

\* A copy of somebody who has ended, or of the same request, comes first;
\* nobody who has begun knows the new one.
LEMMA NewIsLast ==
  ASSUME CatInv, NEW r \in Request, Adds(r), NEW c \in CopyRow,
         c.name = <<r, job[r].at>>, NEW d \in copies
  PROVE  /\ ~Precedes(c.name, d.name)
         /\ Precedes(d.name, c.name) =>
              d \in Copies(r) /\ d.name[1] \in before[r] \cup {Earlier, r}
         /\ c.name # d.name
<1>1. job[r].at \in 1..3 /\ d.name[2] \in 1..2
  BY DEF Adds, CatInv, TypeOK, Adding, CopyRow, Name, Number
<1>2. d.name[1] = r => d.name[2] < job[r].at
  BY DEF CatInv, Homes
<1>3. d.name[1] \in Request => r \notin before[d.name[1]]
  BY DEF CatInv, BegunAfter, Done, Adds
<1>4. ~Precedes(c.name, d.name) /\ c.name # d.name
  BY <1>1, <1>2, <1>3, EarlierIsEarlier DEF Precedes
<1>5. Precedes(d.name, c.name) => d.name[1] \in before[r] \cup {Earlier, r}
  BY DEF Precedes
<1>6. d.name[1] \in before[r] \cup {Earlier, r} => d \in Copies(r)
  BY DEF Copies, Sees, Settled, CatInv, BegunAfter, Done
<1> QED
  BY <1>4, <1>5, <1>6

LEMMA CopyKeeps ==
  ASSUME CatInv, NEW r \in Request, Adds(r), Grown(r), UNCHANGED <<wishes, writer>>,
         NEW c \in CopyRow, c.name = <<r, job[r].at>>, c.place = job[r].place,
         c.record \in Stored', c.record[1] \in Past \cup {r},
         c.marked \/ ~IsOwned(r, c.record),
         copies' = copies \cup {c},
         ratings' \subseteq RatingRow,
         \A s \in ratings' : s \in ratings \/ (s.name = c.name /\ s.copy = c.name),
         NextItem(r, IF job[r].kind = "scan" THEN job[r].place + 1 ELSE job[r].place)
  PROVE  CatInv'
<1>1. Moved(r) /\ before' = before /\ pc' = pc
  BY DEF NextItem
<1>2. job[r].at \in Nat /\ job[r].place \in Nat
  BY DEF Adds, CatInv, TypeOK, Adding
<1>3. TypeOK' /\ JobsOK' /\ BegunAfter'
  BY <1>1, InvTypes DEF Moved, ReqTypes, TableTypes, TypeOK, Grown
<1>4. Homes' /\ Refs'
  BY <1>2, ItemHomes
<1>5. ASSUME NEW d, NEW e PROVE Precedes(d, e)' <=> Precedes(d, e)
  BY <1>1 DEF Precedes
<1>6. NamesDiffer'
  BY NewIsLast DEF CatInv, NamesDiffer
<1>7. NoSilentDuplicate'
  <2> SUFFICES ASSUME NEW d \in copies', NEW e \in copies', d.record = e.record,
                      Precedes(d.name, e.name)
               PROVE  e.marked
    BY <1>5 DEF NoSilentDuplicate
  <2>1. CASE d \in copies /\ e \in copies
    BY <2>1 DEF CatInv, NoSilentDuplicate
  <2>2. CASE d \in copies /\ e = c
    BY <2>2, NewIsLast DEF IsOwned, FindByRecord
  <2>3. CASE d = c /\ e = c
    BY <1>2, <2>3, EarlierIsEarlier DEF Precedes, CatInv, BegunAfter, Done, Adds
  <2>4. CASE d = c /\ e \in copies
    BY <2>4, NewIsLast
  <2> QED
    BY <2>1, <2>2, <2>3, <2>4
<1>8. PlaceBehind(r)
  BY DEF CatInv, PlacesBehind
<1>9. ShelfOrder'
  <2> SUFFICES ASSUME NEW d \in copies', NEW e \in copies', d.place > 0, e.place > 0,
                      Precedes(d.name, e.name)
               PROVE  d.place < e.place
    BY <1>5 DEF ShelfOrder
  <2>1. CASE d \in copies /\ e \in copies
    BY <2>1 DEF CatInv, ShelfOrder
  <2>2. CASE d \in copies /\ e = c
    <3>1. d \in Ahead(r)
      BY <2>2, NewIsLast DEF Ahead
    <3>2. job[r].kind = "scan"
      BY <1>8, <2>2 DEF PlaceBehind
    <3> QED
      BY <1>8, <2>2, <3>1, <3>2 DEF PlaceBehind
  <2>3. CASE d = c /\ e = c
    BY <1>2, <2>3, EarlierIsEarlier DEF Precedes, CatInv, BegunAfter, Done, Adds
  <2>4. CASE d = c /\ e \in copies
    BY <2>4, NewIsLast
  <2> QED
    BY <2>1, <2>2, <2>3, <2>4
<1>10. PlacesBehind'
  <2>1. Ahead(r)' \subseteq Ahead(r) \cup {c}
    BY <1>1 DEF Ahead
  <2>2. \A d \in Ahead(r) : d.place \in Nat
    BY DEF Ahead, CatInv, TypeOK, CopyRow
  <2>3. CASE job[r].kind = "scan"
    <3>1. \A d \in Ahead(r)' : d.place < job[r].place + 1
      BY <1>2, <1>8, <2>1, <2>2, <2>3 DEF PlaceBehind
    <3>2. job'[r].place = job[r].place + 1 /\ job'[r].kind = "scan"
      BY <2>3 DEF NextItem
    <3> QED
      BY <1>1, <3>1, <3>2, BehindKeeps DEF PlacesBehind, PlaceBehind
  <2>4. CASE job[r].kind # "scan"
    <3>1. job'[r].place = 0 /\ job'[r].kind # "scan"
      BY <1>8, <2>4 DEF NextItem, PlaceBehind
    <3>2. PlaceBehind(r)'
      BY <3>1 DEF PlaceBehind
    <3> QED
      BY <1>1, <3>2, BehindKeeps DEF PlacesBehind
  <2> QED
    BY <2>3, <2>4
<1>11. PlacesBounded'
  <2>1. PICK n \in Nat : \A d \in copies : d.place <= n
    BY DEF CatInv, PlacesBounded
  <2>2. n + job[r].place \in Nat /\ \A d \in copies' : d.place <= n + job[r].place
    BY <1>2, <2>1 DEF CatInv, TypeOK, CopyRow
  <2> QED
    BY <2>2 DEF PlacesBounded
<1> QED
  BY <1>3, <1>4, <1>6, <1>7, <1>9, <1>10, <1>11, ItemApart DEF CatInv, Grown

LEMMA AddItemKeeps ==
  ASSUME CatInv, NEW r \in Request, AddItem(r)
  PROVE  CatInv'
<1> DEFINE j == job[r]
           item == j.items[j.at]
           name == <<r, j.at>>
<1>1. /\ Adds(r) /\ j.at <= Len(j.items) /\ UNCHANGED <<wishes, pc, before, writer>>
      /\ \/ Skip(r) /\ UNCHANGED <<record, copies, ratings>>
         \/ AddBook(r, item)
  BY DEF AddItem, Adds
<1>2. j \in Adding /\ Len(j.items) <= 2
  BY <1>1 DEF Adds, CatInv, TypeOK, JobsOK
<1>3. j.at \in 1..2 /\ item \in Item /\ j.place \in Nat
  <2>1. j.items \in Seq(Item) /\ j.at \in 1..3 /\ j.place \in Nat /\ Len(j.items) \in Nat
    BY <1>2 DEF Adding
  <2>2. j.at \in 1..Len(j.items) /\ j.at \in 1..2
    BY <1>1, <1>2, <2>1
  <2> QED
    BY <2>1, <2>2
<1>4. name \in Name
  BY <1>3 DEF Name, From, Number
<1>5. ASSUME Skip(r) PROVE NextItem(r, j.place)
  <2>1. job \in [Request -> Adding \cup Saving \cup {NoJob}]
    BY DEF CatInv, JobsOK
  <2>2. job' = [job EXCEPT ![r].at = @ + 1, ![r].place = j.place]
    BY <1>2, <1>5, <2>1 DEF Skip, Adding
  <2> QED
    BY <1>1, <1>3, <2>2, NextItemMoves
<1>6. CASE Skip(r) /\ UNCHANGED <<record, copies, ratings>>
  BY <1>1, <1>3, <1>5, <1>6, SameGrown, SkipKeeps
<1>7. CASE AddBook(r, item)
  <2>1. PICK x \in Name :
          /\ Resolve(r, item, name, x)
          /\ \/ (item.marked \/ ~IsOwned(r, x)) /\ AddCopy(r, x)
             \/ Skip(r) /\ UNCHANGED <<copies, ratings>>
    BY <1>7 DEF AddBook
  <2>2. Grown(r) /\ x \in Stored' /\ x[1] \in Past \cup {r}
    BY <1>1, <1>3, <2>1, ResolveFinds DEF Number
  <2>3. CASE Skip(r) /\ UNCHANGED <<copies, ratings>>
    BY <1>1, <1>3, <1>5, <2>2, <2>3, SkipKeeps
  <2>4. CASE (item.marked \/ ~IsOwned(r, x)) /\ AddCopy(r, x)
    <3> DEFINE c == [name |-> name, record |-> x, marked |-> item.marked, place |-> j.place]
               place == IF j.kind = "scan" THEN j.place + 1 ELSE j.place
    <3>1. item.marked \in BOOLEAN /\ item.rater \in Member \cup {Nobody}
      BY <1>3, ItemsAreItems DEF Items
    <3>2. c \in CopyRow /\ c.name = name /\ c.place = j.place /\ c.record = x /\ c.marked = item.marked
      BY <1>3, <1>4, <3>1 DEF CopyRow
    <3>3. copies' = copies \cup {c}
      BY <2>4 DEF AddCopy
    <3>4. /\ ratings' \subseteq RatingRow
          /\ \A s \in ratings' : s \in ratings \/ (s.name = name /\ s.copy = name)
      <4>1. ratings \subseteq RatingRow
        BY DEF CatInv, TypeOK
      <4>2. CASE item.rater = Nobody
        BY <2>4, <4>1, <4>2 DEF AddCopy
      <4>3. CASE item.rater # Nobody
        <5>1. PICK n \in Stars : ratings' = ratings \cup
                {[name |-> name, copy |-> name, user |-> item.rater, stars |-> n]}
          BY <2>4, <4>3 DEF AddCopy
        <5> QED
          BY <1>4, <3>1, <4>1, <4>3, <5>1 DEF RatingRow
      <4> QED
        BY <4>2, <4>3
    <3>5. NextItem(r, place)
      <4>1. job' = [job EXCEPT ![r].at = @ + 1, ![r].place = IF j.kind = "scan" THEN @ + 1 ELSE @]
        BY <2>4 DEF AddCopy
      <4>2. job \in [Request -> Adding \cup Saving \cup {NoJob}]
        BY DEF CatInv, JobsOK
      <4>3. job' = [job EXCEPT ![r].at = @ + 1, ![r].place = place]
        BY <1>2, <4>1, <4>2 DEF Adding
      <4>4. place \in Nat
        BY <1>3
      <4> HIDE DEF place
      <4> QED
        BY <1>1, <4>3, <4>4, NextItemMoves
    <3> HIDE DEF c
    <3> QED
      BY <1>1, <2>2, <2>4, <3>2, <3>3, <3>4, <3>5, CopyKeeps
  <2> QED
    BY <2>1, <2>3, <2>4
<1> QED
  BY <1>1, <1>6, <1>7

----------------------------------------------------------------------------
(* The invariant *)

LEMMA InitHolds == Init => CatInv
<1> SUFFICES ASSUME Init PROVE CatInv
  OBVIOUS
<1>1. /\ pc = [r \in Request |-> "idle"] /\ job = [r \in Request |-> NoJob]
      /\ before = [r \in Request |-> {}] /\ writer = [x \in Name |-> Earlier] /\ ratings = {}
  BY DEF Init
<1> DEFINE x == <<Earlier, 1>>
           copy == [name |-> x, record |-> x, marked |-> FALSE, place |-> 2]
<1>2. x \in Name /\ x[1] = Earlier /\ x[2] = 1
  BY DEF Name, From, Number
<1>3. copy \in CopyRow /\ copy.name = x /\ copy.record = x /\ copy.place = 2
  BY <1>2 DEF CopyRow
<1>4. /\ record \in [Name -> RecordRow \cup {NoRow}] /\ Stored \subseteq {x}
      /\ copies \subseteq {copy} /\ (copies # {} => x \in Stored)
      /\ wishes \subseteq WishRow /\ \A w \in wishes : w.name = x /\ w.record = x /\ x \in Stored
  <2>1. CASE record = [y \in Name |-> NoRow] /\ copies = {} /\ wishes = {}
    BY <2>1 DEF Stored
  <2>2. ASSUME NEW t \in Title, NEW code \in Code, NEW u \in Member,
               record = [y \in Name |->
                           IF y = x THEN [title |-> t, isbn |-> code, text |-> "none"] ELSE NoRow],
               copies \in {{}, {copy}},
               wishes \in {{}, {[name |-> x, user |-> u, record |-> x]}}
        PROVE  /\ record \in [Name -> RecordRow \cup {NoRow}]
               /\ Stored \subseteq {x} /\ x \in Stored /\ copies \subseteq {copy}
               /\ wishes \subseteq WishRow /\ \A w \in wishes : w.name = x /\ w.record = x
    <3>1. [title |-> t, isbn |-> code, text |-> "none"] \in RecordRow
      BY DEF RecordRow, Text
    <3>2. [title |-> t, isbn |-> code, text |-> "none"] # NoRow
      BY <3>1, NoRowIsNoRow DEF RecordRow, Text
    <3>3. record \in [Name -> RecordRow \cup {NoRow}]
      BY <2>2, <3>1
    <3>4. Stored \subseteq {x} /\ x \in Stored
      BY <1>2, <2>2, <3>2 DEF Stored
    <3>5. [name |-> x, user |-> u, record |-> x] \in WishRow
      BY <1>2 DEF WishRow
    <3> QED
      BY <2>2, <3>3, <3>4, <3>5
  <2> QED
    BY <2>1, <2>2 DEF Init
<1> HIDE DEF x, copy
<1>5. TypeOK /\ JobsOK /\ BegunAfter /\ ReadFresh /\ PlacesBehind
  BY <1>1, <1>3, <1>4
     DEF TypeOK, JobsOK, BegunAfter, ReadFresh, Fresh, PlacesBehind, PlaceBehind, Adds, From
<1>6. Homes /\ Refs
  BY <1>1, <1>2, <1>3, <1>4 DEF Homes, Refs, Home, Past, Adds
<1>7. NamesDiffer /\ PlacesBounded /\ OneRecordPerIsbn
  <2>1. PlacesBounded
    BY <1>3, <1>4 DEF PlacesBounded
  <2> QED
    BY <1>4, <2>1 DEF NamesDiffer, OneRecordPerIsbn
<1>8. ASSUME NEW c \in copies, NEW d \in copies PROVE ~Precedes(c.name, d.name)
  BY <1>2, <1>3, <1>4, EarlierIsEarlier DEF Precedes
<1>9. NoSilentDuplicate /\ ShelfOrder
  BY <1>8 DEF NoSilentDuplicate, ShelfOrder
<1> QED
  BY <1>5, <1>6, <1>7, <1>9 DEF CatInv

LEMMA StepKeeps ==
  ASSUME CatInv, NEW r \in Request, Step(r)
  PROVE  CatInv'
BY BatchesKeep, AddItemKeeps, CommitKeeps, CreateRecordKeeps, EditsKeep, SaveKeeps,
   DeleteRecordKeeps, AddWishKeeps, OthersKeep, GiveUpKeeps DEF Step

LEMMA StutterKeeps ==
  ASSUME CatInv, UNCHANGED vars
  PROVE  CatInv'
<1>1. /\ TypeOK' /\ JobsOK' /\ NamesDiffer' /\ PlacesBounded' /\ OneRecordPerIsbn'
      /\ BegunAfter'
  BY DEF CatInv, vars, TypeOK, JobsOK, Adds, NamesDiffer, PlacesBounded, OneRecordPerIsbn,
         Stored, BegunAfter, Done
<1>2. Homes' /\ Refs'
  BY DEF CatInv, vars, Homes, Refs, Home, Adds, Past, Done, Stored
<1>3. ReadFresh' /\ PlacesBehind'
  BY DEF CatInv, vars, ReadFresh, Fresh, PlacesBehind, PlaceBehind, Ahead, Adds, Past, Done,
         Stored
<1>4. NoSilentDuplicate' /\ ShelfOrder'
  BY DEF CatInv, vars, NoSilentDuplicate, ShelfOrder, Precedes
<1> QED
  BY <1>1, <1>2, <1>3, <1>4 DEF CatInv

\* Whatever requests overlap, rows are home, and what was read is fresh.
THEOREM CatInvHolds == Spec => []CatInv
<1>1. CatInv /\ [Next]_vars => CatInv'
  BY StepKeeps, StutterKeeps DEF Next, Ended
<1> QED
  BY InitHolds, <1>1, PTL DEF Spec

----------------------------------------------------------------------------
(* Properties *)

\* Every table holds rows of its type, and requests what they add or save.
THEOREM CatalogueTypesHold == Spec => []TypeOK
BY CatInvHolds, PTL DEF CatInv

\* However many requests insert and edit records for an ISBN, it has one.
THEOREM IsbnHasOneRecord == Spec => []OneRecordPerIsbn
BY CatInvHolds, PTL DEF CatInv

\* Only requests that overlap add a second copy nobody has asked for.
THEOREM DuplicatesAreWanted == Spec => []NoSilentDuplicate
BY CatInvHolds, PTL DEF CatInv

\* Only scans that overlap give places out of order.
THEOREM ShelvesAreInOrder == Spec => []ShelfOrder
BY CatInvHolds, PTL DEF CatInv

LEMMA Writers ==
  ASSUME CatInv, NEW s \in Request, Step(s)
  PROVE  \/ writer' = writer
         \/ Save(s)
         \/ pc[s] = "idle" /\ \E x \in Name : writer' = [writer EXCEPT ![x] = s]
<1>1. CASE delete_record(s)
  BY <1>1 DEF delete_record, DeleteBibliographicRecord, Once, Records, Stored
<1>2. CASE \/ add_book(s) \/ confirm_shelf_scan(s) \/ confirm_goodreads_import(s)
           \/ AddItem(s) \/ Commit(s) \/ create_record(s)
  BY <1>2 DEF add_book, confirm_shelf_scan, ConfirmShelfScan, confirm_goodreads_import,
              ConfirmGoodreadsImport, Starts, AddItem, Commit, create_record
<1>3. CASE update_record(s) \/ set_incipit(s) \/ generate_incipit_ai(s) \/ get_incipit(s)
  BY <1>3 DEF update_record, UpdateBibliographicRecord, set_incipit, SetIncipit,
              generate_incipit_ai, GenerateAiIncipit, get_incipit, DeriveIncipit, Edit, Starts
<1>4. CASE \/ add_to_wishlist(s) \/ remove_from_wishlist(s) \/ create_rating(s)
           \/ update_rating(s) \/ delete_rating(s) \/ delete_book(s) \/ GiveUp(s)
  BY <1>4 DEF add_to_wishlist, remove_from_wishlist, create_rating, update_rating,
              delete_rating, delete_book, GiveUp
<1> QED
  BY <1>1, <1>2, <1>3, <1>4 DEF Step

\* A save undoes only what overlaps it.
THEOREM SavesAreAsked == Spec => SavesWhatWasAsked
<1> DEFINE Asked(r) ==
      LET x == job[r].record IN
      pc[r] = "saving" /\ writer'[x] = r /\ writer[x] \in before[r] \cup {Earlier} =>
        /\ record[x] # NoRow
        /\ \A col \in Column \ {job[r].column} : record'[x][col] = record[x][col]
<1>1. ASSUME CatInv, NEW s \in Request, Step(s), NEW r \in Request PROVE Asked(r)
  <2> DEFINE x == job[r].record
  <2> SUFFICES ASSUME pc[r] = "saving", writer'[x] = r, writer[x] \in before[r] \cup {Earlier}
               PROVE  /\ record[x] # NoRow
                      /\ \A col \in Column \ {job[r].column} : record'[x][col] = record[x][col]
    OBVIOUS
  <2>1. writer[x] # r
    BY <1>1, EarlierIsEarlier DEF CatInv, BegunAfter, Done
  <2>2. x \in Name /\ writer \in [Name -> From]
    BY <1>1 DEF CatInv, TypeOK, Saving
  <2>3. Save(s) /\ s = r
    <3>1. Save(s)
      BY <1>1, <2>1, <2>2, Writers
    <3> QED
      BY <2>1, <2>2, <3>1 DEF Save
  <2>4. record' = [record EXCEPT ![x] = job[r].row] /\ record \in [Name -> RecordRow \cup {NoRow}]
    BY <1>1, <2>3 DEF Save, CatInv, TypeOK
  <2>5. Fresh(r)
    BY <1>1 DEF CatInv, ReadFresh
  <2>6. x \in Stored /\ \A col \in Column \ {job[r].column} : record[x][col] = job[r].row[col]
    BY <2>5 DEF Fresh
  <2>7. record'[x] = job[r].row
    BY <2>2, <2>4
  <2> QED
    BY <2>6, <2>7 DEF Stored
<1>2. ASSUME CatInv, UNCHANGED vars, NEW r \in Request PROVE Asked(r)
  <2>1. pc[r] = "saving" => writer[job[r].record] \notin before[r] \cup {Earlier} \/ writer[job[r].record] # r
    BY <1>2, EarlierIsEarlier DEF CatInv, BegunAfter, Done
  <2> QED
    BY <1>2, <2>1 DEF vars
<1>3. ASSUME CatInv, [Next]_vars PROVE [\A r \in Request : Asked(r)]_vars
  BY <1>1, <1>2, <1>3 DEF Next, Ended
<1> QED
  BY <1>3, CatInvHolds, PTL DEF Spec, SavesWhatWasAsked

----------------------------------------------------------------------------
(* Catalogue implements Hanging *)

LEMMA PastIs ==
  ASSUME CatInv
  PROVE  /\ Present = {x \in Stored : x[1] \in Past}
         /\ Shelved = {c \in copies : c.name[1] \in Past}
         /\ {s \in ratings : Settled(s.name)} = {s \in ratings : s.name[1] \in Past}
         /\ Spent = {x \in Name : x[1] \in Past}
<1>1. \A x : Home(x) => (Settled(x) <=> x[1] \in Past)
  BY EarlierIsEarlier DEF Home, Adds, Settled, Past, Done
<1>2. Spent = {x \in Name : x[1] \in Past}
  BY EarlierIsEarlier DEF Spent, Past, Done, Name, From
<1> QED
  BY <1>1, <1>2 DEF Present, Shelved, CatInv, Homes

LEMMA PastIsNext ==
  ASSUME CatInv'
  PROVE  /\ Present' = {x \in Stored' : x[1] \in Past'}
         /\ Shelved' = {c \in copies' : c.name[1] \in Past'}
         /\ {s \in ratings' : Settled(s.name)'} = {s \in ratings' : s.name[1] \in Past'}
         /\ Spent' = {x \in Name : x[1] \in Past'}
<1>1. \A x : Home(x)' => (Settled(x)' <=> x[1] \in Past')
  BY EarlierIsEarlier DEF Home, Adds, Settled, Past, Done
<1>2. Spent' = {x \in Name : x[1] \in Past'}
  BY EarlierIsEarlier DEF Spent, Past, Done, Name, From
<1> QED
  BY <1>1, <1>2 DEF Present, Shelved, CatInv, Homes

\* A request is not done before its last step.
LEMMA StepsGo ==
  ASSUME CatInv, NEW r \in Request, Step(r)
  PROVE  r \notin Past /\ Past \subseteq Past' /\ Past' \subseteq Past \cup {r}
<1>1. pc[r] # "done" /\ (pc' = pc \/ \E state : pc' = [pc EXCEPT ![r] = state])
  <2>1. CASE \/ add_book(r) \/ confirm_shelf_scan(r) \/ confirm_goodreads_import(r)
             \/ update_record(r) \/ set_incipit(r) \/ generate_incipit_ai(r) \/ get_incipit(r)
    BY <2>1 DEF add_book, confirm_shelf_scan, ConfirmShelfScan, confirm_goodreads_import,
                ConfirmGoodreadsImport, update_record, UpdateBibliographicRecord, set_incipit,
                SetIncipit, generate_incipit_ai, GenerateAiIncipit, get_incipit,
                DeriveIncipit, Edit, Starts
  <2>2. CASE AddItem(r) \/ Commit(r) \/ Save(r) \/ GiveUp(r)
    BY <2>2 DEF AddItem, Commit, Save, GiveUp, Ends
  <2>3. CASE \/ create_record(r) \/ delete_record(r) \/ add_to_wishlist(r)
             \/ remove_from_wishlist(r) \/ create_rating(r) \/ update_rating(r)
             \/ delete_rating(r) \/ delete_book(r)
    BY <2>3 DEF create_record, delete_record, add_to_wishlist, remove_from_wishlist,
                create_rating, update_rating, delete_rating, delete_book, Once, Ends
  <2> QED
    BY <2>1, <2>2, <2>3 DEF Step
<1>2. pc \in [Request -> {"idle", "adding", "saving", "done"}]
  BY DEF CatInv, TypeOK
<1> QED
  BY <1>1, <1>2, EarlierIsEarlier DEF Past, Done

\* The rows of a step are its own, and only deletions take those of others.
LEMMA StepRows ==
  ASSUME CatInv, NEW r \in Request, Step(r)
  PROVE  /\ \A c \in copies' : c \in copies \/ c.name[1] = r
         /\ \A w \in wishes' : w \in wishes \/ w.name[1] = r
         /\ \A s \in ratings' : \/ s.name[1] = r
                               \/ \E q \in ratings : q.name = s.name /\ q.copy = s.copy
         /\ delete_book(r) \/ \A c \in copies : c.name[1] = r \/ c \in copies'
         /\ delete_record(r) \/ \A x \in Stored : x[1] = r \/ x \in Stored'
<1> USE DEF Stored
<1>1. CASE \/ add_book(r) \/ confirm_shelf_scan(r) \/ confirm_goodreads_import(r)
           \/ update_record(r) \/ set_incipit(r) \/ generate_incipit_ai(r) \/ get_incipit(r)
           \/ Commit(r)
  <2>1. UNCHANGED <<record, copies, wishes, ratings>>
    BY <1>1 DEF add_book, confirm_shelf_scan, ConfirmShelfScan, confirm_goodreads_import,
                ConfirmGoodreadsImport, update_record, UpdateBibliographicRecord, set_incipit,
                SetIncipit, generate_incipit_ai, GenerateAiIncipit, get_incipit,
                DeriveIncipit, Edit, Starts, Commit
  <2> QED
    BY <2>1
<1>2. CASE AddItem(r)
  <2>1. wishes' = wishes /\ \A x \in Stored : x \in Stored'
    <3>1. CASE UNCHANGED record
      BY <1>2, <3>1 DEF AddItem
    <3>2. ASSUME NEW x \in Name, NEW t, NEW code, Insert(x, t, code)
          PROVE  \A y \in Stored : y \in Stored'
      BY <3>2 DEF Insert, CatInv, TypeOK
    <3> QED
      BY <1>2, <3>1, <3>2 DEF AddItem, AddBook, Resolve
  <2>2. CASE UNCHANGED <<copies, ratings>>
    BY <2>1, <2>2
  <2>3. ASSUME NEW x, AddCopy(r, x)
        PROVE  /\ \A c \in copies' : c \in copies \/ c.name[1] = r
               /\ \A s \in ratings' : s \in ratings \/ s.name[1] = r
               /\ copies \subseteq copies'
    BY <2>3 DEF AddCopy
  <2> QED
    BY <1>2, <2>1, <2>2, <2>3 DEF AddItem, AddBook
<1>3. CASE create_record(r) \/ add_to_wishlist(r)
  <2>1. \A x \in Stored : x \in Stored'
    <3>1. ASSUME NEW x \in Name, NEW t, NEW code, Insert(x, t, code)
          PROVE  \A y \in Stored : y \in Stored'
      BY <3>1 DEF Insert, CatInv, TypeOK
    <3>2. <<r, 1>> \in Name
      BY DEF Name, From, Number
    <3> QED
      BY <1>3, <3>1, <3>2 DEF create_record, CreateBibliographicRecord, add_to_wishlist, AddToWishlist
  <2>2. UNCHANGED <<copies, ratings>> /\ \A w \in wishes' : w \in wishes \/ w.name[1] = r
    BY <1>3 DEF create_record, add_to_wishlist, AddToWishlist
  <2> QED
    BY <2>1, <2>2
<1>4. CASE Save(r)
  <2>1. job[r].row # NoRow
    BY <1>4, NoRowIsNoRow DEF Save, CatInv, TypeOK, Saving, RecordRow, Text
  <2> QED
    BY <1>4, <2>1 DEF Save, CatInv, TypeOK
<1>5. CASE delete_record(r)
  BY <1>5 DEF delete_record, DeleteBibliographicRecord
<1>6. CASE remove_from_wishlist(r) \/ create_rating(r) \/ delete_rating(r) \/ delete_book(r)
  BY <1>6 DEF remove_from_wishlist, RemoveFromWishlist, create_rating, CreateBookRating,
              delete_rating, DeleteBookRating, delete_book, DeleteBook, RatingsKept
<1>7. CASE update_rating(r)
  <2>1. PICK s \in ratings, n \in Stars : UpdateBookRating(s, n)
    BY <1>7 DEF update_rating, Ratings
  <2>2. s \in RatingRow
    BY DEF CatInv, TypeOK
  <2>3. [s EXCEPT !.stars = n].name = s.name /\ [s EXCEPT !.stars = n].copy = s.copy
    BY <2>2 DEF RatingRow
  <2>4. ratings' = (ratings \ {s}) \cup {[s EXCEPT !.stars = n]}
    BY <2>1 DEF UpdateBookRating
  <2>5. UNCHANGED <<record, copies, wishes>>
    BY <1>7 DEF update_rating
  <2> QED
    BY <2>3, <2>4, <2>5
<1>8. CASE GiveUp(r)
  BY <1>8 DEF GiveUp
<1> QED
  BY <1>1, <1>2, <1>3, <1>4, <1>5, <1>6, <1>7, <1>8 DEF Step

\* A committed row of a table, with what it hangs from.
OnRecords ==
  {<<c.record, <<"copy", c.name>>>> : c \in Shelved}
    \cup {<<w.record, <<"wish", w.name>>>> : w \in wishes}

OnCopies == {<<s.copy, s.name>> : s \in {t \in ratings : Settled(t.name)}}

Held == {c.name : c \in Shelved}

LEMMA SpentGrows ==
  ASSUME CatInv, CatInv', NEW r \in Request, Step(r)
  PROVE  /\ Spent \subseteq Spent' /\ Spent' \subseteq Name
         /\ \A x \in Spent : x[1] # r
BY PastIs, PastIsNext, StepsGo DEF Spent

LEMMA RecordsChange ==
  ASSUME CatInv, CatInv', NEW r \in Request, Step(r)
  PROVE  OnRecords' \ OnRecords \subseteq Present' \X ((Tables \X Name) \ (Tables \X Spent))
<1> SUFFICES ASSUME NEW row \in OnRecords', row \notin OnRecords
             PROVE  row \in Present' \X ((Tables \X Name) \ (Tables \X Spent))
  OBVIOUS
<1>1. ASSUME NEW c \in Shelved', row = <<c.record, <<"copy", c.name>>>>
      PROVE  row \in Present' \X ((Tables \X Name) \ (Tables \X Spent))
  <2>1. c \in copies' /\ c.name[1] \in Past'
    BY PastIs, PastIsNext
  <2>2. c.name[1] = r
    <3>1. c \notin Shelved
      BY <1>1 DEF OnRecords
    <3>2. c \notin copies \/ c.name[1] \notin Past
      BY <3>1, PastIs, PastIsNext
    <3> QED
      BY <2>1, <3>2, StepRows, StepsGo
  <2>3. c.record \in Present'
    BY <2>1, PastIs, PastIsNext DEF CatInv, Refs
  <2>4. c.name \in Name /\ c.name \notin Spent
    BY <2>1, <2>2, SpentGrows DEF CatInv, TypeOK, CopyRow
  <2> QED
    BY <1>1, <2>3, <2>4 DEF Tables
<1>2. ASSUME NEW w \in wishes', row = <<w.record, <<"wish", w.name>>>>
      PROVE  row \in Present' \X ((Tables \X Name) \ (Tables \X Spent))
  <2>1. w \notin wishes
    BY <1>2 DEF OnRecords
  <2>2. w.name[1] = r
    BY <2>1, StepRows
  <2>3. w.record \in Present'
    BY PastIs, PastIsNext DEF CatInv, Refs
  <2>4. w.name \in Name /\ w.name \notin Spent
    BY <2>2, SpentGrows DEF CatInv, TypeOK, WishRow
  <2> QED
    BY <1>2, <2>3, <2>4 DEF Tables
<1> QED
  BY <1>1, <1>2 DEF OnRecords

LEMMA RecordsIds ==
  ASSUME CatInv
  PROVE  OfRecords!Ids(OnRecords) \subseteq Tables \X Spent
<1>1. ASSUME NEW c \in Shelved PROVE <<"copy", c.name>> \in Tables \X Spent
  BY PastIs DEF CatInv, TypeOK, CopyRow, Tables
<1>2. ASSUME NEW w \in wishes PROVE <<"wish", w.name>> \in Tables \X Spent
  BY PastIs DEF CatInv, Homes, TypeOK, WishRow, Tables
<1> QED
  BY <1>1, <1>2 DEF OfRecords!Ids, OnRecords

LEMMA RecordsIdsNext ==
  ASSUME CatInv'
  PROVE  OfRecords!Ids(OnRecords)' \subseteq Tables \X Spent'
<1>1. ASSUME NEW c \in Shelved' PROVE <<"copy", c.name>> \in Tables \X Spent'
  BY PastIsNext DEF CatInv, TypeOK, CopyRow, Tables
<1>2. ASSUME NEW w \in wishes' PROVE <<"wish", w.name>> \in Tables \X Spent'
  BY PastIsNext DEF CatInv, Homes, TypeOK, WishRow, Tables
<1> QED
  BY <1>1, <1>2 DEF OfRecords!Ids, OnRecords

LEMMA StepHoldsRecords ==
  ASSUME CatInv, CatInv', NEW r \in Request, Step(r)
  PROVE  OfRecords!Next
<1>1. /\ Tables \X Spent \subseteq Tables \X Spent' /\ Tables \X Spent' \subseteq Tables \X Name
      /\ OfRecords!Ids(OnRecords)' \subseteq Tables \X Spent'
  BY SpentGrows, RecordsIdsNext
<1>2. CASE ~delete_record(r)
  <2>1. Present \subseteq Present' /\ Present' \subseteq Name
    <3>1. \A x \in Stored : x[1] \in Past => x \in Stored' /\ x[1] \in Past'
      BY <1>2, StepRows, StepsGo
    <3> QED
      BY <3>1, PastIs, PastIsNext DEF Stored
  <2> QED
    BY <1>1, <2>1, RecordsChange DEF OfRecords!Next, OfRecords!Change, OnRecords
<1>3. CASE delete_record(r)
  <2>1. PICK x \in Records(r) : DeleteBibliographicRecord(r, x)
    BY <1>3 DEF delete_record
  <2>2. Once(r) /\ copies' = copies /\ pc[r] = "idle"
    BY <1>3 DEF delete_record, Once
  <2>3. x \in Stored /\ x \in Name /\ x[1] # r /\ x[1] \in Past
    <3>1. x \in Stored /\ Sees(r, x)
      BY DEF Records
    <3> QED
      BY <2>2, <3>1, IdleHasNothing, SeenIsPast DEF CatInv, Homes, Stored
  <2>4. Stored' = Stored \ {x}
    BY <2>1, <2>3 DEF DeleteBibliographicRecord, Stored, CatInv, TypeOK
  <2>5. /\ \A y \in Stored : y[1] \in Past' <=> y[1] \in Past
        /\ \A c \in copies : c.name[1] \in Past' <=> c.name[1] \in Past
    BY <2>2, StepsGo, IdleHasNothing
  <2>6. x \in Present /\ Present' = Present \ {x}
    BY <2>3, <2>4, <2>5, PastIs, PastIsNext
  <2>7. Shelved' = Shelved /\ \A c \in Shelved : c.record # x
    BY <2>1, <2>2, <2>5, PastIs, PastIsNext DEF DeleteBibliographicRecord, Unreferenced
  <2>8. wishes' = {w \in wishes : w.record # x}
    BY <2>1 DEF DeleteBibliographicRecord
  <2>9. OnRecords' = {row \in OnRecords : row[1] # x}
    BY <2>7, <2>8 DEF OnRecords
  <2> QED
    BY <1>1, <2>6, <2>9 DEF OfRecords!Next, OfRecords!DropParent, OnRecords
<1> QED
  BY <1>2, <1>3

LEMMA StepHoldsCopies ==
  ASSUME CatInv, CatInv', NEW r \in Request, Step(r)
  PROVE  OfCopies!Next
<1>1. OfCopies!Ids(OnCopies)' \subseteq Spent'
  BY PastIs, PastIsNext DEF OfCopies!Ids, OnCopies, CatInv, TypeOK, RatingRow
<1>2. OnCopies' \ OnCopies \subseteq Held' \X (Name \ Spent)
  <2> SUFFICES ASSUME NEW s \in ratings', s.name[1] \in Past', <<s.copy, s.name>> \notin OnCopies
               PROVE  s.copy \in Held' /\ s.name \in Name \ Spent
    BY PastIs, PastIsNext DEF OnCopies
  <2>1. s.name[1] = r
    <3>1. \A q \in ratings : q.name[1] \in Past => <<q.copy, q.name>> \in OnCopies
      BY PastIs, PastIsNext DEF OnCopies
    <3> QED
      BY <3>1, StepRows, StepsGo
  <2>2. s.name \in Name \ Spent
    BY <2>1, SpentGrows DEF CatInv, TypeOK, RatingRow
  <2>3. PICK c \in copies' : c.name = s.copy
    BY DEF CatInv, Refs
  <2>4. c.name[1] \in Past'
    BY <2>3 DEF CatInv, Refs
  <2>5. c \in Shelved'
    BY <2>4, PastIs, PastIsNext
  <2> QED
    BY <2>2, <2>3, <2>5 DEF Held
<1>3. CASE ~delete_book(r)
  <2>1. Shelved \subseteq Shelved'
    BY <1>3, PastIs, PastIsNext, StepRows, StepsGo
  <2>2. Held \subseteq Held' /\ Held' \subseteq Name
    BY <2>1, PastIs, PastIsNext DEF Held, CatInv, TypeOK, CopyRow
  <2> QED
    BY <1>1, <1>2, <2>2, SpentGrows DEF OfCopies!Next, OfCopies!Change, Held, OnCopies
<1>4. CASE delete_book(r)
  <2>1. PICK c \in Copies(r) : DeleteBook(c)
    BY <1>4 DEF delete_book
  <2>2. Once(r) /\ pc[r] = "idle"
    BY <1>4 DEF delete_book, Once
  <2>3. c \in copies /\ c.name[1] \in Past
    <3>1. c \in copies /\ Sees(r, c.name)
      BY DEF Copies
    <3> QED
      BY <2>2, <3>1, IdleHasNothing, SeenIsPast DEF CatInv, Homes
  <2>4. copies' = copies \ {c} /\ ratings' = {s \in ratings : s.copy # c.name}
    BY <2>1 DEF DeleteBook, RatingsKept
  <2>5. /\ \A d \in copies : d.name[1] \in Past' <=> d.name[1] \in Past
        /\ \A s \in ratings : s.name[1] \in Past' <=> s.name[1] \in Past
    BY <2>2, StepsGo, IdleHasNothing
  <2>6. c \in Shelved /\ Shelved' = Shelved \ {c}
    BY <2>3, <2>4, <2>5, PastIs, PastIsNext
  <2>7. \A d \in Shelved \ {c} : d.name # c.name
    BY <2>3, PastIs, PastIsNext DEF CatInv, NamesDiffer
  <2>8. c.name \in Held /\ Held' = Held \ {c.name}
    BY <2>6, <2>7 DEF Held
  <2>9. OnCopies' = {row \in OnCopies : row[1] # c.name}
    BY <2>4, <2>5, PastIs, PastIsNext DEF OnCopies
  <2> QED
    BY <1>1, <2>8, <2>9, SpentGrows DEF OfCopies!Next, OfCopies!DropParent, Held, OnCopies
<1> QED
  BY <1>3, <1>4

LEMMA StartsHolding ==
  ASSUME CatInv
  PROVE  OfRecords!Init /\ OfCopies!Init
<1>1. Present \subseteq Name /\ Held \subseteq Name /\ Spent \subseteq Name
  BY PastIs DEF Stored, Held, CatInv, TypeOK, CopyRow
<1>2. OnRecords \subseteq Present \X (Tables \X Name)
  <2>1. ASSUME NEW c \in Shelved PROVE c.record \in Present /\ c.name \in Name
    BY PastIs DEF CatInv, Refs, TypeOK, CopyRow
  <2>2. ASSUME NEW w \in wishes PROVE w.record \in Present /\ w.name \in Name
    BY PastIs DEF CatInv, Refs, TypeOK, WishRow
  <2> QED
    BY <2>1, <2>2 DEF OnRecords, Tables
<1>3. OnCopies \subseteq Held \X Name
  <2> SUFFICES ASSUME NEW s \in ratings, s.name[1] \in Past PROVE s.copy \in Held /\ s.name \in Name
    BY PastIs DEF OnCopies
  <2>1. PICK c \in copies : c.name = s.copy
    BY DEF CatInv, Refs
  <2>2. c \in Shelved
    BY <2>1, PastIs DEF CatInv, Refs
  <2> QED
    BY <2>1, <2>2 DEF Held, CatInv, TypeOK, RatingRow
<1>4. OfCopies!Ids(OnCopies) \subseteq Spent
  BY PastIs DEF OfCopies!Ids, OnCopies, CatInv, TypeOK, RatingRow
<1>5. OfRecords!Init
  BY <1>1, <1>2, RecordsIds DEF OfRecords!Init, OnRecords
<1> QED
  BY <1>1, <1>3, <1>4, <1>5 DEF OfCopies!Init, OnCopies, Held

\* What is committed of the catalogue implements rows that hang from records.
THEOREM RecordsHoldAlways == Spec => RecordsHold
<1>1. ASSUME CatInv, CatInv', [Next]_vars
      PROVE  [OfRecords!Next]_(OfRecords!vars)
  <2>1. CASE UNCHANGED vars
    BY <2>1 DEF vars, OfRecords!vars, Present, Stored, Shelved, Settled, Spent
  <2> QED
    BY <1>1, <2>1, StepHoldsRecords DEF Next, Ended
<1>2. Init => OfRecords!Init
  BY InitHolds, StartsHolding
<1> QED
  BY <1>1, <1>2, CatInvHolds, PTL DEF Spec, RecordsHold, OfRecords!Spec

\* And ratings that hang from copies.
THEOREM CopiesHoldAlways == Spec => CopiesHold
<1>1. ASSUME CatInv, CatInv', [Next]_vars
      PROVE  [OfCopies!Next]_(OfCopies!vars)
  <2>1. CASE UNCHANGED vars
    BY <2>1 DEF vars, OfCopies!vars, Shelved, Settled, Spent
  <2> QED
    BY <1>1, <2>1, StepHoldsCopies DEF Next, Ended
<1>2. Init => OfCopies!Init
  BY InitHolds, StartsHolding
<1> QED
  BY <1>1, <1>2, CatInvHolds, PTL DEF Spec, CopiesHold, OfCopies!Spec

=============================================================================
