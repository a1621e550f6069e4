--------------------------- MODULE Library_proofs ---------------------------
(***************************************************************************)
(* Theorems about Library, for any sets of names, members, requests,       *)
(* libraries and backups.                                                  *)
(*                                                                         *)
(* A row is named after the request that made it, which shows its rows     *)
(* when it ends: so a request finds nothing of its own in the tables, and  *)
(* two rows that were ever seen under one name are rows of one table.      *)
(***************************************************************************)
EXTENDS Library, FiniteSetTheorems, TLAPS

\* The request that named a row has ended.
Settled(i) == pc[i[1]] = "done"

\* The rows that are, or may be, in the tables again.
Kept == db \cup (UNION {file[s] : s \in Request})
          \cup {job[s].row : s \in {t \in Request : pc[t] = "saving"}}

\* What a row refers to was there once.
RefsSettled(x) == \A p \in Parents : x.refs[p] # None => Settled(x.refs[p])

NamesOK ==
  /\ Kept \subseteq Rows
  /\ \A x \in Kept : Settled(x.id) /\ RefsSettled(x)
  /\ \A x, y \in Kept : x.id = y.id => x.table = y.table

TablesOK == Unique(db) /\ IsFiniteSet(db) /\ \A x \in db : Refers(db, x)

States == {"idle", "saving", "exporting", "listing", "wiping", "importing", "done"}

RequestsOK ==
  /\ pc \in [From -> States] /\ pc[Earlier] = "done"
  /\ file \in [From -> SUBSET Rows]
  /\ job = [r \in Request |-> job[r]]
  /\ image = [r \in Request |-> image[r]]
  /\ before \in [Request -> SUBSET Request]
  /\ \A r \in Request : \A s \in before[r] : pc[s] = "done"
  /\ \A r \in Request : pc[r] \in {"idle", "done"} => job[r] = NoJob
  /\ \A r \in Request : pc[r] = "saving" => job[r].row.table \in Place

FileOK(f) == \A x \in f : x.table \notin Plans \cup {"cycle"}

\* Pages are read from the start of a table, or from where one may end.
OffsetOK(n) == n \in Nat /\ (n = 0 \/ PageSize <= n)

\* The tables that have been read, and nothing yet of those after them.
PagesOK(r) ==
  /\ pc[r] \notin {"exporting", "done"} => file[r] = {}
  /\ pc[r] = "exporting" =>
       /\ job[r] = [kind |-> "export", at |-> job[r].at, offset |-> job[r].offset]
       /\ job[r].at \in 1 .. (Len(ReadOrder) + 1) /\ OffsetOK(job[r].offset)
       /\ job[r].offset = 0 \/ (job[r].at <= Len(ReadOrder) /\ ReadOrder[job[r].at] \in Paged)
       /\ \A x \in file[r] : \E i \in 1 .. job[r].at : i <= Len(ReadOrder) /\ x.table = ReadOrder[i]
       /\ job[r].offset = 0 => \A x \in file[r] : \E i \in 1 .. (job[r].at - 1) : x.table = ReadOrder[i]

\* An undisturbed backup has the tables as they still are, and of the one that
\* it is reading those rows that come first.
BackupOK(r) ==
  pc[r] = "exporting" /\ Alone(r) /\ (\A t \in Paged : Ordered(Of(db, t))) =>
    /\ \A i \in 1 .. (job[r].at - 1) :
         ReadOrder[i] # "removed" => Of(file[r], ReadOrder[i]) = Joined(ReadOrder[i])
    /\ \A t \in Paged : job[r].at <= Len(ReadOrder) /\ ReadOrder[job[r].at] = t =>
         Of(file[r], t) \in Firsts(Of(db, t), job[r].offset)

\* What an import has restored.
Passed(j) == j.file \ j.todo

\* The row has become something, and so has what it refers to.
Named(j, x) ==
  x.id \in DOMAIN j.to /\ \A p \in Parents : x.refs[p] # None => x.refs[p] \in DOMAIN j.to

Brought(j, x) ==
  /\ Named(j, x)
  /\ \E y \in j.added \cup j.found : /\ Became(j.to, x, y)
                                     /\ x.table # "record" => y.refs = Mapped(x, j.to)

\* A record that lost the race for its ISBN has a name that no row has.
Missed(r, j, x) ==
  /\ x.table = "record" /\ x.data # "none"
  /\ Named(j, x) /\ j.to[x.id][1] = r /\ \A y \in j.added : y.id # j.to[x.id]
  /\ \E y \in j.found : y.table = "record" /\ y.data = x.data

\* A row that was there, or that the import has added.
Mine(r, i) == i[1] = r \/ Settled(i)

\* A name that the import has given.
Given(r, j, i) == i[1] = r /\ i[2] \in Nat /\ i[2] < j.next

\* The row z of the library has what y has in an index.
Piles(z, table, refs, key) == z.table = table /\ z.table # "record" /\ z.refs = refs /\ z.key = key

Whole(r, j) ==
  /\ \A x \in Passed(j) :
       \/ x.table = "removed"
       \/ x.table = "wish" /\ ~Has(j.file, "record", x.refs["record"])
       \/ Brought(j, x) \/ Missed(r, j, x)
  /\ \A y \in j.added : \E x \in Passed(j) : Brought(j, x) /\ Became(j.to, x, y)

Restoring(r, j) ==
  /\ j = [kind |-> "import", file |-> j.file, known |-> j.known, seen |-> j.seen, next |-> j.next,
          todo |-> j.todo, flush |-> j.flush, added |-> j.added, found |-> j.found, to |-> j.to]
  /\ j.file \subseteq Rows /\ FileOK(j.file) /\ Valid(j.file)
  /\ j.todo \subseteq {x \in j.file : x.table \in Imported}
  /\ j.next \in Nat
  /\ j.added \subseteq Rows /\ Unique(j.added) /\ IsFiniteSet(j.added)
  /\ \A y \in j.added : /\ Given(r, j, y.id)
                        /\ \A p \in Parents : y.refs[p] # None => Mine(r, y.refs[p])
  /\ \A y \in j.found : /\ y \in Rows /\ y.table # "removed"
                        /\ y \in j.added \/ (Settled(y.id) /\ RefsSettled(y))
  /\ \A i \in DOMAIN j.to : /\ j.to[i] \in Id /\ (Given(r, j, j.to[i]) \/ Settled(j.to[i]))
                            /\ \E x \in Passed(j) : x.id = i
  /\ \A x \in Passed(j) : x.table \notin {"removed", "wish"} => Named(j, x)
  /\ \A x \in j.flush :
       /\ x \in j.todo /\ Turn(x, j.todo) /\ ~LeftOut(x, j.to)
       /\ \A z \in j.seen : ~Piles(z, x.table, Mapped(x, j.to), x.key)
  /\ \A y \in j.added, z \in j.seen : ~Piles(z, y.table, y.refs, y.key)
  /\ Unique(j.file) => Whole(r, j)

\* What an undisturbed import has found is still there.
ImportOK(r) ==
  pc[r] = "importing" =>
    /\ Restoring(r, job[r])
    /\ Alone(r) => job[r].found \subseteq db \cup job[r].added

\* The tables of which a wipe has left nothing after n statements.
SweptBy(n) ==
  {t \in Table \ {"history"} :
     \E i \in 1 .. n : t = WipeOrder[i] \/ t \in Cascades(WipeOrder[i]) \cup Restricts(WipeOrder[i])}

\* No row that is left refers to one that is gone, but copies to places.
CutOff(gone) ==
  \A x \in db : x.table # "history" =>
    \A p \in Parents :
      <<p, x.refs[p]>> \in gone => (x.table = "book" /\ p \in Place) \/ Tag(x) \in gone

Wiping(j) ==
  /\ j = [kind |-> "wipe", at |-> j.at, offset |-> j.offset, listed |-> j.listed,
          gone |-> j.gone, seen |-> j.seen]
  /\ j.at \in 1 .. (Len(WipeOrder) + 1) /\ OffsetOK(j.offset)
  /\ j.listed \subseteq Id /\ j.gone \subseteq Table \X Id
  /\ \A g \in j.gone : Settled(g[2])
  /\ \A g \in j.seen : g[1] \in SweptBy(j.at - 1) => g \in j.gone
  /\ CutOff(j.gone)

WipeOK(r) ==
  pc[r] \in {"listing", "wiping"} =>
    /\ Wiping(job[r])
    /\ pc[r] = "listing" => job[r].at = 1 /\ job[r].gone = {}

\* An undisturbed wipe lists the copies as they still are, and finds their
\* history.
ListOK(r) ==
  pc[r] \in {"listing", "wiping"} /\ Alone(r) /\ Ordered(Of(db, "book")) =>
    /\ pc[r] = "listing" =>
         \E D \in Firsts(Of(db, "book"), job[r].offset) : job[r].listed = {x.id : x \in D}
    /\ pc[r] = "wiping" => \A x \in db : x.table = "book" => x.id \in job[r].listed
    /\ pc[r] = "wiping" /\ job[r].at > 1 =>
         \A x \in db : x.table = "history" /\ x.refs["book"] \in job[r].listed => Tag(x) \in job[r].gone

LibInv ==
  /\ NamesOK
  /\ TablesOK
  /\ RequestsOK
  /\ \A s \in From : FileOK(file[s])
  /\ \A r \in Request : PagesOK(r) /\ BackupOK(r) /\ ImportOK(r) /\ WipeOK(r) /\ ListOK(r)

----------------------------------------------------------------------------
(* Rows *)

\* What a row is made of.
LEMMA RowIs ==
  ASSUME NEW x \in Rows
  PROVE  /\ x.table \in Table /\ x.id \in Id
         /\ x.refs \in [Parents -> Id \cup {None}]
         /\ x.key \in Index \cup Member \cup From \cup Position
         /\ x.data \in Index \cup Member \cup {"none", "free", "unknown", "out", "back", "recent", "expired"}
         /\ x = [table |-> x.table, id |-> x.id, refs |-> x.refs, key |-> x.key, data |-> x.data]
         /\ \A p \in Parents : x.refs[p] # None => p \in Columns(x.table)
         /\ x.table \in Place => x.key \in Index
         /\ x.table = "removed" => x.key \in Member /\ x.id = <<Earlier, x.key>>
         /\ x.table # "removed" => x.id[2] \in Nat
BY DEF Rows

\* A row with these parts, which is no snapshot of a member.
LEMMA RowIn ==
  ASSUME NEW t \in Table, t # "removed",
         NEW id \in Id, id[2] \in Nat,
         NEW refs \in [Parents -> Id \cup {None}],
         \A p \in Parents : refs[p] # None => p \in Columns(t),
         NEW key \in Index \cup Member \cup From \cup Position, t \in Place => key \in Index,
         NEW data \in Index \cup Member \cup {"none", "free", "unknown", "out", "back", "recent", "expired"}
  PROVE  /\ Row(t, id, refs, key, data) \in Rows
         /\ Row(t, id, refs, key, data).table = t
         /\ Row(t, id, refs, key, data).id = id
         /\ Row(t, id, refs, key, data).refs = refs
         /\ Row(t, id, refs, key, data).key = key
         /\ Row(t, id, refs, key, data).data = data
<1>1. PICK x \in [table : Table, id : Id, refs : [Parents -> Id \cup {None}],
                  key : Index \cup Member \cup From \cup Position,
                  data : Index \cup Member \cup {"none", "free", "unknown", "out", "back", "recent", "expired"}] :
        x = Row(t, id, refs, key, data)
  BY DEF Row
<1>2. x.table = t /\ x.id = id /\ x.refs = refs /\ x.key = key /\ x.data = data
  BY <1>1 DEF Row
<1>3. x \in Rows
  BY <1>2 DEF Rows
<1> QED
  BY <1>1, <1>2, <1>3

\* The names that requests give.
LEMMA IdIn ==
  ASSUME NEW s \in From, NEW n \in Nat
  PROVE  /\ <<s, n>> \in Id /\ <<s, n>>[1] = s /\ <<s, n>>[2] = n
         /\ <<s, n>> # None
BY NoneIsNoId DEF Id

LEMMA IdIs ==
  ASSUME NEW i \in Id
  PROVE  i[1] \in From /\ i # None
BY NoneIsNoId DEF Id

\* The columns of a table are of the tables that are restored before it.
LEMMA ColumnsComeFirst ==
  ASSUME NEW i \in DOMAIN ImportOrder, NEW p \in Columns(ImportOrder[i])
  PROVE  \E k \in 1 .. (i - 1) : ImportOrder[k] = p
<1>1. i \in 1 .. 10
  BY DEF ImportOrder
<1>2. /\ ImportOrder[1] = "record" /\ ImportOrder[2] = "room" /\ ImportOrder[3] = "bookcase"
      /\ ImportOrder[4] = "section" /\ ImportOrder[5] = "shelf" /\ ImportOrder[6] = "book"
      /\ ImportOrder[7] = "read" /\ ImportOrder[8] = "loan" /\ ImportOrder[9] = "history"
      /\ ImportOrder[10] = "wish"
  BY DEF ImportOrder
<1>3. \/ i = 3 /\ p = "room"
      \/ i = 4 /\ p = "bookcase"
      \/ i = 5 /\ p = "section"
      \/ i = 6 /\ p \in {"record", "room", "bookcase", "section", "shelf"}
      \/ i \in {7, 8, 9} /\ p = "book"
      \/ i = 10 /\ p = "record"
  BY <1>1, <1>2 DEF Columns, Place
<1>4. i > 2 /\ (i > 6 => p = "book" \/ (i = 10 /\ p = "record"))
  BY <1>3
<1> QED
  BY <1>1, <1>2, <1>3, <1>4

----------------------------------------------------------------------------
(* What a step does, to the tables and to the request that takes it *)

\* The row was there, or is the snapshot of a member.
Kin(x) == x.table = "removed" \/ \E y \in Kept : y.id = x.id /\ y.table = x.table

\* The request that ends now has named it.
New(i) == pc[i[1]] # "done" /\ pc'[i[1]] = "done"

\* What a row refers to is what it did, or was deleted by no wipe.
Stood(x, p) ==
  \/ x.table = "history" \/ (x.table = "book" /\ p \in Place)
  \/ Has(Firm, p, x.refs[p]) \/ New(x.refs[p])
  \/ \E y \in db : Tag(y) = Tag(x) /\ y.table # "history" /\ y.refs[p] = x.refs[p]

Keeps ==
  /\ db' \subseteq Rows /\ Unique(db') /\ IsFiniteSet(db')
  /\ \A x \in db' : Refers(db', x)
  /\ \A x \in db' : Kin(x) \/ New(x.id)
  /\ \A x \in db' : \A p \in Parents : x.refs[p] # None => Settled(x.refs[p]) \/ New(x.refs[p])
  /\ \A x \in db' : \A p \in Parents : x.refs[p] # None => Stood(x, p)

\* r moves, and no other request.
Frame(r) ==
  /\ pc[r] # "done"
  /\ pc' \in [From -> States] /\ pc'[r] # "idle"
  /\ \A s \in From \ {r} : pc'[s] = pc[s] /\ file'[s] = file[s]
  /\ \A s \in Request \ {r} : before'[s] = before[s] /\ job'[s] = job[s]
  /\ IF pc[r] = "idle" THEN before'[r] = {s \in Request : pc[s] = "done"} ELSE before'[r] = before[r]
  /\ file' \in [From -> SUBSET Rows]
  /\ job' = [s \in Request |-> job'[s]]
  /\ image' = [s \in Request |-> image'[s]]
  /\ before' \in [Request -> SUBSET Request]

\* What r saves is a row that it has read.
Edited(x) ==
  /\ x \in Rows /\ x.table \in Place /\ RefsSettled(x)
  /\ \E y \in db : y.id = x.id /\ y.table = x.table

Own(r) ==
  /\ pc'[r] = "done" => job'[r] = NoJob
  /\ pc'[r] = "saving" => Edited(job'[r].row)
  /\ file'[r] \subseteq file[r] \cup db
  /\ FileOK(file'[r])
  /\ PagesOK(r)' /\ BackupOK(r)' /\ ImportOK(r)' /\ WipeOK(r)' /\ ListOK(r)'

\* Every row that may be there again keeps its name.
LEMMA NamesStay ==
  ASSUME LibInv, Keeps,
         \A s \in From : pc[s] = "done" => pc'[s] = "done",
         \A x \in Kept' : x \in db' \/ x \in Kept \/ (x \in Rows /\ Kin(x) /\ RefsSettled(x))
  PROVE  NamesOK'
<1>1. \A i \in Id : Settled(i) \/ New(i) => pc'[i[1]] = "done"
  BY IdIs DEF Settled, New
<1>2. pc[Earlier] = "done"
  BY DEF LibInv, RequestsOK
<1>3. Kept \subseteq Rows /\ db \subseteq Kept
  BY DEF LibInv, NamesOK, Kept
<1>4. ASSUME NEW x \in Kept'
      PROVE  /\ x \in Rows
             /\ Kin(x) \/ (New(x.id) /\ x \in db')
             /\ \A p \in Parents : x.refs[p] # None => Settled(x.refs[p]) \/ New(x.refs[p])
  <2>1. CASE x \in db'
    BY <2>1 DEF Keeps
  <2>2. CASE x \in Kept
    BY <2>2, <1>3 DEF Kin, LibInv, NamesOK, RefsSettled
  <2>3. CASE x \in Rows /\ Kin(x) /\ RefsSettled(x)
    BY <2>3 DEF RefsSettled
  <2> QED
    BY <1>4, <2>1, <2>2, <2>3
<1>5. ASSUME NEW x \in Kept', Kin(x)
      PROVE  Settled(x.id)
  <2>1. x \in Rows
    BY <1>4
  <2>2. CASE x.table = "removed"
    <3>1. x.id = <<Earlier, x.key>>
      BY <2>1, <2>2, RowIs
    <3> QED
      BY <3>1, <1>2 DEF Settled
  <2>3. CASE x.table # "removed"
    BY <2>3, <1>5 DEF Kin, LibInv, NamesOK
  <2> QED
    BY <2>2, <2>3
<1>6. Kept' \subseteq Rows
  BY <1>4
<1>7. ASSUME NEW x \in Kept'
      PROVE  /\ pc'[x.id[1]] = "done"
             /\ \A p \in Parents : x.refs[p] # None => pc'[x.refs[p][1]] = "done"
  <2>1. x \in Rows
    BY <1>4
  <2>2. x.id \in Id /\ \A p \in Parents : x.refs[p] # None => x.refs[p] \in Id
    BY <2>1, RowIs
  <2>3. Settled(x.id) \/ New(x.id)
    BY <1>4, <1>5
  <2> QED
    BY <1>1, <1>4, <2>2, <2>3
<1>8. ASSUME NEW x \in Kept', NEW y \in Kept', x.id = y.id
      PROVE  x.table = y.table
  <2>1. CASE Kin(x) /\ Kin(y)
    <3>1. x \in Rows /\ y \in Rows
      BY <1>4
    <3>2. CASE x.table = "removed" /\ y.table # "removed"
      <4>1. x.id[2] \in Member /\ y.id[2] \in Nat
        BY <3>1, <3>2, RowIs
      <4> QED
        BY <4>1, <1>8, MemberIsNoNumber
    <3>3. CASE x.table # "removed" /\ y.table = "removed"
      <4>1. y.id[2] \in Member /\ x.id[2] \in Nat
        BY <3>1, <3>3, RowIs
      <4> QED
        BY <4>1, <1>8, MemberIsNoNumber
    <3>4. CASE x.table # "removed" /\ y.table # "removed"
      BY <2>1, <3>4, <1>8 DEF Kin, LibInv, NamesOK
    <3> QED
      BY <3>2, <3>3, <3>4
  <2>2. CASE ~Kin(x) /\ ~Kin(y)
    <3>1. x \in db' /\ y \in db'
      BY <1>4, <2>2
    <3> QED
      BY <3>1, <1>8 DEF Keeps, Unique
  <2>3. CASE Kin(x) /\ ~Kin(y)
    BY <1>4, <1>5, <2>3, <1>8 DEF Settled, New
  <2>4. CASE ~Kin(x) /\ Kin(y)
    BY <1>4, <1>5, <2>4, <1>8 DEF Settled, New
  <2> QED
    BY <2>1, <2>2, <2>3, <2>4
<1> QED
  BY <1>6, <1>7, <1>8 DEF NamesOK, Settled, RefsSettled

\* The wipe of another request has lost nothing that it knows.
LEMMA WipeStays ==
  ASSUME LibInv, Keeps, NEW s \in Request,
         pc'[s] = pc[s], job'[s] = job[s],
         \A t \in From : pc[t] = "done" => pc'[t] = "done"
  PROVE  WipeOK(s)'
<1> SUFFICES ASSUME pc[s] \in {"listing", "wiping"}
             PROVE  Wiping(job[s])' /\ (pc[s] = "listing" => job[s].at = 1 /\ job[s].gone = {})
  BY DEF WipeOK
<1>1. PICK j : j = job[s]
  OBVIOUS
<1>2. Wiping(j) /\ (pc[s] = "listing" => j.at = 1 /\ j.gone = {})
  BY <1>1 DEF LibInv, WipeOK
<1>3. ASSUME NEW g \in j.gone
      PROVE  Settled(g[2]) /\ pc'[g[2][1]] = "done"
  <2>1. g[2] \in Id /\ Settled(g[2])
    BY <1>2 DEF Wiping
  <2> QED
    BY <2>1, IdIs DEF Settled
<1>4. \A y \in Firm : Tag(y) \notin j.gone
  <2>1. CASE pc[s] = "wiping"
    <3>1. j.gone \subseteq Held
      BY <2>1, <1>1 DEF Held
    <3> QED
      BY <3>1 DEF Firm
  <2>2. CASE pc[s] = "listing"
    BY <2>2, <1>2
  <2> QED
    BY <2>1, <2>2
<1>5. ASSUME NEW x \in db', x.table # "history", NEW p \in Parents, <<p, x.refs[p]>> \in j.gone
      PROVE  (x.table = "book" /\ p \in Place) \/ Tag(x) \in j.gone
  <2>1. x.refs[p] \in Id /\ Settled(x.refs[p])
    BY <1>2, <1>3, <1>5 DEF Wiping
  <2>2. Stood(x, p)
    BY <1>5, <2>1, IdIs DEF Keeps
  <2>3. ~Has(Firm, p, x.refs[p])
    BY <1>4, <1>5 DEF Has, Tag
  <2>4. ~New(x.refs[p])
    BY <2>1 DEF New, Settled
  <2>5. CASE \E y \in db : Tag(y) = Tag(x) /\ y.table # "history" /\ y.refs[p] = x.refs[p]
    <3>1. PICK y \in db : Tag(y) = Tag(x) /\ y.table # "history" /\ y.refs[p] = x.refs[p]
      BY <2>5
    <3>2. (y.table = "book" /\ p \in Place) \/ Tag(y) \in j.gone
      BY <3>1, <1>2, <1>5 DEF Wiping, CutOff
    <3> QED
      BY <3>1, <3>2 DEF Tag
  <2> QED
    BY <1>5, <2>2, <2>3, <2>4, <2>5 DEF Stood
<1>6. CutOff(j.gone)'
  BY <1>1, <1>5 DEF CutOff
<1>7. Wiping(j)'
  BY <1>1, <1>2, <1>3, <1>6 DEF Wiping, Settled
<1> QED
  BY <1>1, <1>2, <1>7 DEF Wiping

\* So does the import of another request what it has restored.
LEMMA RestoringStays ==
  ASSUME LibInv, NEW s \in Request, NEW j, Restoring(s, j),
         \A t \in From : pc[t] = "done" => pc'[t] = "done"
  PROVE  Restoring(s, j)'
<1>1. \A i \in Id : Settled(i) => pc'[i[1]] = "done"
  BY IdIs DEF Settled
<1>2. ASSUME NEW y \in j.added, NEW p \in Parents, y.refs[p] # None
      PROVE  y.refs[p][1] = s \/ pc'[y.refs[p][1]] = "done"
  <2>1. y.refs[p] \in Id
    BY <1>2, RowIs DEF Restoring
  <2> QED
    BY <1>1, <1>2, <2>1 DEF Restoring, Mine
<1>3. ASSUME NEW i \in DOMAIN j.to
      PROVE  Given(s, j, j.to[i]) \/ pc'[j.to[i][1]] = "done"
  BY <1>1 DEF Restoring
<1>4. ASSUME NEW y \in j.found
      PROVE  \/ y \in j.added
             \/ /\ pc'[y.id[1]] = "done"
                /\ \A p \in Parents : y.refs[p] # None => pc'[y.refs[p][1]] = "done"
  <2>1. y \in Rows
    BY DEF Restoring
  <2>2. y.id \in Id /\ \A p \in Parents : y.refs[p] # None => y.refs[p] \in Id
    BY <2>1, RowIs
  <2> QED
    BY <1>1, <2>2 DEF Restoring, RefsSettled
<1> QED
  BY <1>2, <1>3, <1>4 DEF Restoring, Mine, Settled, RefsSettled

\* A request that is in hand is overlapped by the step of another.
LEMMA Overlapped ==
  ASSUME LibInv, NEW r \in Request, Frame(r), NEW s \in Request \ {r}, pc[s] \notin {"idle", "done"}
  PROVE  ~Alone(s)'
<1>1. pc'[s] = pc[s] /\ before'[s] = before[s]
  BY DEF Frame, From
<1>2. r \notin before[s]
  BY DEF LibInv, RequestsOK, Frame
<1>3. s \notin before'[r]
  <2>1. CASE pc[r] = "idle"
    BY <2>1 DEF Frame
  <2>2. CASE pc[r] # "idle"
    BY <2>2 DEF Frame, LibInv, RequestsOK
  <2> QED
    BY <2>1, <2>2
<1>4. pc'[r] # "idle"
  BY DEF Frame
<1>5. Overlap(s, r)'
  BY <1>1, <1>2, <1>3, <1>4 DEF Overlap
<1> QED
  BY <1>5 DEF Alone

LEMMA StepKeeps ==
  ASSUME LibInv, NEW r \in Request, Frame(r), Keeps, Own(r)
  PROVE  LibInv'
<1>1. r \in From /\ r # Earlier
  BY EarlierIsNoRequest DEF From
<1>2. \A s \in From : pc[s] = "done" => pc'[s] = "done"
  BY DEF Frame
<1>3. \A s \in Request \ {r} : s \in From
  BY DEF From
<1>4. NamesOK'
  <2>1. ASSUME NEW x \in Kept'
        PROVE  x \in db' \/ x \in Kept \/ (x \in Rows /\ Kin(x) /\ RefsSettled(x))
    <3>1. CASE \E s \in Request : x \in file'[s]
      BY <3>1, <1>3 DEF Kept, Frame, Own
    <3>2. CASE \E s \in Request : pc'[s] = "saving" /\ x = job'[s].row
      <4>1. PICK s \in Request : pc'[s] = "saving" /\ x = job'[s].row
        BY <3>2
      <4>2. CASE s = r
        BY <4>1, <4>2 DEF Own, Edited, Kin, Kept
      <4>3. CASE s # r
        BY <4>1, <4>3, <1>3 DEF Frame, Kept
      <4> QED
        BY <4>2, <4>3
    <3> QED
      BY <2>1, <3>1, <3>2 DEF Kept
  <2> QED
    BY <2>1, <1>2, NamesStay
<1>5. TablesOK'
  BY DEF TablesOK, Keeps
<1>6. RequestsOK'
  <2>1. pc'[Earlier] = "done"
    BY <1>1, <1>2 DEF LibInv, RequestsOK, From
  <2>2. ASSUME NEW t \in Request, NEW s \in before'[t]
        PROVE  pc'[s] = "done"
    <3>1. pc[s] = "done"
      BY <2>2 DEF Frame, LibInv, RequestsOK
    <3>2. s \in From
      BY <2>2 DEF Frame, From
    <3> QED
      BY <3>1, <3>2, <1>2
  <2>3. ASSUME NEW t \in Request, pc'[t] \in {"idle", "done"}
        PROVE  job'[t] = NoJob
    BY <2>3, <1>3 DEF Frame, Own, LibInv, RequestsOK
  <2>4. ASSUME NEW t \in Request, pc'[t] = "saving"
        PROVE  job'[t].row.table \in Place
    BY <2>4, <1>3 DEF Frame, Own, Edited, LibInv, RequestsOK
  <2> QED
    BY <2>1, <2>2, <2>3, <2>4 DEF RequestsOK, Frame
<1>7. \A s \in From : FileOK(file'[s])
  BY DEF Frame, Own, LibInv
<1>8. ASSUME NEW s \in Request \ {r}
      PROVE  PagesOK(s)' /\ BackupOK(s)' /\ ImportOK(s)' /\ WipeOK(s)' /\ ListOK(s)'
  <2>1. /\ pc'[s] = pc[s] /\ before'[s] = before[s]
        /\ file'[s] = file[s] /\ job'[s] = job[s]
    BY <1>3 DEF Frame
  <2>2. PagesOK(s)'
    BY <2>1 DEF PagesOK, LibInv
  <2>3. pc[s] \notin {"idle", "done"} => ~Alone(s)'
    BY Overlapped
  <2>4. BackupOK(s)' /\ ListOK(s)'
    BY <2>1, <2>3 DEF BackupOK, ListOK
  <2>5. ImportOK(s)'
    <3>1. SUFFICES ASSUME pc[s] = "importing"
                   PROVE  Restoring(s, job[s])'
      BY <2>1, <2>3 DEF ImportOK
    <3>2. PICK j : j = job[s]
      OBVIOUS
    <3>3. Restoring(s, j)
      BY <3>1, <3>2 DEF LibInv, ImportOK
    <3>4. Restoring(s, j)'
      BY <3>3, <1>2, RestoringStays
    <3>5. j = job'[s]
      BY <2>1, <3>2
    <3> QED
      BY <3>4, <3>5 DEF Restoring, Given, Passed, Named, Whole, Brought, Missed
  <2>6. WipeOK(s)'
    BY <2>1, <1>2, WipeStays
  <2> QED
    BY <2>2, <2>4, <2>5, <2>6
<1> QED
  BY <1>4, <1>5, <1>6, <1>7, <1>8 DEF LibInv, Own

\* Time passes, and takes nothing but snapshots of members.
LEMMA TimeKeeps ==
  ASSUME LibInv, Keeps, UNCHANGED <<file, pc, job, image, before>>,
         \A x : x.table # "removed" => (x \in db' <=> x \in db)
  PROVE  LibInv'
<1>1. file' = file /\ pc' = pc /\ job' = job /\ image' = image /\ before' = before
  OBVIOUS
<1>2. NamesOK'
  <2>1. \A x \in Kept' : x \in db' \/ x \in Kept
    BY <1>1 DEF Kept
  <2> QED
    BY <1>1, <2>1, NamesStay
<1>3. TablesOK'
  BY DEF TablesOK, Keeps
<1>4. RequestsOK'
  BY <1>1 DEF RequestsOK, LibInv
<1>5. \A s \in From : FileOK(file'[s])
  BY <1>1 DEF LibInv
<1>6. \A s \in Request : Alone(s)' <=> Alone(s)
  BY <1>1 DEF Alone, Overlap
<1>7. ASSUME NEW t, t # "removed"
      PROVE  Of(db, t)' = Of(db, t)
  BY <1>7 DEF Of
<1>8. ASSUME NEW s \in Request
      PROVE  PagesOK(s)' /\ WipeOK(s)'
  <2>1. WipeOK(s)'
    BY <1>1, WipeStays
  <2>2. PagesOK(s)
    BY DEF LibInv
  <2>3. PagesOK(s)'
    BY <1>1, <2>2 DEF PagesOK
  <2> QED
    BY <2>1, <2>3
<1>9. ASSUME NEW s \in Request
      PROVE  ImportOK(s)'
  <2>1. SUFFICES ASSUME pc[s] = "importing"
                 PROVE  /\ Restoring(s, job[s])'
                        /\ Alone(s) => job[s].found \subseteq db' \cup job[s].added
    BY <1>1, <1>6 DEF ImportOK
  <2>2. PICK j : j = job[s]
    OBVIOUS
  <2>3. Restoring(s, j) /\ (Alone(s) => j.found \subseteq db \cup j.added)
    BY <2>1, <2>2 DEF LibInv, ImportOK
  <2>4. Restoring(s, j)'
    BY <2>3, <1>1, RestoringStays
  <2>5. j = job'[s]
    BY <1>1, <2>2
  <2>6. Restoring(s, job[s])'
    BY <2>4, <2>5 DEF Restoring, Given, Passed, Named, Whole, Brought, Missed
  <2>7. \A y \in j.found : y.table # "removed"
    BY <2>3 DEF Restoring
  <2> QED
    BY <2>2, <2>3, <2>6, <2>7
<1>10. ASSUME NEW s \in Request
       PROVE  BackupOK(s)'
  <2>1. \A i : Has(db', "book", i) <=> Has(db, "book", i)
    BY DEF Has
  <2>2. ASSUME NEW t, t # "removed"
        PROVE  Joined(t)' = Joined(t)
    BY <1>7, <2>1, <2>2 DEF Joined
  <2>3. \A t \in Paged : t # "removed"
    BY DEF Paged, Place
  <2>4. \A t \in Paged : Ordered(Of(db, t))' <=> Ordered(Of(db, t))
    BY <1>7, <2>3 DEF Ordered, OrderedBy
  <2>5. \A n : \A t \in Paged : Firsts(Of(db, t), n)' = Firsts(Of(db, t), n)
    BY <1>7, <2>3 DEF Firsts, OrderedBy
  <2> QED
    BY <1>1, <1>6, <2>2, <2>4, <2>5 DEF BackupOK, LibInv, Of
<1>11. ASSUME NEW s \in Request
       PROVE  ListOK(s)'
  <2>1. Of(db, "book")' = Of(db, "book")
    BY <1>7
  <2>2. Ordered(Of(db, "book"))' <=> Ordered(Of(db, "book"))
    BY <2>1 DEF Ordered, OrderedBy
  <2>3. \A n : Firsts(Of(db, "book"), n)' = Firsts(Of(db, "book"), n)
    BY <2>1 DEF Firsts, OrderedBy
  <2> QED
    BY <1>1, <1>6, <2>2, <2>3 DEF ListOK, LibInv, Tag
<1> QED
  BY <1>2, <1>3, <1>4, <1>5, <1>8, <1>9, <1>10, <1>11 DEF LibInv

----------------------------------------------------------------------------
(* How requests begin and end *)

\* A few rows more are still finitely many.
LEMMA FewMore ==
  ASSUME NEW S, IsFiniteSet(S), NEW a, NEW b, NEW T, T \subseteq S \cup {a, b}
  PROVE  IsFiniteSet(T)
<1>1. IsFiniteSet(S \cup {a})
  BY FS_AddElement
<1>2. IsFiniteSet((S \cup {a}) \cup {b})
  BY <1>1, FS_AddElement
<1>3. T \in SUBSET ((S \cup {a}) \cup {b})
  OBVIOUS
<1> QED
  BY <1>2, <1>3, FS_Subset

\* Rows that are there refer to what they did.
LEMMA StoodBefore ==
  ASSUME NEW x \in db, NEW p
  PROVE  Stood(x, p)
BY DEF Stood

LEMMA SameTables ==
  ASSUME LibInv, db' = db
  PROVE  Keeps
<1>1. db \subseteq Kept /\ Kept \subseteq Rows
  BY DEF LibInv, NamesOK, Kept
<1>2. \A x \in db : Kin(x) /\ RefsSettled(x)
  BY <1>1 DEF Kin, LibInv, NamesOK
<1> QED
  BY <1>1, <1>2, StoodBefore DEF Keeps, LibInv, TablesOK, RefsSettled

LEMMA NothingIsOK == FileOK({})
BY DEF FileOK

LEMMA OnceOwn ==
  ASSUME LibInv, NEW r \in Request, Once(r)
  PROVE  Frame(r) /\ Own(r)
<1>1. r \in From
  BY DEF From
<1>2. /\ pc[r] = "idle" /\ pc' = [pc EXCEPT ![r] = "done"]
      /\ job' = [job EXCEPT ![r] = NoJob]
      /\ before' = [before EXCEPT ![r] = {s \in Request : pc[s] = "done"}]
      /\ file' = file /\ image' = image
  BY DEF Once, Began, Ends
<1>3. /\ pc \in [From -> States] /\ file \in [From -> SUBSET Rows]
      /\ job = [s \in Request |-> job[s]] /\ image = [s \in Request |-> image[s]]
      /\ before \in [Request -> SUBSET Request]
  BY DEF LibInv, RequestsOK
<1>4. file[r] = {} /\ FileOK(file[r])
  BY <1>1, <1>2 DEF LibInv, PagesOK
<1>5. pc'[r] = "done" /\ job'[r] = NoJob /\ pc' \in [From -> States]
  BY <1>1, <1>2, <1>3 DEF States
<1>6. \A s \in From \ {r} : pc'[s] = pc[s]
  BY <1>2, <1>3
<1>7. \A s \in Request \ {r} : before'[s] = before[s] /\ job'[s] = job[s]
  BY <1>2, <1>3
<1>8. before'[r] = {s \in Request : pc[s] = "done"} /\ before' \in [Request -> SUBSET Request]
  BY <1>2, <1>3
<1>9. job' = [s \in Request |-> job'[s]]
  BY <1>2, <1>3
<1>10. Frame(r)
  BY <1>2, <1>3, <1>5, <1>6, <1>7, <1>8, <1>9 DEF Frame
<1> QED
  BY <1>2, <1>4, <1>5, <1>10 DEF Own, PagesOK, BackupOK, ImportOK, WipeOK, ListOK

\* Before anything has been read, nothing comes first.
LEMMA NoneFirst ==
  ASSUME NEW T, IsFiniteSet(T)
  PROVE  {} \in Firsts(T, 0)
<1>1. Cardinality({}) = 0 /\ Cardinality(T) \in Nat
  BY FS_EmptySet, FS_CardinalityType
<1> QED
  BY <1>1 DEF Firsts

LEMMA StartsOwn ==
  ASSUME LibInv, NEW r \in Request, NEW state \in States \ {"idle", "done"}, NEW j,
         Starts(r, state, j),
         state = "saving" => Edited(j.row),
         state = "exporting" => j = [kind |-> "export", at |-> 1, offset |-> 0],
         state = "importing" => Restoring(r, j)' /\ j.found = {},
         state \in {"listing", "wiping"} => WipeOK(r)' /\ ListOK(r)'
  PROVE  Frame(r) /\ Keeps /\ Own(r)
<1>1. r \in From
  BY DEF From
<1>2. /\ pc[r] = "idle" /\ pc' = [pc EXCEPT ![r] = state]
      /\ job' = [job EXCEPT ![r] = j]
      /\ before' = [before EXCEPT ![r] = {s \in Request : pc[s] = "done"}]
      /\ db' = db /\ file' = file /\ image' = image
  BY DEF Starts, Began
<1>3. /\ pc \in [From -> States] /\ file \in [From -> SUBSET Rows]
      /\ job = [s \in Request |-> job[s]] /\ image = [s \in Request |-> image[s]]
      /\ before \in [Request -> SUBSET Request]
  BY DEF LibInv, RequestsOK
<1>4. file[r] = {} /\ FileOK(file[r])
  BY <1>1, <1>2 DEF LibInv, PagesOK
<1>5. pc'[r] = state /\ job'[r] = j /\ pc' \in [From -> States]
  BY <1>1, <1>2, <1>3
<1>6. \A s \in From \ {r} : pc'[s] = pc[s]
  BY <1>2, <1>3
<1>7. \A s \in Request \ {r} : before'[s] = before[s] /\ job'[s] = job[s]
  BY <1>2, <1>3
<1>8. before'[r] = {s \in Request : pc[s] = "done"} /\ before' \in [Request -> SUBSET Request]
  BY <1>2, <1>3
<1>9. job' = [s \in Request |-> job'[s]]
  BY <1>2, <1>3
<1>10. Frame(r)
  BY <1>2, <1>3, <1>5, <1>6, <1>7, <1>8, <1>9 DEF Frame
<1>11. PagesOK(r)'
  <2>1. Len(ReadOrder) = 11
    BY DEF ReadOrder
  <2> QED
    BY <1>2, <1>4, <1>5, <2>1 DEF PagesOK, OffsetOK
<1>12. BackupOK(r)'
  <2>1. SUFFICES ASSUME state = "exporting"
                 PROVE  BackupOK(r)'
    BY <1>5 DEF BackupOK
  <2>2. j.at = 1 /\ j.offset = 0 /\ 1 .. (j.at - 1) = {}
    BY <2>1
  <2>3. ASSUME NEW t \in Paged
        PROVE  Of(file[r], t) \in Firsts(Of(db, t), 0)
    <3>1. Of(file[r], t) = {} /\ Of(db, t) \in SUBSET db
      BY <1>4 DEF Of
    <3>2. IsFiniteSet(Of(db, t))
      BY <3>1, FS_Subset DEF LibInv, TablesOK
    <3> QED
      BY <3>1, <3>2, NoneFirst
  <2>4. \A t \in Paged : Of(file'[r], t) \in Firsts(Of(db', t), 0)
    BY <1>2, <2>3
  <2> QED
    BY <1>5, <2>2, <2>4 DEF BackupOK
<1>13. ImportOK(r)'
  BY <1>5 DEF ImportOK
<1>14. WipeOK(r)' /\ ListOK(r)'
  BY <1>5 DEF WipeOK, ListOK
<1>15. Own(r)
  BY <1>2, <1>4, <1>5, <1>11, <1>12, <1>13, <1>14 DEF Own
<1> QED
  BY <1>2, <1>10, <1>15, SameTables

\* A request that has begun ends.
LEMMA EndsOwn ==
  ASSUME LibInv, NEW r \in Request, pc[r] \notin {"idle", "done"}, Ends(r),
         UNCHANGED <<file, before>>,
         image' = [s \in Request |-> image'[s]]
  PROVE  Frame(r) /\ Own(r)
<1>1. r \in From
  BY DEF From
<1>2. /\ pc' = [pc EXCEPT ![r] = "done"] /\ job' = [job EXCEPT ![r] = NoJob]
      /\ before' = before /\ file' = file
  BY DEF Ends
<1>3. /\ pc \in [From -> States] /\ file \in [From -> SUBSET Rows]
      /\ job = [s \in Request |-> job[s]]
      /\ before \in [Request -> SUBSET Request]
  BY DEF LibInv, RequestsOK
<1>4. FileOK(file[r])
  BY <1>1 DEF LibInv
<1>5. pc'[r] = "done" /\ job'[r] = NoJob /\ pc' \in [From -> States]
  BY <1>1, <1>2, <1>3 DEF States
<1>6. \A s \in From \ {r} : pc'[s] = pc[s]
  BY <1>2, <1>3
<1>7. \A s \in Request \ {r} : job'[s] = job[s]
  BY <1>2, <1>3
<1>8. job' = [s \in Request |-> job'[s]]
  BY <1>2, <1>3
<1>9. Frame(r)
  BY <1>2, <1>3, <1>5, <1>6, <1>7, <1>8 DEF Frame
<1> QED
  BY <1>2, <1>4, <1>5, <1>9 DEF Own, PagesOK, BackupOK, ImportOK, WipeOK, ListOK

LEMMA GiveUpOwn ==
  ASSUME LibInv, NEW r \in Request, GiveUp(r)
  PROVE  Frame(r) /\ Keeps /\ Own(r)
<1>1. r \in From
  BY DEF From
<1>2. /\ pc[r] # "done" /\ pc' = [pc EXCEPT ![r] = "done"] /\ job' = [job EXCEPT ![r] = NoJob]
      /\ IF pc[r] = "idle" THEN before' = [before EXCEPT ![r] = {s \in Request : pc[s] = "done"}]
         ELSE before' = before
      /\ file' = [file EXCEPT ![r] = {}] /\ db' = db /\ image' = image
  BY DEF GiveUp, Ends, Began
<1>3. /\ pc \in [From -> States] /\ file \in [From -> SUBSET Rows]
      /\ job = [s \in Request |-> job[s]] /\ image = [s \in Request |-> image[s]]
      /\ before \in [Request -> SUBSET Request]
  BY DEF LibInv, RequestsOK
<1>4. file'[r] = {} /\ \A s \in From \ {r} : file'[s] = file[s]
  BY <1>1, <1>2, <1>3
<1>5. pc'[r] = "done" /\ job'[r] = NoJob /\ pc' \in [From -> States]
  BY <1>1, <1>2, <1>3 DEF States
<1>6. \A s \in From \ {r} : pc'[s] = pc[s]
  BY <1>2, <1>3
<1>7. \A s \in Request \ {r} : before'[s] = before[s] /\ job'[s] = job[s]
  BY <1>2, <1>3
<1>8. job' = [s \in Request |-> job'[s]] /\ file' \in [From -> SUBSET Rows]
  BY <1>2, <1>3
<1>9. /\ before' \in [Request -> SUBSET Request]
      /\ IF pc[r] = "idle" THEN before'[r] = {s \in Request : pc[s] = "done"}
         ELSE before'[r] = before[r]
  BY <1>2, <1>3
<1>10. Frame(r)
  BY <1>2, <1>3, <1>4, <1>5, <1>6, <1>7, <1>8, <1>9 DEF Frame
<1>11. FileOK(file'[r])
  BY <1>4, NothingIsOK
<1>12. Own(r)
  BY <1>4, <1>5, <1>11 DEF Own, PagesOK, BackupOK, ImportOK, WipeOK, ListOK
<1> QED
  BY <1>2, <1>10, <1>12, SameTables

----------------------------------------------------------------------------
(* Rows that are added *)

\* The tables as an invariant state has them.
LEMMA TablesAre ==
  ASSUME LibInv
  PROVE  /\ db \subseteq Kept /\ db \subseteq Rows /\ Unique(db) /\ IsFiniteSet(db)
         /\ \A x \in db : Refers(db, x) /\ Settled(x.id) /\ RefsSettled(x) /\ Kin(x)
         /\ \A x, y \in Kept : x.id = y.id => x.table = y.table
BY DEF LibInv, NamesOK, TablesOK, Kept, Kin

\* A row that refers to rows that are there has names that are settled.
LEMMA HeldIsSettled ==
  ASSUME LibInv, NEW t, NEW i, Has(db, t, i)
  PROVE  Settled(i) /\ i \in Id
<1>1. PICK x \in db : x.table = t /\ x.id = i
  BY DEF Has
<1> QED
  BY <1>1, TablesAre, RowIs

LEMMA InsertKeeps ==
  ASSUME LibInv, NEW r \in Request, pc[r] # "done", pc'[r] = "done",
         NEW new \in SUBSET Rows, Unique(new), IsFiniteSet(new), Insert(new),
         \A x \in new : /\ x.id[1] = r
                        /\ \A p \in Parents : x.refs[p] # None => Mine(r, x.refs[p])
  PROVE  Keeps
<1>1. db' = db \cup new /\ \A x \in new : Refers(Firm \cup new, x)
  BY DEF Insert, Takes
<1>2. \A x \in new : New(x.id)
  BY DEF New
<1>3. \A x \in db : ~New(x.id)
  BY TablesAre DEF New, Settled
<1>4. Unique(db')
  BY <1>1, <1>2, <1>3, TablesAre DEF Unique
<1>5. \A x \in db' : Refers(db', x)
  <2>1. \A t, i : Has(Firm \cup new, t, i) \/ Has(db, t, i) => Has(db', t, i)
    BY <1>1 DEF Has, Firm
  <2> QED
    BY <1>1, <2>1, TablesAre DEF Refers
<1>6. \A x \in new : \A p \in Parents : x.refs[p] # None => Settled(x.refs[p]) \/ New(x.refs[p])
  BY DEF Mine, New
<1>7. \A x \in db : \A p \in Parents : x.refs[p] # None => Settled(x.refs[p])
  BY TablesAre DEF RefsSettled
<1>8. \A x \in db' : Kin(x) \/ New(x.id)
  BY <1>1, <1>2, TablesAre
<1>9. ASSUME NEW x \in db', NEW p \in Parents, x.refs[p] # None
      PROVE  Stood(x, p)
  <2>1. CASE x \in db
    BY <2>1, StoodBefore
  <2>2. CASE x \in new /\ x.table # "history"
    <3>1. Has(Firm \cup new, p, x.refs[p])
      BY <1>1, <1>9, <2>2 DEF Refers
    <3>2. Has(Firm, p, x.refs[p]) \/ New(x.refs[p])
      BY <1>2, <3>1 DEF Has
    <3> QED
      BY <3>2 DEF Stood
  <2>3. CASE x.table = "history"
    BY <2>3 DEF Stood
  <2> QED
    BY <1>1, <2>1, <2>2, <2>3
<1>10. db' \subseteq Rows
  BY <1>1, TablesAre
<1>11. IsFiniteSet(db')
  BY <1>1, TablesAre, FS_Union
<1> QED
  BY <1>1, <1>4, <1>5, <1>6, <1>7, <1>8, <1>9, <1>10, <1>11 DEF Keeps

LEMMA InsertOne ==
  ASSUME LibInv, NEW r \in Request, Once(r),
         NEW y \in Rows, y.id[1] = r, RefsSettled(y), Insert({y})
  PROVE  Keeps
<1>1. r \in From
  BY DEF From
<1>2. pc[r] # "done" /\ pc'[r] = "done"
  BY <1>1 DEF Once, Ends, LibInv, RequestsOK
<1>3. PICK new \in SUBSET Rows : new = {y}
  OBVIOUS
<1>4. Unique(new) /\ IsFiniteSet(new)
  BY <1>3, FS_Singleton DEF Unique
<1>5. Insert(new)
  BY <1>3
<1>6. \A x \in new : /\ x.id[1] = r
                     /\ \A p \in Parents : x.refs[p] # None => Mine(r, x.refs[p])
  BY <1>3 DEF RefsSettled, Mine
<1> QED
  BY <1>2, <1>4, <1>5, <1>6, InsertKeeps

LEMMA NoRefsIs == /\ NoRefs \in [Parents -> Id \cup {None}]
                  /\ \A p \in Parents : NoRefs[p] = None
BY DEF NoRefs

\* A row that refers to one other.
LEMMA OneRef ==
  ASSUME NEW q \in Parents, NEW i \in Id
  PROVE  /\ [NoRefs EXCEPT ![q] = i] \in [Parents -> Id \cup {None}]
         /\ [NoRefs EXCEPT ![q] = i][q] = i
         /\ \A p \in Parents : p # q => [NoRefs EXCEPT ![q] = i][p] = None
BY NoRefsIs DEF NoRefs

LEMMA RowOfOne ==
  ASSUME LibInv, NEW r \in Request, NEW n \in Nat,
         NEW t \in Table, t # "removed", NEW q \in Columns(t), q \in Parents,
         NEW x \in Kept,
         NEW key \in Index \cup Member \cup From \cup Position, t \in Place => key \in Index,
         NEW data \in Index \cup Member \cup {"none", "free", "unknown", "out", "back", "recent", "expired"}
  PROVE  LET y == Row(t, <<r, n>>, [NoRefs EXCEPT ![q] = x.id], key, data)
         IN  /\ y \in Rows /\ y.id = <<r, n>> /\ y.id[1] = r
             /\ y.table = t /\ RefsSettled(y)
<1>1. r \in From
  BY DEF From
<1>2. x.id \in Id /\ Settled(x.id)
  BY RowIs DEF LibInv, NamesOK
<1>3. PICK refs : refs = [NoRefs EXCEPT ![q] = x.id]
  OBVIOUS
<1>4. /\ refs \in [Parents -> Id \cup {None}] /\ refs[q] = x.id
      /\ \A p \in Parents : p # q => refs[p] = None
  BY <1>2, <1>3, OneRef
<1>5. PICK i \in Id : i = <<r, n>> /\ i[1] = r /\ i[2] = n
  BY <1>1, IdIn
<1>6. PICK y : y = Row(t, i, refs, key, data)
  OBVIOUS
<1>7. y \in Rows /\ y.table = t /\ y.id = i /\ y.refs = refs
  BY <1>4, <1>5, <1>6, RowIn
<1> QED
  BY <1>2, <1>3, <1>4, <1>5, <1>6, <1>7 DEF RefsSettled

----------------------------------------------------------------------------
(* Places *)

LEMMA RoomKeeps ==
  ASSUME LibInv, NEW r \in Request, create_room(r)
  PROVE  Keeps
<1>1. r \in From
  BY DEF From
<1>2. PICK key \in Index : CreateRoom(r, key)
  BY DEF create_room
<1>3. PICK i \in Id : i = <<r, 1>> /\ i[1] = r /\ i[2] = 1
  BY <1>1, IdIn
<1>4. PICK y : y = Row("room", i, NoRefs, key, "none")
  OBVIOUS
<1>5. y \in Rows /\ y.id = i /\ y.refs = NoRefs
  BY <1>3, <1>4, RowIn, NoRefsIs DEF Table, Parents
<1>6. Insert({y})
  BY <1>2, <1>3, <1>4 DEF CreateRoom
<1>7. RefsSettled(y)
  BY <1>5, NoRefsIs DEF RefsSettled
<1> QED
  BY <1>3, <1>5, <1>6, <1>7, InsertOne DEF create_room

LEMMA PlaceKeeps ==
  ASSUME LibInv, NEW r \in Request, Once(r),
         NEW t \in {"bookcase", "section", "shelf"}, NEW parent \in db, NEW key \in Index,
         Insert({PlaceRow(r, t, parent, key)})
  PROVE  Keeps
<1>1. In(t) \in Columns(t) /\ In(t) \in Parents
  BY DEF In, Columns, Parents
<1>2. t \in Table /\ t # "removed" /\ parent \in Kept
  BY TablesAre DEF Table, Parents
<1>3. PICK y : y = Row(t, <<r, 1>>, [NoRefs EXCEPT ![In(t)] = parent.id], key, "none")
  OBVIOUS
<1>4. y \in Rows /\ y.id[1] = r /\ RefsSettled(y)
  BY <1>1, <1>2, <1>3, RowOfOne
<1>5. Insert({y})
  BY <1>3 DEF PlaceRow
<1> QED
  BY <1>4, <1>5, InsertOne

LEMMA BookcaseKeeps ==
  ASSUME LibInv, NEW r \in Request, create_bookcase(r)
  PROVE  Keeps
BY PlaceKeeps DEF create_bookcase, CreateBookcase, Of

LEMMA SectionKeeps ==
  ASSUME LibInv, NEW r \in Request, create_section(r)
  PROVE  Keeps
BY PlaceKeeps DEF create_section, CreateSection, Of

LEMMA ShelfKeeps ==
  ASSUME LibInv, NEW r \in Request, create_shelf(r)
  PROVE  Keeps
BY PlaceKeeps DEF create_shelf, CreateShelf, Of

\* The row that was read, with another key.
LEMMA EditedKey ==
  ASSUME LibInv, NEW x \in db, x.table = "room", NEW key \in Index
  PROVE  Edited([x EXCEPT !.key = key])
<1>1. x \in Rows /\ RefsSettled(x)
  BY TablesAre
<1>2. PICK y : y = [x EXCEPT !.key = key]
  OBVIOUS
<1>3. /\ x = [table |-> x.table, id |-> x.id, refs |-> x.refs, key |-> x.key, data |-> x.data]
      /\ x.id \in Id /\ x.id[2] \in Nat /\ x.table \in Table
      /\ x.refs \in [Parents -> Id \cup {None}]
      /\ x.data \in Index \cup Member \cup {"none", "free", "unknown", "out", "back", "recent", "expired"}
      /\ \A p \in Parents : x.refs[p] # None => p \in Columns(x.table)
  BY <1>1, RowIs
<1>4. y = Row(x.table, x.id, x.refs, key, x.data)
  BY <1>2, <1>3 DEF Row
<1>5. y \in Rows /\ y.table = x.table /\ y.id = x.id /\ y.refs = x.refs
  BY <1>3, <1>4, RowIn
<1>6. Edited(y)
  BY <1>1, <1>5 DEF Edited, RefsSettled, Place
<1> QED
  BY <1>2, <1>6

\* The row that was read, in another place.
LEMMA EditedPlace ==
  ASSUME LibInv, NEW x \in db, x.table \in {"bookcase", "section", "shelf"},
         NEW parent \in db, NEW key \in Index
  PROVE  Edited(Placed(x, parent, key))
<1>1. x \in Rows /\ RefsSettled(x) /\ parent \in Rows /\ Settled(parent.id)
  BY TablesAre
<1>2. PICK q : q = In(x.table)
  OBVIOUS
<1>3. q \in Parents /\ q \in Columns(x.table)
  BY <1>2 DEF In, Columns, Parents
<1>4. PICK refs : refs = [x.refs EXCEPT ![q] = parent.id]
  OBVIOUS
<1>5. PICK y : y = Row(x.table, x.id, refs, key, x.data)
  OBVIOUS
<1>6. /\ x = [table |-> x.table, id |-> x.id, refs |-> x.refs, key |-> x.key, data |-> x.data]
      /\ x.id \in Id /\ x.id[2] \in Nat /\ x.table \in Table
      /\ x.refs \in [Parents -> Id \cup {None}]
      /\ x.data \in Index \cup Member \cup {"none", "free", "unknown", "out", "back", "recent", "expired"}
      /\ \A p \in Parents : x.refs[p] # None => p \in Columns(x.table)
  BY <1>1, RowIs
<1>7. parent.id \in Id
  BY <1>1, RowIs
<1>8. /\ refs \in [Parents -> Id \cup {None}]
      /\ refs[q] = parent.id
      /\ \A p \in Parents : p # q => refs[p] = x.refs[p]
  BY <1>3, <1>4, <1>6, <1>7
<1>9. y = Placed(x, parent, key)
  <2>1. Placed(x, parent, key) = [x EXCEPT !.key = key, !.refs = refs]
    BY <1>2, <1>4, <1>6 DEF Placed
  <2> QED
    BY <2>1, <1>5, <1>6 DEF Row
<1>10. y \in Rows /\ y.table = x.table /\ y.id = x.id /\ y.refs = refs
  BY <1>3, <1>5, <1>6, <1>8, RowIn
<1>11. RefsSettled(y)
  BY <1>1, <1>8, <1>10 DEF RefsSettled
<1>12. Edited(y)
  BY <1>1, <1>10, <1>11 DEF Edited, Place
<1> QED
  BY <1>9, <1>12

LEMMA EditOwn ==
  ASSUME LibInv, NEW r \in Request, NEW y, Edited(y), Edit(r, y)
  PROVE  Frame(r) /\ Keeps /\ Own(r)
<1>1. PICK j : j = [kind |-> "save", row |-> y]
  OBVIOUS
<1>2. PICK state \in States : state = "saving"
  BY DEF States
<1>3. Starts(r, state, j) /\ Edited(j.row)
  BY <1>1, <1>2 DEF Edit
<1> QED
  BY <1>2, <1>3, StartsOwn

LEMMA UpdatesOwn ==
  ASSUME LibInv, NEW r \in Request,
         update_room(r) \/ update_bookcase(r) \/ update_section(r) \/ update_shelf(r)
  PROVE  Frame(r) /\ Keeps /\ Own(r)
<1>1. CASE update_room(r)
  <2>1. PICK x \in db, key \in Index : x.table = "room" /\ UpdateRoom(r, x, key)
    BY <1>1 DEF update_room, Of
  <2> QED
    BY <2>1, EditedKey, EditOwn DEF UpdateRoom
<1>2. CASE update_bookcase(r)
  <2>1. PICK x \in db, parent \in db, key \in Index :
          x.table = "bookcase" /\ Edit(r, Placed(x, parent, key))
    BY <1>2 DEF update_bookcase, UpdateBookcase, Of
  <2> QED
    BY <2>1, EditedPlace, EditOwn
<1>3. CASE update_section(r)
  <2>1. PICK x \in db, parent \in db, key \in Index :
          x.table = "section" /\ Edit(r, Placed(x, parent, key))
    BY <1>3 DEF update_section, UpdateSection, Of
  <2> QED
    BY <2>1, EditedPlace, EditOwn
<1>4. CASE update_shelf(r)
  <2>1. PICK x \in db, parent \in db, key \in Index :
          x.table = "shelf" /\ Edit(r, Placed(x, parent, key))
    BY <1>4 DEF update_shelf, UpdateShelf, Of
  <2> QED
    BY <2>1, EditedPlace, EditOwn
<1> QED
  BY <1>1, <1>2, <1>3, <1>4

\* A row is written over the row with its name, or is inserted again.
LEMMA SaveOwn ==
  ASSUME LibInv, NEW r \in Request, Save(r)
  PROVE  Frame(r) /\ Keeps /\ Own(r)
<1>1. PICK x : x = job[r].row
  OBVIOUS
<1>2. PICK rest : rest = {y \in db : y.id # x.id}
  OBVIOUS
<1>3. /\ pc[r] = "saving" /\ Refers(rest \cap Firm, x) /\ db' = rest \cup {x}
      /\ Ends(r) /\ UNCHANGED <<file, image, before>>
  BY <1>1, <1>2 DEF Save
<1>4. x \in Kept /\ x \in Rows /\ RefsSettled(x) /\ x.table \in Place
  BY <1>1, <1>3 DEF LibInv, NamesOK, RequestsOK, Kept
<1>5. Kin(x)
  BY <1>4 DEF Kin
<1>6. \A t, i : Has(db, t, i) => Has(db', t, i)
  <2>1. SUFFICES ASSUME NEW z \in db
                 PROVE  Has(db', z.table, z.id)
    BY DEF Has
  <2>2. CASE z.id = x.id
    <3>1. z.table = x.table
      BY <2>2, <1>4, TablesAre
    <3> QED
      BY <2>2, <3>1, <1>3 DEF Has
  <2>3. CASE z.id # x.id
    BY <2>3, <1>2, <1>3 DEF Has
  <2> QED
    BY <2>2, <2>3
<1>7. \A t, i : Has(rest \cap Firm, t, i) => Has(db', t, i) /\ Has(Firm, t, i)
  BY <1>3 DEF Has
<1>8. \A y \in db' : Refers(db', y)
  BY <1>2, <1>3, <1>6, <1>7, TablesAre DEF Refers
<1>9. Unique(db')
  BY <1>2, <1>3, TablesAre DEF Unique
<1>10. \A y \in db' : y = x \/ y \in db
  BY <1>2, <1>3
<1>11. \A p \in Parents : x.refs[p] # None => Stood(x, p)
  BY <1>3, <1>7 DEF Refers, Stood
<1>12. IsFiniteSet(db')
  BY <1>10, TablesAre, FewMore
<1>13. Keeps
  BY <1>4, <1>5, <1>8, <1>9, <1>10, <1>11, <1>12, StoodBefore, TablesAre DEF Keeps, RefsSettled
<1>14. image' = [s \in Request |-> image'[s]]
  BY <1>3 DEF LibInv, RequestsOK
<1>15. Frame(r) /\ Own(r)
  BY <1>3, <1>14, EndsOwn
<1> QED
  BY <1>13, <1>15

\* What is left of a row when the place x is deleted.
TakenOut(y, x) ==
  IF y.table = "book" /\ y.refs[x.table] = x.id THEN [y EXCEPT !.refs[x.table] = None] ELSE y

\* No row refers to a place that is deleted: places are refused, copies are
\* taken out of it, and other rows have no column for it.
LEMMA DeleteKeeps ==
  ASSUME LibInv, NEW x \in db, x.table \in Place, Delete(x)
  PROVE  Keeps
<1>1. /\ \A y \in db : y.table \in Place => y.refs[x.table] # x.id
      /\ db' = {TakenOut(y, x) : y \in db \ {x}}
  BY DEF Delete, Unplaced, TakenOut, Place
<1>2. x.table \in Parents
  BY DEF Place, Parents
<1>3. ASSUME NEW y \in db, NEW z,
             z = TakenOut(y, x)
      PROVE  /\ z \in Rows /\ z.table = y.table /\ z.id = y.id
             /\ y.table = "book" /\ y.refs[x.table] = x.id => z.refs[x.table] = None
             /\ \A p \in Parents : z.refs[p] = y.refs[p] \/ (p = x.table /\ z.refs[p] = None)
             /\ y.table # "book" => z = y
  <2>1. y \in Rows
    BY TablesAre
  <2>2. /\ y = [table |-> y.table, id |-> y.id, refs |-> y.refs, key |-> y.key, data |-> y.data]
        /\ y.id \in Id /\ y.table \in Table
        /\ y.refs \in [Parents -> Id \cup {None}]
        /\ y.key \in Index \cup Member \cup From \cup Position
        /\ y.data \in Index \cup Member \cup {"none", "free", "unknown", "out", "back", "recent", "expired"}
        /\ \A p \in Parents : y.refs[p] # None => p \in Columns(y.table)
        /\ y.table # "removed" => y.id[2] \in Nat
    BY <2>1, RowIs
  <2>3. CASE y.table = "book" /\ y.refs[x.table] = x.id
    <3>1. PICK refs : refs = [y.refs EXCEPT ![x.table] = None]
      OBVIOUS
    <3>2. /\ refs \in [Parents -> Id \cup {None}] /\ refs[x.table] = None
          /\ \A p \in Parents : p # x.table => refs[p] = y.refs[p]
      BY <3>1, <2>2, <1>2
    <3>3. z = [y EXCEPT !.refs = refs]
      BY <1>3, <2>3, <3>1 DEF TakenOut
    <3>4. z = Row(y.table, y.id, refs, y.key, y.data)
      BY <3>3, <2>2 DEF Row
    <3>5. \A p \in Parents : refs[p] # None => p \in Columns(y.table)
      BY <3>2, <2>2
    <3>6. z \in Rows /\ z.table = y.table /\ z.id = y.id /\ z.refs = refs
      BY <3>2, <3>4, <3>5, <2>2, <2>3, RowIn DEF Place
    <3> QED
      BY <2>3, <3>2, <3>6
  <2>4. CASE ~(y.table = "book" /\ y.refs[x.table] = x.id)
    BY <2>1, <2>4, <1>3 DEF TakenOut
  <2> QED
    BY <2>3, <2>4
<1>4. \A z \in db' : \E y \in db \ {x} :
        z = TakenOut(y, x)
  BY <1>1
<1>5. \A y \in db \ {x} : Has(db', y.table, y.id)
  BY <1>1, <1>3 DEF Has
<1>6. ASSUME NEW z \in db'
      PROVE  /\ z \in Rows /\ Refers(db', z) /\ RefsSettled(z) /\ Kin(z)
             /\ \A p \in Parents : z.refs[p] # None => Stood(z, p)
             /\ \E y \in db : z.id = y.id /\ z = TakenOut(y, x)
  <2>1. PICK y \in db \ {x} :
          z = TakenOut(y, x)
    BY <1>4
  <2>2. /\ z \in Rows /\ z.table = y.table /\ z.id = y.id
        /\ y.table = "book" /\ y.refs[x.table] = x.id => z.refs[x.table] = None
        /\ \A p \in Parents : z.refs[p] = y.refs[p] \/ (p = x.table /\ z.refs[p] = None)
        /\ y.table # "book" => z = y
    BY <2>1, <1>3
  <2>3. Refers(db, y) /\ RefsSettled(y) /\ Kin(y) /\ y \in Rows
    BY TablesAre
  <2>4. ASSUME z.table # "history", NEW p \in Parents, z.refs[p] # None
        PROVE  Has(db', p, z.refs[p])
    <3>1. z.refs[p] = y.refs[p]
      BY <2>2, <2>4
    <3>2. PICK w \in db : w.table = p /\ w.id = y.refs[p]
      BY <2>2, <2>3, <2>4, <3>1 DEF Refers, Has
    <3>3. w # x
      <4>1. SUFFICES ASSUME w = x PROVE FALSE
        OBVIOUS
      <4>2. p = x.table /\ y.refs[x.table] = x.id
        BY <3>2, <4>1
      <4>3. y.table # "book"
        BY <2>2, <2>4, <4>2
      <4>4. p \in Columns(y.table) /\ y.table \in Table
        BY <2>3, <2>4, <3>1, RowIs
      <4>5. y.table \in Place
        BY <4>2, <4>3, <4>4 DEF Columns, Table, Parents, Place
      <4> QED
        BY <4>2, <4>5, <1>1
    <3> QED
      BY <3>1, <3>2, <3>3, <1>5
  <2>5. ASSUME NEW p \in Parents, z.table # "history", p \in Needs(z.table)
        PROVE  z.refs[p] # None
    <3>1. y.refs[p] # None
      BY <2>2, <2>3, <2>5 DEF Refers
    <3>2. CASE z.table = "book"
      <4>1. p = "record"
        BY <2>5, <3>2 DEF Needs
      <4> QED
        BY <3>1, <4>1, <2>2 DEF Place
    <3>3. CASE z.table # "book"
      BY <3>1, <3>3, <2>2
    <3> QED
      BY <3>2, <3>3
  <2>6. Refers(db', z)
    BY <2>4, <2>5 DEF Refers
  <2>7. RefsSettled(z)
    BY <2>2, <2>3 DEF RefsSettled
  <2>8. Kin(z)
    BY <2>2, <2>3 DEF Kin
  <2>9. \A p \in Parents : z.refs[p] # None => Stood(z, p)
    BY <2>2 DEF Stood, Tag
  <2> QED
    BY <2>1, <2>2, <2>6, <2>7, <2>8, <2>9
<1>7. Unique(db')
  BY <1>6, TablesAre DEF Unique
<1>8. IsFiniteSet(db')
  <2>1. PICK f : f = [y \in db \ {x} |-> TakenOut(y, x)]
    OBVIOUS
  <2>2. f \in Surjection(db \ {x}, db')
    BY <1>1, <2>1 DEF Surjection
  <2>3. IsFiniteSet(db \ {x})
    BY TablesAre, FS_RemoveElement
  <2> QED
    BY <2>2, <2>3, FS_Surjection
<1> QED
  BY <1>6, <1>7, <1>8 DEF Keeps, RefsSettled

LEMMA DeletesKeep ==
  ASSUME LibInv, NEW r \in Request,
         delete_room(r) \/ delete_bookcase(r) \/ delete_section(r) \/ delete_shelf(r)
  PROVE  Keeps
<1>1. PICK x \in db : x.table \in Place /\ Delete(x)
  BY DEF delete_room, delete_bookcase, delete_section, delete_shelf,
         DeleteRoom, DeleteBookcase, DeleteSection, DeleteShelf, Of, Place
<1> QED
  BY <1>1, DeleteKeeps

----------------------------------------------------------------------------
(* Copies *)

LEMMA ParentIs ==
  ASSUME LibInv, NEW x \in db, NEW p \in Parents, x.refs[p] # None, x.table # "history"
  PROVE  Parent(p, x) \in db /\ Parent(p, x).table = p /\ Parent(p, x).id = x.refs[p]
<1>1. \E y \in db : y.table = p /\ y.id = x.refs[p]
  BY TablesAre DEF Refers, Has
<1> QED
  BY <1>1 DEF Parent

\* What stands in something.
LEMMA Stands ==
  ASSUME LibInv, NEW x \in db, NEW p \in Parents, p \in Needs(x.table), x.table # "history"
  PROVE  /\ Parent(p, x) \in db /\ Parent(p, x).table = p
         /\ x.refs[p] \in Id /\ x.refs[p] # None /\ Has(db, p, x.refs[p])
<1>1. x.refs[p] # None /\ Has(db, p, x.refs[p])
  BY TablesAre DEF Refers
<1> QED
  BY <1>1, ParentIs, HeldIsSettled

\* A place where a copy can stand is there.
LEMMA SpotIs ==
  ASSUME LibInv, NEW spot \in Spots
  PROVE  /\ spot \in [Parents -> Id \cup {None}]
         /\ \A p \in Parents : spot[p] # None => p \in Place /\ Has(db, p, spot[p])
<1>1. CASE spot = NoRefs
  BY <1>1, NoRefsIs
<1>2. CASE spot # NoRefs
  <2>1. PICK shelf \in db : shelf.table = "shelf" /\ spot = Chain(shelf)
    BY <1>2 DEF Spots, Of, Firm
  <2>2. PICK section : section = Parent("section", shelf)
    OBVIOUS
  <2>3. section \in db /\ section.table = "section"
    BY <2>1, <2>2, Stands DEF Needs, Columns, Parents
  <2>4. PICK bookcase : bookcase = Parent("bookcase", section)
    OBVIOUS
  <2>5. bookcase \in db /\ bookcase.table = "bookcase"
    BY <2>3, <2>4, Stands DEF Needs, Columns, Parents
  <2>6. PICK room : room = bookcase.refs["room"]
    OBVIOUS
  <2>7. room \in Id /\ Has(db, "room", room)
    BY <2>5, <2>6, Stands DEF Needs, Columns, Parents
  <2>8. spot = [NoRefs EXCEPT !["shelf"] = shelf.id, !["section"] = section.id,
                              !["bookcase"] = bookcase.id, !["room"] = room]
    BY <2>1, <2>2, <2>4, <2>6 DEF Chain
  <2>9. shelf.id \in Id /\ section.id \in Id /\ bookcase.id \in Id
    BY <2>1, <2>3, <2>5, TablesAre, RowIs
  <2>10. spot \in [Parents -> Id \cup {None}]
    BY <2>7, <2>8, <2>9, NoRefsIs
  <2>11. /\ spot["shelf"] = shelf.id /\ spot["section"] = section.id
         /\ spot["bookcase"] = bookcase.id /\ spot["room"] = room
         /\ \A p \in Parents : p \notin Place => spot[p] = None
    BY <2>8 DEF NoRefs, Parents, Place
  <2>12. ASSUME NEW p \in Parents, spot[p] # None
         PROVE  p \in Place /\ Has(db, p, spot[p])
    <3>1. p \in {"shelf", "section", "bookcase", "room"}
      BY <2>11, <2>12 DEF Place
    <3>2. /\ Has(db, "shelf", shelf.id) /\ Has(db, "section", section.id)
          /\ Has(db, "bookcase", bookcase.id)
      BY <2>1, <2>3, <2>5 DEF Has
    <3> QED
      BY <2>7, <2>11, <3>1, <3>2 DEF Place
  <2> QED
    BY <2>10, <2>12
<1> QED
  BY <1>1, <1>2

\* The record of a copy, with the place where it stands.
LEMMA SpotOfRecord ==
  ASSUME LibInv, NEW refs,
         \E spot \in Spots, i \in Id : Has(db, "record", i) /\ refs = [spot EXCEPT !["record"] = i]
  PROVE  /\ refs \in [Parents -> Id \cup {None}] /\ refs["record"] # None
         /\ \A p \in Parents : refs[p] # None =>
              p \in Columns("book") /\ Has(db, p, refs[p]) /\ Settled(refs[p])
<1>0. PICK spot \in Spots, i \in Id : Has(db, "record", i) /\ refs = [spot EXCEPT !["record"] = i]
  OBVIOUS
<1>1. i \in Id /\ Settled(i)
  BY <1>0, HeldIsSettled
<1>2. /\ spot \in [Parents -> Id \cup {None}]
      /\ \A p \in Parents : spot[p] # None => p \in Place /\ Has(db, p, spot[p])
  BY SpotIs
<1>3. "record" \in Parents
  BY DEF Parents
<1>4. /\ refs \in [Parents -> Id \cup {None}] /\ refs["record"] = i
      /\ \A p \in Parents : p # "record" => refs[p] = spot[p]
  BY <1>0, <1>1, <1>2, <1>3
<1>5. ASSUME NEW p \in Parents, refs[p] # None
      PROVE  p \in Columns("book") /\ Has(db, p, refs[p]) /\ Settled(refs[p])
  <2>1. CASE p = "record"
    BY <2>1, <1>0, <1>1, <1>4 DEF Columns
  <2>2. CASE p # "record"
    <3>1. p \in Place /\ Has(db, p, refs[p])
      BY <2>2, <1>2, <1>4, <1>5
    <3> QED
      BY <3>1, HeldIsSettled DEF Columns
  <2> QED
    BY <2>1, <2>2
<1> QED
  BY <1>1, <1>4, <1>5, IdIs

\* An event of a copy.
LEMMA EventIs ==
  ASSUME NEW r \in Request, NEW n \in Nat, NEW i \in Id
  PROVE  /\ Event(r, n, i) \in Rows /\ Event(r, n, i).id = <<r, n>>
         /\ Event(r, n, i).id[1] = r /\ Event(r, n, i).id[2] = n
         /\ Event(r, n, i).table = "history"
         /\ \A p \in Parents : Event(r, n, i).refs[p] # None => Event(r, n, i).refs[p] = i
<1>1. r \in From
  BY DEF From
<1>2. PICK refs : refs = [NoRefs EXCEPT !["book"] = i]
  OBVIOUS
<1>3. /\ refs \in [Parents -> Id \cup {None}] /\ refs["book"] = i
      /\ \A p \in Parents : p # "book" => refs[p] = None
  BY <1>2, OneRef DEF Parents
<1>4. PICK id \in Id : id = <<r, n>> /\ id[1] = r /\ id[2] = n
  BY <1>1, IdIn
<1>5. PICK y : y = Row("history", id, refs, r, "none")
  OBVIOUS
<1>6. \A p \in Parents : refs[p] # None => p \in Columns("history")
  BY <1>3 DEF Columns
<1>7. y \in Rows /\ y.table = "history" /\ y.id = id /\ y.refs = refs
  BY <1>1, <1>3, <1>4, <1>5, <1>6, RowIn DEF Table, Place
<1>8. y = Event(r, n, i)
  BY <1>2, <1>4, <1>5 DEF Event
<1> QED
  BY <1>3, <1>4, <1>7, <1>8

LEMMA AddBookKeeps ==
  ASSUME LibInv, NEW r \in Request, add_book(r)
  PROVE  Keeps
<1>1. r \in From
  BY DEF From
<1>2. Once(r) /\ pc[r] # "done" /\ pc'[r] = "done"
  BY <1>1 DEF add_book, Once, Ends, LibInv, RequestsOK
<1>3. PICK record \in db, spot \in Spots, position \in Position :
        record.table = "record" /\ AddBook(r, record, spot, position)
  BY DEF add_book, Of
<1>4. Has(db, "record", record.id) /\ record.id \in Id
  BY <1>3, TablesAre, RowIs DEF Has
<1>5. PICK refs : refs = [spot EXCEPT !["record"] = record.id]
  OBVIOUS
<1>6. /\ refs \in [Parents -> Id \cup {None}]
      /\ \A p \in Parents : refs[p] # None => p \in Columns("book") /\ Settled(refs[p])
  BY <1>3, <1>4, <1>5, SpotOfRecord
<1>7. PICK i \in Id : i = <<r, 1>> /\ i[1] = r /\ i[2] = 1
  BY <1>1, IdIn
<1>8. PICK y : y = Row("book", i, refs, position, "free")
  OBVIOUS
<1>9. y \in Rows /\ y.table = "book" /\ y.id = i /\ y.refs = refs
  BY <1>6, <1>7, <1>8, RowIn DEF Table, Parents, Place
<1>10. PICK e : e = Event(r, 2, i)
  OBVIOUS
<1>11. /\ e \in Rows /\ e.id[1] = r /\ e.id[2] = 2
       /\ \A p \in Parents : e.refs[p] # None => e.refs[p] = i
  BY <1>10, EventIs
<1>12. PICK new \in SUBSET Rows : new = {y, e}
  BY <1>9, <1>11
<1>13. Insert(new)
  BY <1>3, <1>5, <1>7, <1>8, <1>10, <1>12 DEF AddBook
<1>14. Unique(new) /\ IsFiniteSet(new)
  <2>1. PICK S : S = {}
    OBVIOUS
  <2>2. new \subseteq S \cup {y, e} /\ IsFiniteSet(S)
    BY <1>12, <2>1, FS_EmptySet
  <2>3. IsFiniteSet(new)
    BY <2>2, FewMore
  <2> QED
    BY <2>3, <1>7, <1>9, <1>11, <1>12 DEF Unique
<1>15. \A x \in new : /\ x.id[1] = r
                      /\ \A p \in Parents : x.refs[p] # None => Mine(r, x.refs[p])
  BY <1>6, <1>7, <1>9, <1>11, <1>12 DEF Mine
<1> QED
  BY <1>2, <1>13, <1>14, <1>15, InsertKeeps

LEMMA LendKeeps ==
  ASSUME LibInv, NEW r \in Request, lend_book(r)
  PROVE  Keeps
<1>1. PICK x \in db : x.table = "book" /\ LendBook(r, x)
  BY DEF lend_book, Of
<1>2. PICK y : y = Row("loan", <<r, 1>>, [NoRefs EXCEPT !["book"] = x.id], r, "out")
  OBVIOUS
<1>3. "loan" \in Table /\ "book" \in Columns("loan") /\ "book" \in Parents /\ r \in From
  BY DEF Table, Columns, Parents, From
<1>4. y \in Rows /\ y.id[1] = r /\ RefsSettled(y)
  BY <1>2, <1>3, RowOfOne, TablesAre DEF Place
<1>5. Insert({y})
  BY <1>1, <1>2 DEF LendBook
<1> QED
  BY <1>4, <1>5, InsertOne DEF lend_book

LEMMA MoveKeeps ==
  ASSUME LibInv, NEW r \in Request, update_book_position(r)
  PROVE  Keeps
<1>1. r \in From
  BY DEF From
<1>2. Once(r) /\ pc[r] # "done" /\ pc'[r] = "done"
  BY <1>1 DEF update_book_position, Once, Ends, LibInv, RequestsOK
<1>3. PICK x \in db, spot \in Spots, position \in Position :
        x.table = "book" /\ UpdateBookPosition(r, x, spot, position)
  BY DEF update_book_position, Of
<1>4. PICK refs : refs = [spot EXCEPT !["record"] = x.refs["record"]]
  OBVIOUS
<1>5. Has(db, "record", x.refs["record"]) /\ x.refs["record"] \in Id
  BY <1>3, Stands DEF Needs, Parents
<1>6. /\ refs \in [Parents -> Id \cup {None}] /\ refs["record"] # None
      /\ \A p \in Parents : refs[p] # None =>
           p \in Columns("book") /\ Has(db, p, refs[p]) /\ Settled(refs[p])
  BY <1>3, <1>4, <1>5, SpotOfRecord
<1>7. PICK z : z = Row(x.table, x.id, refs, position, x.data)
  OBVIOUS
<1>8. /\ x = [table |-> x.table, id |-> x.id, refs |-> x.refs, key |-> x.key, data |-> x.data]
      /\ x.id \in Id /\ x.id[2] \in Nat
      /\ x.data \in Index \cup Member \cup {"none", "free", "unknown", "out", "back", "recent", "expired"}
  BY <1>3, TablesAre, RowIs
<1>9. z = [x EXCEPT !.refs = refs, !.key = position]
  <2>1. PICK v : v = [x EXCEPT !.refs = refs]
    OBVIOUS
  <2>2. v = [table |-> x.table, id |-> x.id, refs |-> refs, key |-> x.key, data |-> x.data]
    BY <2>1, <1>8
  <2>3. [v EXCEPT !.key = position]
          = [table |-> x.table, id |-> x.id, refs |-> refs, key |-> position, data |-> x.data]
    BY <2>2
  <2> QED
    BY <2>1, <2>3, <1>7 DEF Row
<1>10. z \in Rows /\ z.table = "book" /\ z.id = x.id /\ z.refs = refs
  BY <1>3, <1>6, <1>7, <1>8, RowIn DEF Table, Parents, Place
<1>11. PICK e : e = Event(r, 1, x.id)
  OBVIOUS
<1>12. /\ e \in Rows /\ e.id[1] = r /\ e.table = "history"
       /\ \A p \in Parents : e.refs[p] # None => e.refs[p] = x.id
  BY <1>8, <1>11, EventIs
<1>13. db' = (db \ {x}) \cup {z, e}
  BY <1>3, <1>4, <1>9, <1>11 DEF UpdateBookPosition
<1>14. New(e.id) /\ \A y \in db : ~New(y.id)
  BY <1>2, <1>12, TablesAre DEF New, Settled
<1>15. \A t, i : Has(db, t, i) => Has(db', t, i)
  BY <1>3, <1>10, <1>13 DEF Has
<1>16. \A y \in db' : Refers(db', y)
  <2>1. Refers(db', z)
    BY <1>6, <1>10, <1>15 DEF Refers, Needs
  <2>2. Refers(db', e)
    BY <1>12 DEF Refers
  <2>3. \A y \in db : Refers(db', y)
    BY <1>15, TablesAre DEF Refers
  <2> QED
    BY <1>13, <2>1, <2>2, <2>3
<1>17. Unique(db')
  BY <1>10, <1>13, <1>14, TablesAre DEF Unique
<1>18. RefsSettled(z) /\ RefsSettled(e) /\ Kin(z)
  BY <1>3, <1>6, <1>10, <1>12, TablesAre DEF RefsSettled, Kin
<1>19. \A y \in db' : RefsSettled(y) /\ y \in Rows /\ (Kin(y) \/ New(y.id))
  BY <1>10, <1>12, <1>13, <1>14, <1>18, TablesAre
<1>20. ASSUME NEW p \in Parents, refs[p] # None
       PROVE  Stood(z, p)
  <2>1. CASE p = "record"
    <3>1. Tag(x) = Tag(z) /\ z.refs[p] = x.refs[p]
      BY <1>3, <1>4, <1>6, <1>10, <2>1, SpotIs DEF Tag
    <3> QED
      BY <1>3, <3>1 DEF Stood
  <2>2. CASE p # "record"
    BY <1>6, <1>10, <1>20, <2>2 DEF Stood, Columns
  <2> QED
    BY <2>1, <2>2
<1>21. \A y \in db' : \A p \in Parents : y.refs[p] # None => Stood(y, p)
  <2>1. \A p : Stood(e, p)
    BY <1>12 DEF Stood
  <2> QED
    BY <1>10, <1>13, <1>20, <2>1, StoodBefore
<1>22. IsFiniteSet(db')
  <2>1. db' \subseteq db \cup {z, e}
    BY <1>13
  <2> QED
    BY <2>1, TablesAre, FewMore
<1> QED
  BY <1>16, <1>17, <1>19, <1>21, <1>22 DEF Keeps, RefsSettled

LEMMA DeleteBookKeeps ==
  ASSUME LibInv, NEW r \in Request, delete_book(r)
  PROVE  Keeps
<1>1. r \in From
  BY DEF From
<1>2. Once(r) /\ pc[r] # "done" /\ pc'[r] = "done"
  BY <1>1 DEF delete_book, Once, Ends, LibInv, RequestsOK
<1>3. PICK x \in db : x.table = "book" /\ DeleteBook(r, x)
  BY DEF delete_book, Of
<1>4. PICK e : e = Event(r, 1, x.id)
  OBVIOUS
<1>5. x.id \in Id
  BY TablesAre, RowIs
<1>6. /\ e \in Rows /\ e.id[1] = r /\ e.table = "history"
      /\ \A p \in Parents : e.refs[p] # None => e.refs[p] = x.id
  BY <1>4, <1>5, EventIs
<1>7. db' = {y \in db \ {x} : ~(y.table \in {"read", "loan"} /\ y.refs["book"] = x.id)} \cup {e}
  BY <1>3, <1>4 DEF DeleteBook
<1>8. New(e.id) /\ \A y \in db : ~New(y.id)
  BY <1>2, <1>6, TablesAre DEF New, Settled
<1>9. ASSUME NEW y \in db, y \in db', y.table # "history", NEW p \in Parents, y.refs[p] # None
      PROVE  Has(db', p, y.refs[p])
  <2>1. PICK w \in db : w.table = p /\ w.id = y.refs[p]
    BY <1>9, TablesAre DEF Refers, Has
  <2>2. w # x
    <3>1. SUFFICES ASSUME w = x PROVE FALSE
      OBVIOUS
    <3>2. p = "book" /\ y.refs["book"] = x.id
      BY <1>3, <2>1, <3>1
    <3>3. "book" \in Columns(y.table) /\ y.table \in Table
      BY <1>9, <3>2, TablesAre, RowIs
    <3>4. y.table \in {"read", "loan"}
      BY <1>9, <3>3 DEF Columns, Table, Parents, Place
    <3>5. y # e
      BY <1>6, <1>9
    <3> QED
      BY <1>7, <1>9, <3>2, <3>4, <3>5
  <2>3. p \notin {"read", "loan"}
    BY DEF Parents
  <2> QED
    BY <1>7, <2>1, <2>2, <2>3 DEF Has
<1>10. \A y \in db' : y = e \/ y \in db
  BY <1>7
<1>11. \A y \in db' : Refers(db', y)
  BY <1>6, <1>9, <1>10, TablesAre DEF Refers
<1>12. Unique(db')
  BY <1>8, <1>10, TablesAre DEF Unique
<1>13. RefsSettled(e)
  BY <1>6, TablesAre DEF RefsSettled
<1>14. \A p : Stood(e, p)
  BY <1>6 DEF Stood
<1>15. IsFiniteSet(db')
  BY <1>10, TablesAre, FewMore
<1> QED
  BY <1>6, <1>8, <1>10, <1>11, <1>12, <1>13, <1>14, <1>15, StoodBefore, TablesAre DEF Keeps, RefsSettled

----------------------------------------------------------------------------
(* Snapshots of removed members *)

LEMMA SnapshotIs ==
  ASSUME NEW x \in Rows, x.table = "removed"
  PROVE  /\ x.key \in Member /\ x.id = <<Earlier, x.key>> /\ x.id[2] = x.key
         /\ \A p \in Parents : x.refs[p] = None
<1>1. x.key \in Member /\ x.id = <<Earlier, x.key>>
  BY RowIs
<1>2. \A p \in Parents : x.refs[p] = None
  BY RowIs DEF Columns, Place
<1> QED
  BY <1>1, <1>2

\* No row refers to a snapshot: any of them may come and go.
LEMMA SnapshotsKeep ==
  ASSUME LibInv, db' \subseteq Rows, Unique(db'), NEW z, db' \subseteq db \cup {z},
         \A x : x.table # "removed" => (x \in db' <=> x \in db)
  PROVE  Keeps
<1>1. \A p, i : p \in Parents /\ Has(db, p, i) => Has(db', p, i)
  BY DEF Has, Parents
<1>2. ASSUME NEW x \in db'
      PROVE  /\ Refers(db', x) /\ Kin(x) /\ RefsSettled(x)
             /\ \A p \in Parents : x.refs[p] # None => Stood(x, p)
  <2>1. CASE x.table = "removed"
    <3>1. \A p \in Parents : x.refs[p] = None
      BY <2>1, <1>2, SnapshotIs
    <3> QED
      BY <2>1, <3>1 DEF Refers, Kin, RefsSettled, Needs, Columns
  <2>2. CASE x.table # "removed"
    BY <2>2, <1>1, <1>2, TablesAre, StoodBefore DEF Refers
  <2> QED
    BY <2>1, <2>2
<1>3. IsFiniteSet(db')
  BY TablesAre, FewMore
<1> QED
  BY <1>2, <1>3 DEF Keeps, RefsSettled

LEMMA RecordRemovedKeeps ==
  ASSUME LibInv, NEW r \in Request, record_removed_member(r)
  PROVE  Keeps
<1>1. PICK u \in Member : RecordRemovedMember(u)
  BY DEF record_removed_member
<1>2. PICK id : id = <<Earlier, u>>
  OBVIOUS
<1>3. id \in Id /\ id[2] = u
  BY <1>2 DEF Id, From
<1>4. PICK z : z = Row("removed", id, NoRefs, u, "recent")
  OBVIOUS
<1>5. z.table = "removed" /\ z.id = id /\ z.key = u /\ z.refs = NoRefs
  BY <1>4 DEF Row
<1>6. z \in Rows
  <2>1. z \in [table : Table, id : Id, refs : [Parents -> Id \cup {None}],
               key : Index \cup Member \cup From \cup Position,
               data : Index \cup Member \cup {"none", "free", "unknown", "out", "back", "recent", "expired"}]
    BY <1>3, <1>4, NoRefsIs DEF Row, Table
  <2> QED
    BY <2>1, <1>2, <1>5, NoRefsIs DEF Rows, Place
<1>7. db' = {x \in db : ~(x.table = "removed" /\ x.key = u)} \cup {z}
  BY <1>1, <1>2, <1>4 DEF RecordRemovedMember
<1>8. ASSUME NEW y \in db, y \in db', y.id = id
      PROVE  y = z
  <2>1. y \in Rows
    BY TablesAre
  <2>2. y.table = "removed"
    BY <1>3, <1>8, <2>1, RowIs, MemberIsNoNumber
  <2>3. y.key = u
    BY <1>3, <1>8, <2>1, <2>2, SnapshotIs
  <2> QED
    BY <1>7, <1>8, <2>2, <2>3
<1>9. Unique(db')
  BY <1>5, <1>7, <1>8, TablesAre DEF Unique
<1>10. db' \subseteq Rows
  BY <1>6, <1>7, TablesAre
<1>11. \A x : x.table # "removed" => (x \in db' <=> x \in db)
  BY <1>5, <1>7
<1>12. db' \subseteq db \cup {z}
  BY <1>7
<1> QED
  BY <1>9, <1>10, <1>11, <1>12, SnapshotsKeep

LEMMA ExpireKeeps ==
  ASSUME LibInv, Expire
  PROVE  LibInv'
<1>1. PICK x \in db : /\ x.table = "removed"
                      /\ db' = (db \ {x}) \cup {[x EXCEPT !.data = "expired"]}
  BY DEF Expire, Of
<1>2. PICK z : z = [x EXCEPT !.data = "expired"]
  OBVIOUS
<1>3. x \in Rows
  BY TablesAre
<1>4. /\ x = [table |-> x.table, id |-> x.id, refs |-> x.refs, key |-> x.key, data |-> x.data]
      /\ x.table \in Table /\ x.id \in Id /\ x.refs \in [Parents -> Id \cup {None}]
      /\ x.key \in Index \cup Member \cup From \cup Position
      /\ \A p \in Parents : x.refs[p] # None => p \in Columns(x.table)
      /\ x.key \in Member /\ x.id = <<Earlier, x.key>>
  BY <1>1, <1>3, RowIs
<1>5. z = [table |-> x.table, id |-> x.id, refs |-> x.refs, key |-> x.key, data |-> "expired"]
  BY <1>2, <1>4
<1>6. z \in Rows /\ z.table = "removed" /\ z.id = x.id
  <2>1. z.table = x.table /\ z.id = x.id /\ z.refs = x.refs /\ z.key = x.key
    BY <1>5
  <2>2. z \in [table : Table, id : Id, refs : [Parents -> Id \cup {None}],
               key : Index \cup Member \cup From \cup Position,
               data : Index \cup Member \cup {"none", "free", "unknown", "out", "back", "recent", "expired"}]
    BY <1>4, <1>5
  <2> QED
    BY <1>1, <1>4, <2>1, <2>2 DEF Rows, Place
<1>7. db' = (db \ {x}) \cup {z}
  BY <1>1, <1>2
<1>8. Unique(db') /\ db' \subseteq Rows
  BY <1>6, <1>7, TablesAre DEF Unique
<1>9. \A y : y.table # "removed" => (y \in db' <=> y \in db)
  BY <1>1, <1>6, <1>7
<1> QED
  BY <1>8, <1>9, SnapshotsKeep, TimeKeeps DEF Expire

LEMMA PurgeKeeps ==
  ASSUME LibInv, PurgeExpiredPersonalData
  PROVE  LibInv'
<1>1. db' = {x \in db : ~(x.table = "removed" /\ x.data = "expired")}
  BY DEF PurgeExpiredPersonalData
<1>2. Unique(db') /\ db' \subseteq Rows
  BY <1>1, TablesAre DEF Unique
<1>3. \A y : y.table # "removed" => (y \in db' <=> y \in db)
  BY <1>1
<1> QED
  BY <1>2, <1>3, SnapshotsKeep, TimeKeeps DEF PurgeExpiredPersonalData

----------------------------------------------------------------------------
(* Tables that are read in pages *)

\* The table is one whose rows a page boundary does not cut.
InOrder(T) == IsFiniteSet(T) /\ Ordered(T) /\ \A x \in T : OrderedBy(x) \in Nat

LEMMA InOrderIs ==
  ASSUME LibInv, NEW t \in Paged, Ordered(Of(db, t))
  PROVE  InOrder(Of(db, t))
<1>1. Of(db, t) \in SUBSET db
  BY DEF Of
<1>2. IsFiniteSet(Of(db, t))
  BY <1>1, TablesAre, FS_Subset
<1>3. ASSUME NEW x \in Of(db, t)
      PROVE  OrderedBy(x) \in Nat
  <2>1. x \in Rows /\ x.table = t
    BY <1>1, TablesAre DEF Of
  <2>2. x.id[1] \in From /\ (x.table \in Place => x.key \in Index)
    BY <2>1, RowIs, IdIs
  <2> QED
    BY <2>2, RanksAreNumbers DEF OrderedBy
<1> QED
  BY <1>2, <1>3 DEF InOrder

\* Which rows come first is then not open.
LEMMA FirstsAre ==
  ASSUME NEW T, InOrder(T), NEW n, OffsetOK(n), NEW A \in Firsts(T, n), NEW B \in Firsts(T, n)
  PROVE  A = B
<1>1. n \in Nat /\ PageSize \in Nat \ {0} /\ Cardinality(T) \in Nat /\ IsFiniteSet(T)
  BY PagesHaveRows, FS_CardinalityType DEF OffsetOK, InOrder
<1>2. /\ A \in SUBSET T /\ B \in SUBSET T
      /\ Cardinality(A) = IF n < Cardinality(T) THEN n ELSE Cardinality(T)
      /\ Cardinality(B) = IF n < Cardinality(T) THEN n ELSE Cardinality(T)
      /\ \A x \in A, y \in T \ A : OrderedBy(x) <= OrderedBy(y)
      /\ \A x \in B, y \in T \ B : OrderedBy(x) <= OrderedBy(y)
  BY DEF Firsts
<1>3. IsFiniteSet(A) /\ IsFiniteSet(B)
  BY <1>1, <1>2, FS_Subset
<1>4. Cardinality(A) = Cardinality(B)
  BY <1>2
<1>5. CASE A \subseteq B \/ B \subseteq A
  <2>1. CASE A \in SUBSET B
    BY <2>1, <1>3, <1>4, FS_Subset
  <2>2. CASE B \in SUBSET A
    BY <2>2, <1>3, <1>4, FS_Subset
  <2> QED
    BY <1>5, <2>1, <2>2
<1>6. CASE ~(A \subseteq B \/ B \subseteq A)
  <2>1. PICK a \in A \ B, b \in B \ A : TRUE
    BY <1>6
  <2>2. a \in T /\ b \in T /\ OrderedBy(a) <= OrderedBy(b) /\ OrderedBy(b) <= OrderedBy(a)
    BY <1>2, <2>1
  <2>3. OrderedBy(a) = OrderedBy(b)
    BY <2>2 DEF InOrder
  <2>4. A # {} /\ A # T
    BY <1>2, <2>1
  <2>5. Cardinality(A) # 0
    BY <1>3, <2>4, FS_EmptySet
  <2>6. Cardinality(A) # Cardinality(T)
    BY <1>1, <1>2, <2>4, FS_Subset
  <2>7. n < Cardinality(T) /\ n # 0
    BY <1>1, <1>2, <2>5, <2>6
  <2>8. ~(Cardinality(T) <= PageSize)
    BY <1>1, <2>7 DEF OffsetOK
  <2> QED
    BY <2>1, <2>2, <2>3, <2>8 DEF InOrder, Ordered
<1> QED
  BY <1>5, <1>6

\* With the next page, so many rows more have been read; the last page is the
\* end of the table.
LEMMA ReadOn ==
  ASSUME NEW T, InOrder(T), NEW n, OffsetOK(n), NEW A \in Firsts(T, n), NEW page \in Pages(T, n)
  PROVE  /\ A \cup page \in Firsts(T, n + PageSize)
         /\ Last(page) => A \cup page = T
<1>1. n \in Nat /\ PageSize \in Nat \ {0} /\ Cardinality(T) \in Nat /\ IsFiniteSet(T)
  BY PagesHaveRows, FS_CardinalityType DEF OffsetOK, InOrder
<1>2. PICK C \in Firsts(T, n), D \in Firsts(T, n + PageSize) : C \subseteq D /\ page = D \ C
  BY DEF Pages
<1>3. A = C
  BY FirstsAre
<1>4. A \cup page = D
  BY <1>2, <1>3
<1>5. ASSUME Last(page)
      PROVE  D = T
  <2>1. /\ C \in SUBSET T /\ D \in SUBSET T
        /\ Cardinality(C) = IF n < Cardinality(T) THEN n ELSE Cardinality(T)
        /\ Cardinality(D) = IF n + PageSize < Cardinality(T) THEN n + PageSize ELSE Cardinality(T)
    BY DEF Firsts
  <2>2. IsFiniteSet(C) /\ IsFiniteSet(page)
    <3>1. page \in SUBSET T
      BY <1>2, <2>1
    <3> QED
      BY <1>1, <2>1, <3>1, FS_Subset
  <2>3. Cardinality(C \cup page) = Cardinality(C) + Cardinality(page) - Cardinality(C \cap page)
    BY <2>2, FS_Union
  <2>4. C \cup page = D /\ C \cap page = {} /\ Cardinality({}) = 0
    BY <1>2, FS_EmptySet
  <2>5. Cardinality(page) \in Nat /\ Cardinality(C) \in Nat
    BY <2>2, FS_CardinalityType
  <2>6. Cardinality(D) < Cardinality(C) + PageSize
    <3>1. Cardinality(C \cap page) = 0
      BY <2>4
    <3>2. PICK E : E = C \cup page
      OBVIOUS
    <3>3. E = D /\ Cardinality(E) = Cardinality(C) + Cardinality(page)
      BY <2>3, <2>4, <2>5, <3>1, <3>2
    <3>4. Cardinality(page) < PageSize
      BY <1>5 DEF Last
    <3> QED
      BY <1>1, <2>5, <3>3, <3>4
  <2>7. Cardinality(D) = Cardinality(T)
    BY <1>1, <2>1, <2>6
  <2> QED
    BY <1>1, <2>1, <2>7, FS_Subset
<1> QED
  BY <1>2, <1>4, <1>5

LEMMA PageIsOf ==
  ASSUME NEW T, NEW n, NEW page \in Pages(T, n)
  PROVE  page \subseteq T
BY DEF Pages, Firsts

LEMMA NextOffset ==
  ASSUME NEW n, OffsetOK(n)
  PROVE  OffsetOK(n + PageSize)
BY PagesHaveRows DEF OffsetOK

----------------------------------------------------------------------------
(* The backup *)

LEMMA ReadOrderIs ==
  /\ Len(ReadOrder) = 11 /\ DOMAIN ReadOrder = 1 .. 11
  /\ \A i, j \in 1 .. 11 : ReadOrder[i] = ReadOrder[j] => i = j
  /\ \A i \in 1 .. 11 : ReadOrder[i] \notin Plans \cup {"cycle"}
  /\ \A t \in Table \ (Plans \cup {"cycle"}) : \E i \in 1 .. 11 : ReadOrder[i] = t
<1>1. /\ ReadOrder[1] = "room" /\ ReadOrder[2] = "bookcase" /\ ReadOrder[3] = "section"
      /\ ReadOrder[4] = "shelf" /\ ReadOrder[5] = "record" /\ ReadOrder[6] = "book"
      /\ ReadOrder[7] = "read" /\ ReadOrder[8] = "loan" /\ ReadOrder[9] = "history"
      /\ ReadOrder[10] = "wish" /\ ReadOrder[11] = "removed"
      /\ Len(ReadOrder) = 11 /\ DOMAIN ReadOrder = 1 .. 11
  BY DEF ReadOrder
<1>2. \A i \in 1 .. 11 : i \in {1, 2, 3, 4, 5, 6, 7, 8, 9, 10, 11}
  OBVIOUS
<1>3. \A i \in 1 .. 11 : ReadOrder[i] \notin Plans \cup {"cycle"}
  BY <1>1, <1>2 DEF Plans
<1>4. \A t \in Table \ (Plans \cup {"cycle"}) : \E i \in 1 .. 11 : ReadOrder[i] = t
  BY <1>1 DEF Parents, Table
<1>5. ASSUME NEW i \in 1 .. 11, NEW j \in 1 .. 11, ReadOrder[i] = ReadOrder[j]
      PROVE  i = j
  <2>1. i \in {1, 2, 3, 4, 5, 6} \/ i \in {7, 8, 9, 10, 11}
    OBVIOUS
  <2>2. CASE i \in {1, 2, 3, 4, 5, 6}
    BY <2>2, <1>1, <1>2, <1>5
  <2>3. CASE i \in {7, 8, 9, 10, 11}
    BY <2>3, <1>1, <1>2, <1>5
  <2> QED
    BY <2>1, <2>2, <2>3
<1> QED
  BY <1>1, <1>3, <1>4, <1>5

LEMMA ExportStartsOwn ==
  ASSUME LibInv, NEW r \in Request, export_full_library(r)
  PROVE  Frame(r) /\ Keeps /\ Own(r)
<1>1. PICK j : j = [kind |-> "export", at |-> 1, offset |-> 0]
  OBVIOUS
<1>2. PICK state \in States : state = "exporting"
  BY DEF States
<1>3. Starts(r, state, j) /\ j = [kind |-> "export", at |-> 1, offset |-> 0]
  BY <1>1, <1>2 DEF export_full_library
<1> QED
  BY <1>2, <1>3, StartsOwn

\* A statement of the backup: what it reads, and where it goes on.
LEMMA ExportPageIs ==
  ASSUME LibInv, NEW r \in Request, ExportPage(r), NEW t, t = ReadOrder[job[r].at]
  PROVE  /\ pc[r] = "exporting" /\ job[r].at \in 1 .. 11
         /\ \E page \in IF t \in Paged THEN Pages(Joined(t), job[r].offset) ELSE {Joined(t)} :
              /\ page \subseteq Joined(t)
              /\ file'[r] = file[r] \cup page
              /\ job'[r] = IF t \in Paged /\ ~Last(page)
                           THEN [kind |-> "export", at |-> job[r].at, offset |-> job[r].offset + PageSize]
                           ELSE [kind |-> "export", at |-> job[r].at + 1, offset |-> 0]
         /\ \A s \in From \ {r} : file'[s] = file[s]
         /\ file' = [s \in From |-> file'[s]]
         /\ \A s \in Request \ {r} : job'[s] = job[s]
         /\ job' = [s \in Request |-> job'[s]]
         /\ db' = db /\ pc' = pc /\ image' = image /\ before' = before
<1>1. r \in From /\ file \in [From -> SUBSET Rows] /\ job = [s \in Request |-> job[s]]
  BY DEF From, LibInv, RequestsOK
<1>2. PagesOK(r) /\ pc[r] = "exporting" /\ job[r].at <= Len(ReadOrder)
  BY DEF LibInv, ExportPage
<1>3. /\ job[r] = [kind |-> "export", at |-> job[r].at, offset |-> job[r].offset]
      /\ job[r].at \in 1 .. 11
  BY <1>2, ReadOrderIs DEF PagesOK
<1>4. PICK page \in IF t \in Paged THEN Pages(Joined(t), job[r].offset) ELSE {Joined(t)} :
        /\ file' = [file EXCEPT ![r] = @ \cup page]
        /\ job' = IF t \in Paged /\ ~Last(page)
                  THEN [job EXCEPT ![r].offset = @ + PageSize]
                  ELSE [job EXCEPT ![r].at = job[r].at + 1, ![r].offset = 0]
  BY DEF ExportPage
<1>5. page \subseteq Joined(t)
  BY PageIsOf
<1>6. /\ file'[r] = file[r] \cup page /\ \A s \in From \ {r} : file'[s] = file[s]
      /\ file' = [s \in From |-> file'[s]]
  BY <1>1, <1>4
<1>7. /\ job'[r] = IF t \in Paged /\ ~Last(page)
                   THEN [kind |-> "export", at |-> job[r].at, offset |-> job[r].offset + PageSize]
                   ELSE [kind |-> "export", at |-> job[r].at + 1, offset |-> 0]
      /\ \A s \in Request \ {r} : job'[s] = job[s]
      /\ job' = [s \in Request |-> job'[s]]
  <2>1. CASE t \in Paged /\ ~Last(page)
    <3>1. PICK j : j = [job[r] EXCEPT !.offset = @ + PageSize]
      OBVIOUS
    <3>2. job' = [job EXCEPT ![r] = j]
      BY <1>4, <2>1, <3>1
    <3>3. j = [kind |-> "export", at |-> job[r].at, offset |-> job[r].offset + PageSize]
      BY <1>3, <3>1
    <3> QED
      BY <1>1, <2>1, <3>2, <3>3
  <2>2. CASE ~(t \in Paged /\ ~Last(page))
    <3>1. PICK j : j = [job[r] EXCEPT !.at = job[r].at + 1, !.offset = 0]
      OBVIOUS
    <3>2. job' = [job EXCEPT ![r] = j]
      BY <1>1, <1>4, <2>2, <3>1
    <3>3. j = [kind |-> "export", at |-> job[r].at + 1, offset |-> 0]
      <4>1. PICK k : k = [job[r] EXCEPT !.at = job[r].at + 1]
        OBVIOUS
      <4>2. k = [kind |-> "export", at |-> job[r].at + 1, offset |-> job[r].offset]
        BY <1>3, <4>1
      <4>3. j = [k EXCEPT !.offset = 0]
        BY <3>1, <4>1
      <4> QED
        BY <4>2, <4>3
    <3> QED
      BY <1>1, <2>2, <3>2, <3>3
  <2> QED
    BY <2>1, <2>2
<1>8. db' = db /\ pc' = pc /\ image' = image /\ before' = before
  BY DEF ExportPage
<1> QED
  BY <1>2, <1>3, <1>4, <1>5, <1>6, <1>7, <1>8

\* What has been read of the table that is read, and of the others.
LEMMA ExportPageReads ==
  ASSUME LibInv, NEW r \in Request, ExportPage(r)
  PROVE  PagesOK(r)' /\ BackupOK(r)' /\ file'[r] \subseteq file[r] \cup db /\ FileOK(file'[r])
<1>1. PICK at, t, offset : at = job[r].at /\ t = ReadOrder[at] /\ offset = job[r].offset
  OBVIOUS
<1>2. PICK page \in IF t \in Paged THEN Pages(Joined(t), offset) ELSE {Joined(t)} :
        /\ page \subseteq Joined(t)
        /\ file'[r] = file[r] \cup page
        /\ job'[r] = IF t \in Paged /\ ~Last(page)
                     THEN [kind |-> "export", at |-> at, offset |-> offset + PageSize]
                     ELSE [kind |-> "export", at |-> at + 1, offset |-> 0]
  BY <1>1, ExportPageIs
<1>3. /\ pc[r] = "exporting" /\ at \in 1 .. 11
      /\ db' = db /\ pc' = pc /\ before' = before
  BY <1>1, ExportPageIs
<1>4. Len(ReadOrder) = 11 /\ \A i \in 1 .. 11 : ReadOrder[i] = t => i = at
  BY <1>1, <1>3, ReadOrderIs
<1>5. /\ OffsetOK(offset) /\ (offset = 0 \/ t \in Paged)
      /\ \A x \in file[r] : \E i \in 1 .. at : x.table = ReadOrder[i]
      /\ offset = 0 => \A x \in file[r] : \E i \in 1 .. (at - 1) : x.table = ReadOrder[i]
  <2>1. PagesOK(r)
    BY DEF LibInv
  <2>2. /\ OffsetOK(offset) /\ (offset = 0 \/ t \in Paged)
        /\ \A x \in file[r] : \E i \in 1 .. at : i <= 11 /\ x.table = ReadOrder[i]
        /\ offset = 0 => \A x \in file[r] : \E i \in 1 .. (at - 1) : x.table = ReadOrder[i]
    BY <1>1, <1>3, <1>4, <2>1 DEF PagesOK
  <2> QED
    BY <2>2
<1>6. page \subseteq db /\ \A x \in page : x.table = t
  BY <1>2 DEF Joined, Of
<1>7. FileOK(file'[r])
  <2>1. FileOK(file[r])
    BY DEF LibInv, From
  <2>2. t \notin Plans \cup {"cycle"}
    BY <1>1, <1>3, ReadOrderIs
  <2> QED
    BY <1>2, <1>6, <2>1, <2>2 DEF FileOK
<1>8. \A x \in file'[r] : \E i \in 1 .. at : x.table = ReadOrder[i]
  BY <1>1, <1>2, <1>3, <1>5, <1>6
<1>9. CASE t \in Paged /\ ~Last(page)
  <2>1. /\ job'[r] = [kind |-> "export", at |-> at, offset |-> offset + PageSize]
        /\ job'[r].at = at /\ job'[r].offset = offset + PageSize
    BY <1>2, <1>9
  <2>2. OffsetOK(offset + PageSize) /\ offset + PageSize # 0
    BY <1>5, NextOffset, PagesHaveRows DEF OffsetOK
  <2>3. PagesOK(r)'
    BY <1>1, <1>3, <1>4, <1>8, <1>9, <2>1, <2>2 DEF PagesOK
  <2>4. ASSUME Alone(r)', \A u \in Paged : Ordered(Of(db, u))'
        PROVE  /\ \A i \in 1 .. (at - 1) :
                    ReadOrder[i] # "removed" => Of(file'[r], ReadOrder[i]) = Joined(ReadOrder[i])
               /\ Of(file'[r], t) \in Firsts(Of(db, t), offset + PageSize)
    <3>1. Alone(r) /\ \A u \in Paged : Ordered(Of(db, u))
      BY <1>3, <2>4 DEF Alone, Overlap, Ordered, OrderedBy
    <3>2. /\ \A i \in 1 .. (at - 1) :
               ReadOrder[i] # "removed" => Of(file[r], ReadOrder[i]) = Joined(ReadOrder[i])
          /\ Of(file[r], t) \in Firsts(Of(db, t), offset)
      BY <1>1, <1>3, <1>4, <1>9, <3>1 DEF LibInv, BackupOK
    <3>3. \A i \in 1 .. (at - 1) : Of(file'[r], ReadOrder[i]) = Of(file[r], ReadOrder[i])
      <4>1. \A i \in 1 .. (at - 1) : ReadOrder[i] # t
        BY <1>3, <1>4
      <4> QED
        BY <1>2, <1>6, <4>1 DEF Of
    <3>4. Of(file'[r], t) = Of(file[r], t) \cup page
      BY <1>2, <1>6 DEF Of
    <3>5. Joined(t) = Of(db, t)
      BY <1>9 DEF Joined, Paged, Place
    <3>6. InOrder(Of(db, t))
      BY <1>9, <3>1, InOrderIs
    <3>7. Of(file[r], t) \cup page \in Firsts(Of(db, t), offset + PageSize)
      BY <1>2, <1>5, <1>9, <3>2, <3>5, <3>6, ReadOn
    <3> QED
      BY <3>2, <3>3, <3>4, <3>7
  <2>5. BackupOK(r)'
    <3>1. \A u : Joined(u)' = Joined(u)
      BY <1>3 DEF Joined, Of, Has
    <3> QED
      BY <1>1, <1>3, <1>4, <2>1, <2>4, <3>1 DEF BackupOK
  <2> QED
    BY <1>2, <1>6, <1>7, <2>3, <2>5
<1>10. CASE ~(t \in Paged /\ ~Last(page))
  <2>1. /\ job'[r] = [kind |-> "export", at |-> at + 1, offset |-> 0]
        /\ job'[r].at = at + 1 /\ job'[r].offset = 0 /\ job'[r].at - 1 = at
    BY <1>2, <1>3, <1>10
  <2>2. PagesOK(r)'
    <3>1. \A x \in file'[r] : \E i \in 1 .. (at + 1) : i <= 11 /\ x.table = ReadOrder[i]
      BY <1>3, <1>8
    <3> QED
      BY <1>3, <1>4, <1>8, <2>1, <3>1 DEF PagesOK, OffsetOK
  <2>3. ASSUME Alone(r)', \A u \in Paged : Ordered(Of(db, u))'
        PROVE  \A i \in 1 .. at :
                 ReadOrder[i] # "removed" => Of(file'[r], ReadOrder[i]) = Joined(ReadOrder[i])
    <3>1. Alone(r) /\ \A u \in Paged : Ordered(Of(db, u))
      BY <1>3, <2>3 DEF Alone, Overlap, Ordered, OrderedBy
    <3>2. /\ \A i \in 1 .. (at - 1) :
               ReadOrder[i] # "removed" => Of(file[r], ReadOrder[i]) = Joined(ReadOrder[i])
          /\ t \in Paged => Of(file[r], t) \in Firsts(Of(db, t), offset)
      BY <1>1, <1>3, <1>4, <3>1 DEF LibInv, BackupOK
    <3>3. \A i \in 1 .. (at - 1) : Of(file'[r], ReadOrder[i]) = Of(file[r], ReadOrder[i])
      <4>1. \A i \in 1 .. (at - 1) : ReadOrder[i] # t
        BY <1>3, <1>4
      <4> QED
        BY <1>2, <1>6, <4>1 DEF Of
    <3>4. Of(file'[r], t) = Of(file[r], t) \cup page
      BY <1>2, <1>6 DEF Of
    <3>5. CASE t \in Paged
      <4>1. Joined(t) = Of(db, t)
        BY <3>5 DEF Joined, Paged, Place
      <4>2. InOrder(Of(db, t))
        BY <3>1, <3>5, InOrderIs
      <4>3. Of(file[r], t) \cup page = Of(db, t)
        <5>1. page \in Pages(Of(db, t), offset) /\ Last(page)
          BY <1>2, <1>10, <3>5, <4>1
        <5>2. PICK T, A : T = Of(db, t) /\ A = Of(file[r], t)
          OBVIOUS
        <5>3. A \in Firsts(T, offset) /\ InOrder(T) /\ page \in Pages(T, offset)
          BY <3>2, <3>5, <4>2, <5>1, <5>2
        <5>4. Last(page) => A \cup page = T
          BY <1>5, <5>3, ReadOn
        <5> QED
          BY <5>1, <5>2, <5>4
      <4>4. Of(file'[r], ReadOrder[at]) = Joined(ReadOrder[at])
        BY <1>1, <3>4, <4>1, <4>3
      <4> QED
        BY <1>3, <3>2, <3>3, <4>4
    <3>6. CASE t \notin Paged
      <4>1. Of(file[r], t) = {}
        BY <1>3, <1>4, <1>5, <3>6 DEF Of
      <4>2. page = Joined(t)
        BY <1>2, <3>6
      <4> QED
        BY <1>1, <1>3, <3>2, <3>3, <3>4, <4>1, <4>2
    <3> QED
      BY <3>5, <3>6
  <2>4. ASSUME NEW u \in Paged, at + 1 <= 11, ReadOrder[at + 1] = u
        PROVE  Of(file'[r], u) \in Firsts(Of(db, u), 0)
    <3>1. \A i \in 1 .. at : ReadOrder[i] # u
      BY <1>3, <2>4, ReadOrderIs
    <3>2. Of(file'[r], u) = {}
      BY <1>8, <3>1 DEF Of
    <3>3. Of(db, u) \in SUBSET db
      BY DEF Of
    <3>4. IsFiniteSet(Of(db, u))
      BY <3>3, TablesAre, FS_Subset
    <3> QED
      BY <3>2, <3>4, NoneFirst
  <2>5. BackupOK(r)'
    <3>1. \A u : Joined(u)' = Joined(u)
      BY <1>3 DEF Joined, Of, Has
    <3>2. \A u : u \in Paged /\ at + 1 <= 11 /\ ReadOrder[at + 1] = u =>
                   Of(file'[r], u) \in Firsts(Of(db', u), 0)
      BY <1>3, <2>4
    <3> QED
      BY <1>3, <1>4, <2>1, <2>3, <3>1, <3>2 DEF BackupOK
  <2> QED
    BY <1>2, <1>6, <1>7, <2>2, <2>5
<1> QED
  BY <1>9, <1>10

LEMMA ExportPageOwn ==
  ASSUME LibInv, NEW r \in Request, ExportPage(r)
  PROVE  Frame(r) /\ Keeps /\ Own(r)
<1>1. /\ pc[r] = "exporting" /\ db' = db /\ pc' = pc /\ image' = image /\ before' = before
      /\ \A s \in From \ {r} : file'[s] = file[s]
      /\ file' = [s \in From |-> file'[s]]
      /\ \A s \in Request \ {r} : job'[s] = job[s]
      /\ job' = [s \in Request |-> job'[s]]
  BY ExportPageIs
<1>2. /\ pc \in [From -> States] /\ file \in [From -> SUBSET Rows]
      /\ image = [s \in Request |-> image[s]] /\ before \in [Request -> SUBSET Request]
  BY DEF LibInv, RequestsOK
<1>3. PagesOK(r)' /\ BackupOK(r)' /\ file'[r] \subseteq file[r] \cup db /\ FileOK(file'[r])
  BY ExportPageReads
<1>4. file' \in [From -> SUBSET Rows]
  <2>1. db \subseteq Rows
    BY TablesAre
  <2>2. ASSUME NEW s \in From
        PROVE  file'[s] \in SUBSET Rows
    <3>1. CASE s = r
      BY <1>2, <1>3, <2>1, <3>1
    <3>2. CASE s # r
      BY <1>1, <1>2, <3>2
    <3> QED
      BY <3>1, <3>2
  <2> QED
    BY <1>1, <2>2
<1>5. Frame(r)
  <2>1. pc'[r] # "idle" /\ pc[r] # "done" /\ pc[r] # "idle"
    BY <1>1
  <2> QED
    BY <1>1, <1>2, <1>4, <2>1 DEF Frame
<1>6. Own(r)
  BY <1>1, <1>3 DEF Own, ImportOK, WipeOK, ListOK
<1> QED
  BY <1>1, <1>5, <1>6, SameTables

LEMMA ExportEndsOwn ==
  ASSUME LibInv, NEW r \in Request, ExportEnds(r)
  PROVE  Frame(r) /\ Keeps /\ Own(r)
<1>1. /\ pc[r] = "exporting" /\ Ends(r) /\ UNCHANGED <<db, file, image, before>>
  BY DEF ExportEnds
<1>2. image' = [s \in Request |-> image'[s]]
  BY <1>1 DEF LibInv, RequestsOK
<1>3. Frame(r) /\ Own(r)
  BY <1>1, <1>2, EndsOwn
<1> QED
  BY <1>1, <1>3, SameTables

----------------------------------------------------------------------------
(* The restore *)

LEMMA NoMapIs == DOMAIN NoMap = {}
BY DEF NoMap

LEMMA ImportedIs ==
  /\ Imported \subseteq Table \ {"removed"}
  /\ \A t \in Table : t \in Imported \/ t \in {"removed", "cycle"} \cup Plans
<1>1. DOMAIN ImportOrder = 1 .. 10
  BY DEF ImportOrder
<1>2. /\ ImportOrder[1] = "record" /\ ImportOrder[2] = "room" /\ ImportOrder[3] = "bookcase"
      /\ ImportOrder[4] = "section" /\ ImportOrder[5] = "shelf" /\ ImportOrder[6] = "book"
      /\ ImportOrder[7] = "read" /\ ImportOrder[8] = "loan" /\ ImportOrder[9] = "history"
      /\ ImportOrder[10] = "wish"
  BY DEF ImportOrder
<1>3. Imported = {"record", "room", "bookcase", "section", "shelf", "book",
                  "read", "loan", "history", "wish"}
  <2>1. \A i \in 1 .. 10 : i \in {1, 2, 3, 4, 5, 6, 7, 8, 9, 10}
    OBVIOUS
  <2>2. ASSUME NEW t, t \in {"record", "room", "bookcase", "section", "shelf", "book",
                             "read", "loan", "history", "wish"}
        PROVE  \E i \in 1 .. 10 : t = ImportOrder[i]
    BY <1>2, <2>2
  <2> QED
    BY <1>1, <1>2, <2>1, <2>2 DEF Imported
<1> QED
  BY <1>3 DEF Table, Parents, Plans

\* At first nothing has been restored.
LEMMA NothingRestored ==
  ASSUME NEW r \in Request, NEW f \in SUBSET Rows, FileOK(f), Valid(f), NEW known,
         NEW j, j = [kind |-> "import", file |-> f, known |-> known, seen |-> db, next |-> 1,
                     todo |-> {x \in f : x.table \in Imported}, flush |-> {}, added |-> {},
                     found |-> {}, to |-> NoMap]
  PROVE  Restoring(r, j)'
<1>1. /\ j.file = f /\ j.todo = {x \in f : x.table \in Imported} /\ j.next = 1 /\ j.flush = {}
      /\ j.added = {} /\ j.found = {} /\ DOMAIN j.to = {}
  BY NoMapIs
<1>2. \A x \in Passed(j) : x.table = "removed"
  <2>1. \A x \in f : x.table \notin Plans \cup {"cycle"} /\ x.table \in Table
    BY RowIs DEF FileOK
  <2> QED
    BY <1>1, <2>1, ImportedIs DEF Passed
<1>3. IsFiniteSet({})
  BY FS_EmptySet
<1>4. Whole(r, j)
  BY <1>1, <1>2 DEF Whole
<1> QED
  BY <1>1, <1>2, <1>3, <1>4 DEF Restoring, Unique

LEMMA ImportStartsOwn ==
  ASSUME LibInv, NEW r \in Request, import_full_library(r)
  PROVE  Frame(r) /\ Keeps /\ Own(r)
<1>1. PICK f \in {file[s] : s \in From}, known \in {{}, Member} :
        /\ Valid(f)
        /\ Starts(r, "importing",
                  [kind |-> "import", file |-> f, known |-> known, seen |-> db, next |-> 1,
                   todo |-> {x \in f : x.table \in Imported}, flush |-> {}, added |-> {},
                   found |-> {}, to |-> NoMap])
  BY DEF import_full_library
<1>2. f \in SUBSET Rows /\ FileOK(f)
  BY <1>1 DEF LibInv, RequestsOK
<1>3. PICK j : j = [kind |-> "import", file |-> f, known |-> known, seen |-> db, next |-> 1,
                    todo |-> {x \in f : x.table \in Imported}, flush |-> {}, added |-> {},
                    found |-> {}, to |-> NoMap]
  OBVIOUS
<1>4. Restoring(r, j)' /\ j.found = {}
  BY <1>1, <1>2, <1>3, NothingRestored
<1>5. PICK state \in States : state = "importing"
  BY DEF States
<1>6. Starts(r, state, j)
  BY <1>1, <1>3, <1>5
<1> QED
  BY <1>4, <1>5, <1>6, StartsOwn

\* When a row's turn has come, what it refers to has become something. It has
\* not, if the file names no two rows alike.
LEMMA TurnIs ==
  ASSUME NEW r, NEW j, Restoring(r, j), NEW x \in j.todo, Turn(x, j.todo)
  PROVE  /\ ~LeftOut(x, j.to) => \A p \in Parents : x.refs[p] # None => x.refs[p] \in DOMAIN j.to
         /\ Unique(j.file) => x.id \notin DOMAIN j.to
         /\ LeftOut(x, j.to) => x.table = "wish" /\ ~Has(j.file, "record", x.refs["record"])
<1>1. x \in j.file /\ x \in Rows /\ x.table \in Imported
  BY DEF Restoring
<1>2. PICK i \in DOMAIN ImportOrder :
        /\ x.table = ImportOrder[i]
        /\ \A y \in j.todo, k \in 1 .. (i - 1) : y.table # ImportOrder[k]
  BY DEF Turn
<1>3. ASSUME NEW p \in Parents, p \in Columns(x.table), NEW z \in j.file, z.table = p
      PROVE  z.id \in DOMAIN j.to
  <2>1. \E k \in 1 .. (i - 1) : ImportOrder[k] = p
    BY <1>2, <1>3, ColumnsComeFirst
  <2>2. z \notin j.todo
    BY <1>2, <1>3, <2>1
  <2>3. z \in Passed(j) /\ z.table # "removed" /\ z.table # "wish"
    BY <1>3, <2>2 DEF Passed, Parents
  <2> QED
    BY <2>3 DEF Restoring, Named
<1>4. ASSUME ~LeftOut(x, j.to), NEW p \in Parents, x.refs[p] # None
      PROVE  x.refs[p] \in DOMAIN j.to
  <2>1. p \in Columns(x.table)
    BY <1>1, <1>4, RowIs
  <2>2. CASE x.table = "wish"
    BY <2>1, <2>2, <1>4 DEF Columns, LeftOut
  <2>3. CASE x.table # "wish"
    <3>1. PICK z \in j.file : z.table = p /\ z.id = x.refs[p]
      BY <2>3, <1>1, <1>4 DEF Restoring, Valid, Has
    <3> QED
      BY <3>1, <2>1, <1>3
  <2> QED
    BY <2>2, <2>3
<1>5. ASSUME Unique(j.file)
      PROVE  x.id \notin DOMAIN j.to
  <2>1. SUFFICES ASSUME x.id \in DOMAIN j.to PROVE FALSE
    OBVIOUS
  <2>2. PICK z \in Passed(j) : z.id = x.id
    BY <2>1 DEF Restoring
  <2>3. z \in j.file /\ z # x
    BY <2>2 DEF Passed
  <2> QED
    BY <2>2, <2>3, <1>1, <1>5 DEF Unique
<1>6. ASSUME LeftOut(x, j.to)
      PROVE  x.table = "wish" /\ ~Has(j.file, "record", x.refs["record"])
  <2>1. SUFFICES ASSUME Has(j.file, "record", x.refs["record"]) PROVE FALSE
    BY <1>6 DEF LeftOut
  <2>2. PICK z \in j.file : z.table = "record" /\ z.id = x.refs["record"]
    BY <2>1 DEF Has
  <2>3. "record" \in Columns(x.table) /\ "record" \in Parents
    BY <1>6 DEF Columns, Parents, LeftOut
  <2> QED
    BY <1>3, <1>6, <2>2, <2>3 DEF LeftOut
<1> QED
  BY <1>4, <1>5, <1>6

\* A row that has been brought stays so when more is restored.
LEMMA BroughtStays ==
  ASSUME NEW j, NEW k, NEW x, Brought(j, x),
         j.added \subseteq k.added, j.found \subseteq k.found,
         DOMAIN j.to \subseteq DOMAIN k.to,
         \A i \in DOMAIN j.to : k.to[i] = j.to[i]
  PROVE  /\ Brought(k, x)
         /\ \A y : Became(j.to, x, y) => Became(k.to, x, y)
<1>1. Named(j, x) /\ Named(k, x)
  BY DEF Brought, Named
<1>2. \A y : Became(j.to, x, y) => Became(k.to, x, y)
  BY <1>1 DEF Named, Became
<1>3. Mapped(x, k.to) = Mapped(x, j.to)
  BY <1>1 DEF Named, Mapped
<1> QED
  BY <1>1, <1>2, <1>3 DEF Brought

\* What the restored row refers to.
LEMMA MappedIs ==
  ASSUME NEW r, NEW j, Restoring(r, j), NEW x \in j.todo, Turn(x, j.todo), ~LeftOut(x, j.to)
  PROVE  /\ Mapped(x, j.to) \in [Parents -> Id \cup {None}]
         /\ \A p \in Parents : /\ x.refs[p] = None => Mapped(x, j.to)[p] = None
                               /\ x.refs[p] # None => /\ Mapped(x, j.to)[p] = j.to[x.refs[p]]
                                                      /\ Mine(r, Mapped(x, j.to)[p])
<1>1. \A p \in Parents : x.refs[p] # None => x.refs[p] \in DOMAIN j.to
  BY TurnIs
<1>2. \A i \in DOMAIN j.to : j.to[i] \in Id /\ Mine(r, j.to[i])
  BY DEF Restoring, Mine, Given
<1> QED
  BY <1>1, <1>2 DEF Mapped

LEMMA CopiedIs ==
  ASSUME NEW r \in Request, NEW j, Restoring(r, j), NEW x \in j.todo, Turn(x, j.todo),
         ~LeftOut(x, j.to), NEW y, y = Copied(r, j, x)
  PROVE  /\ y \in Rows /\ y.table = x.table /\ y.key = x.key
         /\ y.id \in Id /\ y.id = <<r, j.next>> /\ y.id[1] = r /\ y.id[2] = j.next
         /\ y.refs = Mapped(x, j.to)
         /\ x.table # "book" => y.data = x.data
<1>1. x \in Rows /\ x.table \in Imported /\ j.next \in Nat
  BY DEF Restoring
<1>2. /\ x.table \in Table /\ x.table # "removed"
      /\ x.key \in Index \cup Member \cup From \cup Position
      /\ x.table \in Place => x.key \in Index
      /\ x.data \in Index \cup Member \cup {"none", "free", "unknown", "out", "back", "recent", "expired"}
      /\ \A p \in Parents : x.refs[p] # None => p \in Columns(x.table)
  BY <1>1, RowIs, ImportedIs
<1>3. r \in From
  BY DEF From
<1>4. PICK i \in Id : i = <<r, j.next>> /\ i[1] = r /\ i[2] = j.next
  <2>1. PICK n \in Nat : n = j.next
    BY <1>1
  <2>2. <<r, n>> \in Id /\ <<r, n>>[1] = r /\ <<r, n>>[2] = n
    BY <1>3, IdIn
  <2> QED
    BY <2>1, <2>2
<1>5. PICK refs : refs = Mapped(x, j.to)
  OBVIOUS
<1>6. /\ refs \in [Parents -> Id \cup {None}]
      /\ \A p \in Parents : refs[p] # None => p \in Columns(x.table)
  BY <1>2, <1>5, MappedIs
<1>7. PICK data : data = Data(x, j.known)
  OBVIOUS
<1>8. /\ data \in Index \cup Member \cup {"none", "free", "unknown", "out", "back", "recent", "expired"}
      /\ x.table # "book" => data = x.data
  BY <1>2, <1>7 DEF Data
<1>9. y = Row(x.table, i, refs, x.key, data)
  BY <1>4, <1>5, <1>7 DEF Copied
<1> QED
  BY <1>1, <1>2, <1>4, <1>5, <1>6, <1>8, <1>9, RowIn

\* The rows a restored row has become alike to.
LEMMA AlikeBecame ==
  ASSUME NEW r, NEW j, Restoring(r, j), NEW x \in j.todo, Turn(x, j.todo), ~LeftOut(x, j.to),
         NEW y, Alike(x, Mapped(x, j.to), y),
         NEW to, DOMAIN to = DOMAIN j.to \cup {x.id}, to[x.id] = y.id,
         \A i \in DOMAIN j.to : to[i] = j.to[i]
  PROVE  Became(to, x, y)
<1>1. \A p \in Parents : x.refs[p] # None => /\ x.refs[p] \in DOMAIN j.to
                                             /\ Mapped(x, j.to)[p] = j.to[x.refs[p]]
  BY TurnIs, MappedIs
<1> QED
  BY <1>1 DEF Alike, Became

\* One row of the file more has become something, or is left out.
LEMMA RestoredKeeps ==
  ASSUME LibInv, NEW r \in Request, pc[r] # "done", NEW j, Restoring(r, j),
         NEW x \in j.todo, Turn(x, j.todo),
         NEW added \in SUBSET Rows, NEW found, NEW to,
         IsFiniteSet(added), j.added \subseteq added, j.found \subseteq found,
         \A y \in added \ j.added :
           /\ y.id = <<r, j.next>> /\ \A p \in Parents : y.refs[p] # None => Mine(r, y.refs[p])
           /\ \A z \in j.seen : ~Piles(z, y.table, y.refs, y.key)
           /\ \A z \in added \ j.added : y = z,
         \A y \in found \ j.found : /\ y \in Rows /\ y.table # "removed"
                                    /\ y \in added \/ (Settled(y.id) /\ RefsSettled(y)),
         DOMAIN j.to \subseteq DOMAIN to, DOMAIN to \subseteq DOMAIN j.to \cup {x.id},
         \A i \in DOMAIN j.to : i # x.id => to[i] = j.to[i],
         \A i \in DOMAIN to : /\ to[i] \in Id
                              /\ Given(r, j, to[i]) \/ to[i] = <<r, j.next>> \/ Settled(to[i]),
         NEW k, k = Restored(j, x, added, found, to),
         x.table # "wish" => Named(k, x),
         Unique(j.file) => LeftOut(x, j.to) \/ Brought(k, x) \/ Missed(r, k, x),
         Unique(j.file) => \A y \in added \ j.added : Brought(k, x) /\ Became(to, x, y)
  PROVE  Restoring(r, k)
<1>1. /\ k.file = j.file /\ k.seen = j.seen \cap db /\ k.next = j.next + 1 /\ k.flush = {}
      /\ k.todo = j.todo \ {x} /\ k.added = added /\ k.found = found /\ k.to = to
      /\ k = [kind |-> "import", file |-> k.file, known |-> k.known, seen |-> k.seen, next |-> k.next,
              todo |-> k.todo, flush |-> k.flush, added |-> k.added, found |-> k.found, to |-> k.to]
  BY DEF Restored
<1>2. x \in j.file /\ x \in Rows /\ x.table \in Imported /\ j.next \in Nat
  BY DEF Restoring
<1>3. Passed(k) = Passed(j) \cup {x}
  BY <1>1, <1>2 DEF Passed
<1>4. /\ k.file \subseteq Rows /\ FileOK(k.file) /\ Valid(k.file)
      /\ k.todo \subseteq {z \in k.file : z.table \in Imported}
      /\ k.next \in Nat
  BY <1>1, <1>2 DEF Restoring
<1>5. r \in From /\ \A n \in Nat : <<r, n>>[1] = r /\ <<r, n>>[2] = n
  BY IdIn DEF From
<1>6. \A i : Given(r, j, i) => Given(r, k, i) /\ i # <<r, j.next>>
  BY <1>1, <1>2, <1>5 DEF Given
<1>7. Given(r, k, <<r, j.next>>)
  BY <1>1, <1>2, <1>5 DEF Given
<1>8. /\ \A y \in j.added : /\ Given(r, j, y.id)
                            /\ \A p \in Parents : y.refs[p] # None => Mine(r, y.refs[p])
      /\ Unique(j.added)
  BY DEF Restoring
<1>9. Unique(added)
  BY <1>6, <1>8 DEF Unique
<1>10. \A y \in added : /\ Given(r, k, y.id)
                        /\ \A p \in Parents : y.refs[p] # None => Mine(r, y.refs[p])
  BY <1>6, <1>7, <1>8
<1>11. \A y \in found : /\ y \in Rows /\ y.table # "removed"
                        /\ y \in added \/ (Settled(y.id) /\ RefsSettled(y))
  BY DEF Restoring
<1>12. \A i \in DOMAIN to : /\ to[i] \in Id /\ (Given(r, k, to[i]) \/ Settled(to[i]))
                            /\ \E z \in Passed(k) : z.id = i
  BY <1>3, <1>6, <1>7 DEF Restoring
<1>13. \A z \in Passed(k) : z.table \notin {"removed", "wish"} => Named(k, z)
  BY <1>1, <1>3 DEF Restoring, Named
<1>14. \A y \in added, z \in k.seen : ~Piles(z, y.table, y.refs, y.key)
  BY <1>1 DEF Restoring
<1>15. ASSUME Unique(j.file)
       PROVE  Whole(r, k)
  <2>1. x.id \notin DOMAIN j.to /\ Whole(r, j)
    BY <1>15, TurnIs DEF Restoring
  <2>2. \A i \in DOMAIN j.to : to[i] = j.to[i]
    BY <2>1
  <2>3. \A z : Brought(j, z) => Brought(k, z) /\ \A y : Became(j.to, z, y) => Became(to, z, y)
    BY <1>1, <2>2, BroughtStays
  <2>4. ASSUME NEW z, Missed(r, j, z)
        PROVE  Missed(r, k, z)
    <3>1. z.id \in DOMAIN j.to /\ j.to[z.id][1] = r /\ to[z.id] = j.to[z.id]
      BY <2>2, <2>4 DEF Missed, Named
    <3>2. Given(r, j, j.to[z.id])
      BY <3>1 DEF Restoring, Settled
    <3>3. \A y \in added : y.id # to[z.id]
      BY <1>6, <2>4, <3>1, <3>2 DEF Missed
    <3>4. Named(k, z)
      BY <1>1, <2>4 DEF Missed, Named
    <3> QED
      BY <1>1, <2>4, <3>1, <3>3, <3>4 DEF Missed
  <2>5. ASSUME NEW z \in Passed(k)
        PROVE  \/ z.table = "removed"
               \/ z.table = "wish" /\ ~Has(k.file, "record", z.refs["record"])
               \/ Brought(k, z) \/ Missed(r, k, z)
    <3>1. CASE z = x
      BY <3>1, <1>1, <1>15, TurnIs
    <3>2. CASE z \in Passed(j)
      BY <3>2, <1>1, <2>1, <2>3, <2>4 DEF Whole
    <3> QED
      BY <1>3, <3>1, <3>2
  <2>6. ASSUME NEW y \in added
        PROVE  \E z \in Passed(k) : Brought(k, z) /\ Became(to, z, y)
    <3>1. CASE y \in j.added
      <4>1. PICK z \in Passed(j) : Brought(j, z) /\ Became(j.to, z, y)
        BY <2>1, <3>1 DEF Whole
      <4>2. Brought(k, z) /\ Became(to, z, y) /\ z \in Passed(k)
        BY <1>3, <2>3, <4>1
      <4> QED
        BY <4>2
    <3>2. CASE y \notin j.added
      BY <1>3, <1>15, <3>2
    <3> QED
      BY <3>1, <3>2
  <2> QED
    BY <1>1, <2>5, <2>6 DEF Whole
<1> QED
  BY <1>1, <1>4, <1>9, <1>10, <1>11, <1>12, <1>13, <1>14, <1>15 DEF Restoring

\* A row is left out, or one like it was found.
LEMMA LeftOutKeeps ==
  ASSUME LibInv, NEW r \in Request, pc[r] # "done", NEW j, Restoring(r, j),
         NEW x \in j.todo, Turn(x, j.todo), LeftOut(x, j.to),
         NEW k, k = Restored(j, x, j.added, j.found, j.to)
  PROVE  Restoring(r, k)
<1>1. j.added \in SUBSET Rows /\ IsFiniteSet(j.added)
  BY DEF Restoring
<1>2. \A i \in DOMAIN j.to : j.to[i] \in Id /\ (Given(r, j, j.to[i]) \/ Settled(j.to[i]))
  BY DEF Restoring
<1>3. x.table = "wish"
  BY DEF LeftOut
<1> QED
  BY <1>1, <1>2, <1>3, RestoredKeeps

LEMMA FoundKeeps ==
  ASSUME LibInv, NEW r \in Request, pc[r] # "done", NEW j, Restoring(r, j),
         NEW x \in j.todo, Turn(x, j.todo), ~LeftOut(x, j.to), NEW y \in Same(j, x),
         NEW k, k = Restored(j, x, j.added, j.found \cup {y}, With(j.to, x.id, y.id))
  PROVE  Restoring(r, k)
<1>1. j.added \in SUBSET Rows /\ IsFiniteSet(j.added) /\ x \in Rows /\ x.table \in Imported
  BY DEF Restoring
<1>2. y \in db \cup j.added /\ Alike(x, Mapped(x, j.to), y)
  BY DEF Same
<1>3. PICK found, to : found = j.found \cup {y} /\ to = With(j.to, x.id, y.id)
  OBVIOUS
<1>4. /\ DOMAIN to = DOMAIN j.to \cup {x.id} /\ to[x.id] = y.id
      /\ \A i \in DOMAIN j.to : i # x.id => to[i] = j.to[i]
  BY <1>3 DEF With
<1>5. /\ y \in Rows /\ y.table # "removed"
      /\ y \in j.added \/ (Settled(y.id) /\ RefsSettled(y))
  BY <1>1, <1>2, TablesAre, ImportedIs DEF Alike
<1>6. y.id \in Id /\ (Given(r, j, y.id) \/ Settled(y.id))
  BY <1>5, RowIs DEF Restoring
<1>7. \A i \in DOMAIN to : to[i] \in Id /\ (Given(r, j, to[i]) \/ Settled(to[i]))
  BY <1>4, <1>6 DEF Restoring
<1>8. k = Restored(j, x, j.added, found, to)
  BY <1>3
<1>9. k.added = j.added /\ k.found = found /\ k.to = to
  BY <1>8 DEF Restored
<1>10. Named(k, x)
  BY <1>4, <1>9, TurnIs DEF Named
<1>11. ASSUME Unique(j.file)
       PROVE  Brought(k, x)
  <2>1. \A i \in DOMAIN j.to : to[i] = j.to[i]
    BY <1>4, <1>11, TurnIs
  <2>2. Became(to, x, y)
    BY <1>2, <1>4, <2>1, AlikeBecame
  <2>3. Mapped(x, to) = Mapped(x, j.to)
    BY <2>1, TurnIs DEF Mapped
  <2>4. x.table # "record" => y.refs = Mapped(x, to)
    BY <1>2, <2>3 DEF Alike
  <2> QED
    BY <1>3, <1>9, <1>10, <2>2, <2>4 DEF Brought
<1>12. \A z \in found \ j.found : z = y
  BY <1>3
<1>13. DOMAIN j.to \subseteq DOMAIN to /\ DOMAIN to \subseteq DOMAIN j.to \cup {x.id} /\ j.found \subseteq found
  BY <1>3, <1>4
<1> QED
  BY <1>1, <1>4, <1>5, <1>7, <1>8, <1>10, <1>11, <1>12, <1>13, RestoredKeeps

\* A row is added.
LEMMA AddedKeeps ==
  ASSUME LibInv, NEW r \in Request, pc[r] # "done", NEW j, Restoring(r, j), NEW x \in j.flush,
         NEW k, k = Restored(j, x, j.added \cup {Copied(r, j, x)}, j.found, With(j.to, x.id, <<r, j.next>>))
  PROVE  Restoring(r, k)
<1>1. /\ x \in j.todo /\ Turn(x, j.todo) /\ ~LeftOut(x, j.to) /\ j.next \in Nat
      /\ \A z \in j.seen : ~Piles(z, x.table, Mapped(x, j.to), x.key)
  BY DEF Restoring
<1>2. PICK y : y = Copied(r, j, x)
  OBVIOUS
<1>3. /\ y \in Rows /\ y.table = x.table /\ y.key = x.key
      /\ y.id \in Id /\ y.id = <<r, j.next>>
      /\ y.refs = Mapped(x, j.to)
      /\ x.table # "book" => y.data = x.data
  BY <1>1, <1>2, CopiedIs
<1>4. PICK added, to : added = j.added \cup {y} /\ to = With(j.to, x.id, y.id)
  OBVIOUS
<1>5. k = Restored(j, x, added, j.found, to)
  BY <1>2, <1>3, <1>4
<1>6. k.added = added /\ k.found = j.found /\ k.to = to
  BY <1>5 DEF Restored
<1>7. /\ DOMAIN to = DOMAIN j.to \cup {x.id} /\ to[x.id] = y.id
      /\ \A i \in DOMAIN j.to : i # x.id => to[i] = j.to[i]
  BY <1>4 DEF With
<1>8. added \in SUBSET Rows /\ IsFiniteSet(added) /\ j.added \subseteq added
  BY <1>3, <1>4, FS_AddElement DEF Restoring
<1>9. \A i \in DOMAIN to : /\ to[i] \in Id
                           /\ Given(r, j, to[i]) \/ to[i] = <<r, j.next>> \/ Settled(to[i])
  BY <1>3, <1>7 DEF Restoring
<1>10. Named(k, x)
  BY <1>1, <1>6, <1>7, TurnIs DEF Named
<1>11. ASSUME Unique(j.file)
       PROVE  Brought(k, x) /\ Became(to, x, y)
  <2>1. \A i \in DOMAIN j.to : to[i] = j.to[i]
    BY <1>1, <1>7, <1>11, TurnIs
  <2>2. Alike(x, Mapped(x, j.to), y)
    BY <1>3 DEF Alike
  <2>3. Became(to, x, y)
    BY <1>1, <1>7, <2>1, <2>2, AlikeBecame
  <2>4. Mapped(x, to) = Mapped(x, j.to)
    BY <1>1, <2>1, TurnIs DEF Mapped
  <2> QED
    BY <1>3, <1>4, <1>6, <1>10, <2>3, <2>4 DEF Brought
<1>12. \A p \in Parents : y.refs[p] # None => Mine(r, y.refs[p])
  BY <1>1, <1>3, MappedIs
<1>13. \A z \in added \ j.added : z = y
  BY <1>4
<1>14. \A z \in j.seen : ~Piles(z, y.table, y.refs, y.key)
  BY <1>1, <1>3
<1>15. DOMAIN j.to \subseteq DOMAIN to /\ DOMAIN to \subseteq DOMAIN j.to \cup {x.id}
  BY <1>7
<1> QED
  BY <1>1, <1>3, <1>5, <1>7, <1>8, <1>9, <1>10, <1>11, <1>12, <1>13, <1>14, <1>15, RestoredKeeps

\* A record loses the race for its ISBN.
LEMMA MissedKeeps ==
  ASSUME LibInv, NEW r \in Request, pc[r] # "done", NEW j, Restoring(r, j), NEW x \in j.flush,
         NEW z \in Firm, LosesRace(Copied(r, j, x), z),
         NEW k, k = Restored(j, x, j.added, j.found \cup {z}, With(j.to, x.id, <<r, j.next>>))
  PROVE  Restoring(r, k)
<1>1. x \in j.todo /\ Turn(x, j.todo) /\ ~LeftOut(x, j.to) /\ j.next \in Nat /\ r \in From
  BY DEF Restoring, From
<1>2. PICK y : y = Copied(r, j, x)
  OBVIOUS
<1>3. y.table = x.table /\ (x.table # "book" => y.data = x.data)
  BY <1>1, <1>2, CopiedIs
<1>4. /\ x.table = "record" /\ z.table = "record" /\ x.data # "none" /\ z.data = x.data
  BY <1>2, <1>3 DEF LosesRace, Clash
<1>5. PICK i \in Id : i = <<r, j.next>> /\ i[1] = r /\ i[2] = j.next
  <2>1. PICK n \in Nat : n = j.next
    BY <1>1
  <2>2. <<r, n>> \in Id /\ <<r, n>>[1] = r /\ <<r, n>>[2] = n
    BY <1>1, IdIn
  <2> QED
    BY <2>1, <2>2
<1>6. PICK found, to : found = j.found \cup {z} /\ to = With(j.to, x.id, i)
  OBVIOUS
<1>7. k = Restored(j, x, j.added, found, to)
  BY <1>5, <1>6
<1>8. k.added = j.added /\ k.found = found /\ k.to = to
  BY <1>7 DEF Restored
<1>9. /\ DOMAIN to = DOMAIN j.to \cup {x.id} /\ to[x.id] = i
      /\ \A l \in DOMAIN j.to : l # x.id => to[l] = j.to[l]
  BY <1>6 DEF With
<1>10. j.added \in SUBSET Rows /\ IsFiniteSet(j.added)
  BY DEF Restoring
<1>11. \A l \in DOMAIN to : /\ to[l] \in Id
                            /\ Given(r, j, to[l]) \/ to[l] = <<r, j.next>> \/ Settled(to[l])
  BY <1>5, <1>9 DEF Restoring
<1>12. Named(k, x)
  BY <1>1, <1>8, <1>9, TurnIs DEF Named
<1>13. \A y2 \in j.added : y2.id # i
  BY <1>1, <1>5 DEF Restoring, Given
<1>14. Missed(r, k, x)
  BY <1>4, <1>5, <1>6, <1>8, <1>9, <1>12, <1>13 DEF Missed
<1>15. z \in Rows /\ z.table # "removed" /\ Settled(z.id) /\ RefsSettled(z)
  BY <1>4, TablesAre DEF Firm
<1>16. \A y2 \in found \ j.found : y2 = z
  BY <1>6
<1>17. DOMAIN j.to \subseteq DOMAIN to /\ DOMAIN to \subseteq DOMAIN j.to \cup {x.id} /\ j.found \subseteq found
  BY <1>6, <1>9
<1> QED
  BY <1>1, <1>7, <1>9, <1>10, <1>11, <1>12, <1>14, <1>15, <1>16, <1>17, RestoredKeeps

\* A statement of the import.
LEMMA ImportStepOwn ==
  ASSUME LibInv, NEW r \in Request, pc[r] = "importing", NEW k, job' = [job EXCEPT ![r] = k],
         UNCHANGED <<db, file, pc, image, before>>, Restoring(r, k),
         Alone(r) => k.found \subseteq db \cup k.added
  PROVE  Frame(r) /\ Keeps /\ Own(r)
<1>1. db' = db /\ file' = file /\ pc' = pc /\ image' = image /\ before' = before
  OBVIOUS
<1>2. /\ pc \in [From -> States] /\ file \in [From -> SUBSET Rows]
      /\ job = [s \in Request |-> job[s]] /\ image = [s \in Request |-> image[s]]
      /\ before \in [Request -> SUBSET Request]
  BY DEF LibInv, RequestsOK
<1>3. /\ job'[r] = k /\ \A s \in Request \ {r} : job'[s] = job[s]
      /\ job' = [s \in Request |-> job'[s]]
  BY <1>2
<1>4. Frame(r)
  <2>1. pc'[r] # "idle" /\ pc[r] # "done" /\ pc' \in [From -> States] /\ pc[r] # "idle"
    BY <1>1, <1>2
  <2>2. /\ image' = [s \in Request |-> image'[s]] /\ before' \in [Request -> SUBSET Request]
        /\ file' \in [From -> SUBSET Rows]
    BY <1>1, <1>2
  <2> QED
    BY <1>1, <1>3, <2>1, <2>2 DEF Frame
<1>5. ImportOK(r)'
  <2>1. Restoring(r, k)'
    BY <1>1, RestoringStays
  <2>2. Restoring(r, job[r])'
    BY <1>3, <2>1 DEF Restoring, Given, Passed, Named, Whole, Brought, Missed
  <2>3. Alone(r)' <=> Alone(r)
    BY <1>1 DEF Alone, Overlap
  <2> QED
    BY <1>1, <1>3, <2>2, <2>3 DEF ImportOK
<1>6. Own(r)
  <2>1. r \in From
    BY DEF From
  <2>2. pc'[r] = "importing" /\ file'[r] = file[r] /\ FileOK(file[r]) /\ file[r] = {}
    BY <1>1, <2>1 DEF LibInv, PagesOK
  <2>3. PagesOK(r)' /\ BackupOK(r)' /\ WipeOK(r)' /\ ListOK(r)'
    BY <2>2 DEF PagesOK, BackupOK, WipeOK, ListOK
  <2> QED
    BY <2>2, <2>3, <1>5 DEF Own
<1> QED
  BY <1>1, <1>4, <1>6, SameTables

LEMMA ImportRowOwn ==
  ASSUME LibInv, NEW r \in Request, ImportRow(r)
  PROVE  Frame(r) /\ Keeps /\ Own(r)
<1>1. PICK j : j = job[r]
  OBVIOUS
<1>2. PICK x \in j.todo : Turn(x, j.todo) /\ Restore(r, x)
  BY <1>1 DEF ImportRow
<1>3. pc[r] = "importing" /\ UNCHANGED <<db, file, pc, image, before>> /\ j.flush = {}
  BY <1>1 DEF ImportRow
<1>4. Restoring(r, j) /\ (Alone(r) => j.found \subseteq db \cup j.added)
  BY <1>1, <1>3 DEF LibInv, ImportOK
<1>5. \E k : /\ job' = [job EXCEPT ![r] = k] /\ Restoring(r, k)
             /\ Alone(r) => k.found \subseteq db \cup k.added
  <2>1. CASE LeftOut(x, j.to) /\ Becomes(r, x, j.added, j.found, j.to)
    <3>1. PICK k : k = Restored(j, x, j.added, j.found, j.to)
      OBVIOUS
    <3>2. job' = [job EXCEPT ![r] = k]
      BY <1>1, <2>1, <3>1 DEF Becomes
    <3>3. Restoring(r, k)
      BY <1>2, <1>3, <1>4, <2>1, <3>1, LeftOutKeeps
    <3>4. k.added = j.added /\ k.found = j.found
      BY <3>1 DEF Restored
    <3> QED
      BY <1>4, <3>2, <3>3, <3>4
  <2>2. CASE /\ ~LeftOut(x, j.to)
             /\ \E y \in Same(j, x) : Becomes(r, x, j.added, j.found \cup {y}, With(j.to, x.id, y.id))
    <3>1. PICK y \in Same(j, x) : Becomes(r, x, j.added, j.found \cup {y}, With(j.to, x.id, y.id))
      BY <2>2
    <3>2. PICK k : k = Restored(j, x, j.added, j.found \cup {y}, With(j.to, x.id, y.id))
      OBVIOUS
    <3>3. job' = [job EXCEPT ![r] = k]
      BY <1>1, <3>1, <3>2 DEF Becomes
    <3>4. Restoring(r, k)
      BY <1>2, <1>3, <1>4, <2>2, <3>2, FoundKeeps
    <3>5. k.added = j.added /\ k.found = j.found \cup {y} /\ y \in db \cup j.added
      BY <3>2 DEF Restored, Same
    <3> QED
      BY <1>4, <3>3, <3>4, <3>5
  <2>3. CASE /\ ~LeftOut(x, j.to) /\ Same(j, x) = {}
             /\ job' = [job EXCEPT ![r].flush = {x}, ![r].seen = @ \cap db]
    <3>1. PICK i : i = [j EXCEPT !.flush = {x}]
      OBVIOUS
    <3>2. PICK k : k = [i EXCEPT !.seen = @ \cap db]
      OBVIOUS
    <3>3. r \in DOMAIN job
      BY DEF LibInv, RequestsOK
    <3>4. job' = [job EXCEPT ![r] = k]
      BY <1>1, <2>3, <3>1, <3>2, <3>3
    <3>5. i = [kind |-> "import", file |-> j.file, known |-> j.known, seen |-> j.seen, next |-> j.next,
               todo |-> j.todo, flush |-> {x}, added |-> j.added, found |-> j.found, to |-> j.to]
      <4>1. j = [kind |-> "import", file |-> j.file, known |-> j.known, seen |-> j.seen, next |-> j.next,
                 todo |-> j.todo, flush |-> j.flush, added |-> j.added, found |-> j.found, to |-> j.to]
        BY <1>4 DEF Restoring
      <4> QED
        BY <3>1, <4>1
    <3>6. k = [kind |-> "import", file |-> j.file, known |-> j.known, seen |-> j.seen \cap db,
               next |-> j.next, todo |-> j.todo, flush |-> {x}, added |-> j.added,
               found |-> j.found, to |-> j.to]
      BY <3>2, <3>5
    <3>7. /\ k.file = j.file /\ k.known = j.known /\ k.seen = j.seen \cap db /\ k.next = j.next
          /\ k.todo = j.todo /\ k.flush = {x} /\ k.added = j.added /\ k.found = j.found /\ k.to = j.to
      BY <3>6
    <3>8. ASSUME NEW z \in k.seen
          PROVE  ~Piles(z, x.table, Mapped(x, j.to), x.key)
      <4>1. z \in db /\ ~Alike(x, Mapped(x, j.to), z)
        BY <2>3, <3>7 DEF Same
      <4> QED
        BY <4>1 DEF Alike, Piles
    <3>9. Passed(k) = Passed(j)
      BY <3>7 DEF Passed
    <3>10. Unique(j.file) => Whole(r, k)
      BY <1>4, <3>7, <3>9 DEF Restoring, Whole, Brought, Missed, Named
    <3>11. Restoring(r, k)
      BY <1>2, <1>4, <2>3, <3>6, <3>7, <3>8, <3>9, <3>10 DEF Restoring, Given, Named
    <3> QED
      BY <1>4, <3>4, <3>7, <3>11
  <2> QED
    BY <2>1, <2>2, <2>3, <1>1, <1>2 DEF Restore
<1> QED
  BY <1>3, <1>5, ImportStepOwn

LEMMA FlushOwn ==
  ASSUME LibInv, NEW r \in Request, Flush(r)
  PROVE  Frame(r) /\ Keeps /\ Own(r)
<1>1. PICK j : j = job[r]
  OBVIOUS
<1>2. PICK x \in j.flush :
        \/ Becomes(r, x, j.added \cup {Copied(r, j, x)}, j.found, With(j.to, x.id, <<r, j.next>>))
        \/ \E z \in Firm : /\ LosesRace(Copied(r, j, x), z)
                           /\ Becomes(r, x, j.added, j.found \cup {z}, With(j.to, x.id, <<r, j.next>>))
  BY <1>1 DEF Flush
<1>3. pc[r] = "importing" /\ UNCHANGED <<db, file, pc, image, before>>
  BY DEF Flush
<1>4. Restoring(r, j) /\ (Alone(r) => j.found \subseteq db \cup j.added)
  BY <1>1, <1>3 DEF LibInv, ImportOK
<1>5. \E k : /\ job' = [job EXCEPT ![r] = k] /\ Restoring(r, k)
             /\ Alone(r) => k.found \subseteq db \cup k.added
  <2>1. CASE Becomes(r, x, j.added \cup {Copied(r, j, x)}, j.found, With(j.to, x.id, <<r, j.next>>))
    <3>1. PICK k : k = Restored(j, x, j.added \cup {Copied(r, j, x)}, j.found,
                                With(j.to, x.id, <<r, j.next>>))
      OBVIOUS
    <3>2. job' = [job EXCEPT ![r] = k]
      BY <1>1, <2>1, <3>1 DEF Becomes
    <3>3. Restoring(r, k)
      BY <1>3, <1>4, <3>1, AddedKeeps
    <3>4. j.added \subseteq k.added /\ k.found = j.found
      BY <3>1 DEF Restored
    <3> QED
      BY <1>4, <3>2, <3>3, <3>4
  <2>2. CASE \E z \in Firm : /\ LosesRace(Copied(r, j, x), z)
                             /\ Becomes(r, x, j.added, j.found \cup {z}, With(j.to, x.id, <<r, j.next>>))
    <3>1. PICK z \in Firm : /\ LosesRace(Copied(r, j, x), z)
                            /\ Becomes(r, x, j.added, j.found \cup {z}, With(j.to, x.id, <<r, j.next>>))
      BY <2>2
    <3>2. PICK k : k = Restored(j, x, j.added, j.found \cup {z}, With(j.to, x.id, <<r, j.next>>))
      OBVIOUS
    <3>3. job' = [job EXCEPT ![r] = k]
      BY <1>1, <3>1, <3>2 DEF Becomes
    <3>4. Restoring(r, k)
      BY <1>3, <1>4, <3>1, <3>2, MissedKeeps
    <3>5. k.added = j.added /\ k.found = j.found \cup {z} /\ z \in db
      BY <3>2 DEF Restored, Firm
    <3> QED
      BY <1>4, <3>3, <3>4, <3>5
  <2> QED
    BY <1>2, <2>1, <2>2
<1> QED
  BY <1>3, <1>5, ImportStepOwn

LEMMA ImportEndsOwn ==
  ASSUME LibInv, NEW r \in Request, ImportFullLibrary(r)
  PROVE  Frame(r) /\ Keeps /\ Own(r)
<1>1. PICK j : j = job[r]
  OBVIOUS
<1>2. /\ pc[r] = "importing" /\ Insert(j.added) /\ image' = [image EXCEPT ![r] = j.to]
      /\ Ends(r) /\ UNCHANGED <<file, before>>
  BY <1>1 DEF ImportFullLibrary
<1>3. Restoring(r, j)
  BY <1>1, <1>2 DEF LibInv, ImportOK
<1>4. image' = [s \in Request |-> image'[s]]
  BY <1>2 DEF LibInv, RequestsOK
<1>5. pc'[r] = "done"
  BY <1>2 DEF Ends, LibInv, RequestsOK, From
<1>6. PICK new \in SUBSET Rows : new = j.added
  BY <1>3 DEF Restoring
<1>7. /\ Unique(new) /\ IsFiniteSet(new)
      /\ \A x \in new : /\ x.id[1] = r
                        /\ \A p \in Parents : x.refs[p] # None => Mine(r, x.refs[p])
  BY <1>3, <1>6 DEF Restoring, Given
<1>8. Keeps
  BY <1>2, <1>5, <1>6, <1>7, InsertKeeps
<1> QED
  BY <1>2, <1>4, <1>8, EndsOwn

----------------------------------------------------------------------------
(* The wipe *)

LEMMA WipeOrderIs ==
  /\ Len(WipeOrder) = 6
  /\ WipeOrder[1] = "history" /\ WipeOrder[2] = "book" /\ WipeOrder[3] = "record"
  /\ WipeOrder[4] = "bookcase" /\ WipeOrder[5] = "room" /\ WipeOrder[6] = "removed"
BY DEF WipeOrder

\* What could refer to the rows that a DELETE takes goes with them, or stands
\* against it, or is a copy, which is taken out.
LEMMA WipeOrderCuts ==
  ASSUME NEW at \in 1 .. 6, NEW p \in Parents, p \in {WipeOrder[at]} \cup Cascades(WipeOrder[at]),
         NEW u \in Table, u # "history", p \in Columns(u)
  PROVE  u \in Cascades(WipeOrder[at]) \cup Restricts(WipeOrder[at]) \/ (u = "book" /\ p \in Place)
<1>1. CASE at \in {1, 2, 6}
  <2>1. at = 2 /\ p = "book"
    BY <1>1, WipeOrderIs DEF Cascades, Parents
  <2> QED
    BY <2>1, WipeOrderIs DEF Columns, Cascades, Place
<1>2. CASE at = 3
  <2>1. p = "record"
    BY <1>2, WipeOrderIs DEF Cascades, Parents
  <2> QED
    BY <1>2, <2>1, WipeOrderIs DEF Columns, Cascades, Restricts, Place
<1>3. CASE at = 4
  <2>1. p \in {"bookcase", "section", "shelf"}
    BY <1>3, WipeOrderIs DEF Cascades, Parents
  <2> QED
    BY <1>3, <2>1, WipeOrderIs DEF Columns, Cascades, Restricts, Place
<1>4. CASE at = 5
  <2>1. p = "room"
    BY <1>4, WipeOrderIs DEF Cascades, Parents
  <2> QED
    BY <1>4, <2>1, WipeOrderIs DEF Columns, Cascades, Restricts, Place
<1> QED
  BY <1>1, <1>2, <1>3, <1>4

\* All statements together leave of no table anything, but of the history.
LEMMA AllSwept == SweptBy(6) = Table \ (Plans \cup {"history"})
<1>1. \A i \in 1 .. 6 : i \in {1, 2, 3, 4, 5, 6}
  OBVIOUS
<1>2. ASSUME NEW t \in SweptBy(6)
      PROVE  t \in Table \ (Plans \cup {"history"})
  <2>1. PICK i \in 1 .. 6 : t = WipeOrder[i] \/ t \in Cascades(WipeOrder[i]) \cup Restricts(WipeOrder[i])
    BY DEF SweptBy
  <2> QED
    BY <1>1, <2>1, WipeOrderIs DEF SweptBy, Cascades, Restricts, Plans
<1>3. ASSUME NEW t \in Table \ (Plans \cup {"history"})
      PROVE  t \in SweptBy(6)
  <2>1. CASE t \in {"book", "read", "loan"}
    <3>1. t = WipeOrder[2] \/ t \in Cascades(WipeOrder[2])
      BY <2>1, WipeOrderIs DEF Cascades
    <3> QED
      BY <1>3, <3>1 DEF SweptBy
  <2>2. CASE t \in {"record", "wish", "cycle"}
    <3>1. t = WipeOrder[3] \/ t \in Cascades(WipeOrder[3]) \cup Restricts(WipeOrder[3])
      BY <2>2, WipeOrderIs DEF Cascades, Restricts
    <3> QED
      BY <1>3, <3>1 DEF SweptBy
  <2>3. CASE t \in {"bookcase", "section", "shelf"}
    <3>1. t = WipeOrder[4] \/ t \in Cascades(WipeOrder[4])
      BY <2>3, WipeOrderIs DEF Cascades
    <3> QED
      BY <1>3, <3>1 DEF SweptBy
  <2>4. CASE t \in {"room", "removed"}
    <3>1. t = WipeOrder[5] \/ t = WipeOrder[6]
      BY <2>4, WipeOrderIs
    <3> QED
      BY <1>3, <3>1 DEF SweptBy
  <2> QED
    BY <1>3, <2>1, <2>2, <2>3, <2>4 DEF Table, Parents, Plans
<1> QED
  BY <1>2, <1>3

LEMMA WipeStartsOwn ==
  ASSUME LibInv, NEW r \in Request, delete_account_data(r)
  PROVE  Frame(r) /\ Keeps /\ Own(r)
<1>1. PICK j : j = [kind |-> "wipe", at |-> 1, offset |-> 0, listed |-> {}, gone |-> {},
                    seen |-> {Tag(x) : x \in db}]
  OBVIOUS
<1>2. PICK state \in States : state = "listing"
  BY DEF States
<1>3. Starts(r, state, j)
  BY <1>1, <1>2 DEF delete_account_data
<1>4. r \in From
  BY DEF From
<1>5. db' = db /\ job'[r] = j /\ pc'[r] = "listing"
  BY <1>2, <1>3, <1>4 DEF Starts, LibInv, RequestsOK
<1>6. /\ j.at = 1 /\ j.offset = 0 /\ j.listed = {} /\ j.gone = {}
      /\ j = [kind |-> "wipe", at |-> j.at, offset |-> j.offset, listed |-> j.listed,
              gone |-> j.gone, seen |-> j.seen]
  BY <1>1
<1>7. SweptBy(0) = {}
  BY DEF SweptBy
<1>8. Wiping(j)'
  BY <1>6, <1>7, WipeOrderIs DEF Wiping, OffsetOK, CutOff
<1>9. WipeOK(r)'
  BY <1>5, <1>6, <1>8 DEF WipeOK, Wiping
<1>10. ListOK(r)'
  <2>1. Of(db, "book") \in SUBSET db
    BY DEF Of
  <2>2. IsFiniteSet(Of(db, "book"))
    BY <2>1, TablesAre, FS_Subset
  <2>3. PICK D \in Firsts(Of(db, "book"), 0) : D = {}
    BY <2>2, NoneFirst
  <2>4. j.listed = {x.id : x \in D}
    BY <1>6, <2>3
  <2> QED
    BY <1>5, <1>6, <2>4 DEF ListOK
<1> QED
  BY <1>2, <1>3, <1>9, <1>10, StartsOwn

\* A statement of the wipe.
LEMMA WipeStepOwn ==
  ASSUME LibInv, NEW r \in Request, pc[r] \in {"listing", "wiping"},
         NEW k, job' = [job EXCEPT ![r] = k],
         NEW state \in {"listing", "wiping"}, pc' = [pc EXCEPT ![r] = state],
         UNCHANGED <<db, file, image, before>>,
         Wiping(k), state = "listing" => k.at = 1 /\ k.gone = {},
         Alone(r) /\ Ordered(Of(db, "book")) =>
           /\ state = "listing" => \E D \in Firsts(Of(db, "book"), k.offset) : k.listed = {x.id : x \in D}
           /\ state = "wiping" => \A x \in db : x.table = "book" => x.id \in k.listed
           /\ state = "wiping" /\ k.at > 1 =>
                \A x \in db : x.table = "history" /\ x.refs["book"] \in k.listed => Tag(x) \in k.gone
  PROVE  Frame(r) /\ Keeps /\ Own(r)
<1>1. db' = db /\ file' = file /\ image' = image /\ before' = before
  OBVIOUS
<1>2. /\ pc \in [From -> States] /\ file \in [From -> SUBSET Rows]
      /\ job = [s \in Request |-> job[s]] /\ image = [s \in Request |-> image[s]]
      /\ before \in [Request -> SUBSET Request] /\ r \in From
  BY DEF LibInv, RequestsOK, From
<1>3. /\ job'[r] = k /\ \A s \in Request \ {r} : job'[s] = job[s]
      /\ job' = [s \in Request |-> job'[s]]
  BY <1>2
<1>4. /\ pc'[r] = state /\ \A s \in From \ {r} : pc'[s] = pc[s]
      /\ pc' \in [From -> States]
  BY <1>2 DEF States
<1>5. Frame(r)
  <2>1. pc'[r] # "idle" /\ pc[r] # "done" /\ pc[r] # "idle"
    BY <1>4
  <2>2. /\ image' = [s \in Request |-> image'[s]] /\ before' \in [Request -> SUBSET Request]
        /\ file' \in [From -> SUBSET Rows]
    BY <1>1, <1>2
  <2> QED
    BY <1>1, <1>3, <1>4, <2>1, <2>2 DEF Frame
<1>6. WipeOK(r)'
  <2>1. \A g \in k.gone : g[2] \in Id /\ Settled(g[2])
    BY DEF Wiping
  <2>2. \A g \in k.gone : Settled(g[2])'
    <3>1. \A i \in Id : Settled(i) => pc'[i[1]] = "done"
      BY <1>4, IdIs DEF Settled
    <3> QED
      BY <2>1, <3>1 DEF Settled
  <2>3. Wiping(k)'
    BY <1>1, <2>2 DEF Wiping, CutOff
  <2> QED
    BY <1>3, <1>4, <2>3 DEF WipeOK, Wiping
<1>7. ListOK(r)'
  <2>1. Alone(r)' => Alone(r)
    <3>1. \A s \in Request : s # r => s \in From
      BY DEF From
    <3> QED
      BY <1>1, <1>4, <3>1 DEF Alone, Overlap
  <2>2. Ordered(Of(db, "book"))' <=> Ordered(Of(db, "book"))
    BY <1>1 DEF Ordered, OrderedBy, Of
  <2>3. Firsts(Of(db, "book"), k.offset)' = Firsts(Of(db, "book"), k.offset)
    BY <1>1 DEF Firsts, OrderedBy, Of
  <2> QED
    BY <1>1, <1>3, <1>4, <2>1, <2>2, <2>3 DEF ListOK, Tag
<1>8. Own(r)
  <2>1. file'[r] = file[r] /\ FileOK(file[r]) /\ file[r] = {}
    BY <1>1, <1>2 DEF LibInv, PagesOK
  <2>2. PagesOK(r)' /\ BackupOK(r)' /\ ImportOK(r)'
    BY <1>4, <2>1 DEF PagesOK, BackupOK, ImportOK
  <2> QED
    BY <1>4, <1>6, <1>7, <2>1, <2>2 DEF Own
<1> QED
  BY <1>1, <1>5, <1>8, SameTables

LEMMA ListCopiesOwn ==
  ASSUME LibInv, NEW r \in Request, ListCopies(r)
  PROVE  Frame(r) /\ Keeps /\ Own(r)
<1>1. PICK j, T : j = job[r] /\ T = Of(db, "book")
  OBVIOUS
<1>2. pc[r] = "listing" /\ UNCHANGED <<db, file, image, before>>
  BY DEF ListCopies
<1>3. PICK page \in Pages(T, j.offset) :
        /\ job' = [job EXCEPT ![r] = Listed(j, page)]
        /\ pc' = [pc EXCEPT ![r] = IF Last(page) THEN "wiping" ELSE "listing"]
  BY <1>1 DEF ListCopies
<1>4. Wiping(j) /\ j.at = 1 /\ j.gone = {}
  BY <1>1, <1>2 DEF LibInv, WipeOK
<1>5. /\ j = [kind |-> "wipe", at |-> j.at, offset |-> j.offset, listed |-> j.listed,
              gone |-> j.gone, seen |-> j.seen]
      /\ OffsetOK(j.offset) /\ j.listed \subseteq Id
  BY <1>4 DEF Wiping
<1>6. PICK listed : listed = j.listed \cup Ids(page)
  OBVIOUS
<1>7. PICK i : i = [j EXCEPT !.listed = listed]
  OBVIOUS
<1>8. i = [kind |-> "wipe", at |-> j.at, offset |-> j.offset, listed |-> listed,
           gone |-> j.gone, seen |-> j.seen]
  BY <1>5, <1>7
<1>9. PICK k : k = [i EXCEPT !.offset = j.offset + PageSize]
  OBVIOUS
<1>10. job' = [job EXCEPT ![r] = k]
  <2>1. i.offset = j.offset
    BY <1>8
  <2> QED
    BY <1>3, <1>6, <1>7, <1>9, <2>1 DEF Listed
<1>11. k = [kind |-> "wipe", at |-> j.at, offset |-> j.offset + PageSize, listed |-> listed,
            gone |-> j.gone, seen |-> j.seen]
  BY <1>8, <1>9
<1>12. /\ k.at = j.at /\ k.offset = j.offset + PageSize
       /\ k.listed = j.listed \cup Ids(page) /\ k.gone = j.gone /\ k.seen = j.seen
  BY <1>6, <1>11
<1>13. page \subseteq T /\ T \subseteq Rows
  BY <1>1, PageIsOf, TablesAre DEF Of
<1>14. k.listed \subseteq Id
  BY <1>5, <1>12, <1>13, RowIs DEF Ids
<1>15. OffsetOK(k.offset)
  BY <1>5, <1>12, NextOffset
<1>16. Wiping(k)
  BY <1>4, <1>11, <1>12, <1>14, <1>15 DEF Wiping
<1>17. PICK state \in {"listing", "wiping"} : state = IF Last(page) THEN "wiping" ELSE "listing"
  OBVIOUS
<1>18. ASSUME Alone(r), Ordered(Of(db, "book"))
       PROVE  /\ \E D \in Firsts(T, k.offset) : k.listed = {x.id : x \in D}
              /\ state = "wiping" => \A x \in db : x.table = "book" => x.id \in k.listed
  <2>1. PICK D \in Firsts(T, j.offset) : j.listed = {x.id : x \in D}
    BY <1>1, <1>2, <1>18 DEF LibInv, ListOK
  <2>2. InOrder(T)
    BY <1>1, <1>18, InOrderIs DEF Paged
  <2>3. D \cup page \in Firsts(T, k.offset) /\ (Last(page) => D \cup page = T)
    BY <1>5, <1>12, <2>1, <2>2, ReadOn
  <2>4. k.listed = {x.id : x \in D \cup page}
    BY <1>12, <2>1 DEF Ids
  <2>5. ASSUME state = "wiping", NEW x \in db, x.table = "book"
        PROVE  x.id \in k.listed
    <3>1. Last(page) /\ x \in T
      BY <1>1, <1>17, <2>5 DEF Of
    <3>2. x \in D \cup page
      BY <2>3, <3>1
    <3> QED
      BY <2>4, <3>2
  <2> QED
    BY <2>3, <2>4, <2>5
<1>19. pc' = [pc EXCEPT ![r] = state]
  BY <1>3, <1>17
<1>20. k.at = 1 /\ k.gone = {}
  BY <1>4, <1>12
<1>21. Alone(r) /\ Ordered(Of(db, "book")) =>
         /\ state = "listing" => \E D \in Firsts(Of(db, "book"), k.offset) : k.listed = {x.id : x \in D}
         /\ state = "wiping" => \A x \in db : x.table = "book" => x.id \in k.listed
         /\ state = "wiping" /\ k.at > 1 =>
              \A x \in db : x.table = "history" /\ x.refs["book"] \in k.listed => Tag(x) \in k.gone
  BY <1>1, <1>18, <1>20
<1> QED
  BY <1>2, <1>10, <1>16, <1>19, <1>20, <1>21, WipeStepOwn

LEMMA DeleteLibraryOwn ==
  ASSUME LibInv, NEW r \in Request, DeleteLibraryData(r)
  PROVE  Frame(r) /\ Keeps /\ Own(r)
<1>1. PICK j, t : j = job[r] /\ t = WipeOrder[j.at]
  OBVIOUS
<1>2. /\ pc[r] = "wiping" /\ UNCHANGED <<db, file, pc, image, before>> /\ j.at <= 6
      /\ \A x \in Left(r) : x.table \notin Restricts(t)
  BY <1>1, WipeOrderIs DEF DeleteLibraryData
<1>23. job' = [job EXCEPT ![r] = [j EXCEPT !.at = j.at + 1, !.gone = j.gone \cup {Tag(x) : x \in Hit(r, t)},
                                         !.seen = j.seen \cap {Tag(x) : x \in db}]]
  BY <1>1 DEF DeleteLibraryData
<1>3. Wiping(j)
  BY <1>1, <1>2 DEF LibInv, WipeOK
<1>4. /\ j = [kind |-> "wipe", at |-> j.at, offset |-> j.offset, listed |-> j.listed,
              gone |-> j.gone, seen |-> j.seen]
      /\ OffsetOK(j.offset) /\ j.listed \subseteq Id /\ j.gone \subseteq Table \X Id
      /\ j.at \in 1 .. 6
      /\ \A g \in j.gone : Settled(g[2])
      /\ \A g \in j.seen : g[1] \in SweptBy(j.at - 1) => g \in j.gone
      /\ CutOff(j.gone)
  BY <1>2, <1>3, WipeOrderIs DEF Wiping
<1>5. PICK gone, seen : /\ gone = j.gone \cup {Tag(x) : x \in Hit(r, t)}
                        /\ seen = j.seen \cap {Tag(x) : x \in db}
  OBVIOUS
<1>6. PICK i : i = [j EXCEPT !.at = j.at + 1]
  OBVIOUS
<1>24. PICK h : h = [i EXCEPT !.gone = gone]
  OBVIOUS
<1>7. PICK k : k = [h EXCEPT !.seen = seen]
  OBVIOUS
<1>8. i = [kind |-> "wipe", at |-> j.at + 1, offset |-> j.offset, listed |-> j.listed,
           gone |-> j.gone, seen |-> j.seen]
  BY <1>4, <1>6
<1>9. h = [kind |-> "wipe", at |-> j.at + 1, offset |-> j.offset, listed |-> j.listed,
           gone |-> gone, seen |-> j.seen]
  BY <1>8, <1>24
<1>10. k = [kind |-> "wipe", at |-> j.at + 1, offset |-> j.offset, listed |-> j.listed,
            gone |-> gone, seen |-> seen]
  BY <1>7, <1>9
<1>11. /\ k.at = j.at + 1 /\ k.offset = j.offset /\ k.listed = j.listed
       /\ k.gone = gone /\ k.seen = seen
  BY <1>10
<1>12. job' = [job EXCEPT ![r] = k]
  <2>1. i.gone = j.gone /\ h.seen = j.seen
    BY <1>8, <1>9
  <2> QED
    BY <1>5, <1>6, <1>7, <1>23, <1>24, <2>1
<1>13. \A x \in Hit(r, t) : x \in db
  BY DEF Hit, Left
<1>14. \A x \in db : x \in Rows /\ x.table \in Table /\ x.id \in Id /\ Settled(x.id)
  BY TablesAre, RowIs
<1>15. gone \subseteq Table \X Id /\ \A g \in gone : Settled(g[2])
  <2>1. \A x \in Hit(r, t) : Tag(x) \in Table \X Id /\ Settled(Tag(x)[2])
    BY <1>13, <1>14 DEF Tag
  <2> QED
    BY <1>4, <1>5, <2>1
<1>16. ASSUME NEW x \in db,
              \/ x.table = t /\ (t = "history" => x.refs["book"] \in j.listed)
              \/ x.table \in Cascades(t) \cup Restricts(t)
       PROVE  Tag(x) \in gone
  <2>1. CASE Tag(x) \in j.gone
    BY <1>5, <2>1
  <2>2. CASE Tag(x) \notin j.gone
    <3>1. x \in Left(r)
      BY <1>1, <2>2 DEF Left
    <3>2. x \in Hit(r, t)
      BY <1>1, <1>2, <1>16, <3>1 DEF Hit
    <3> QED
      BY <1>5, <3>2
  <2> QED
    BY <2>1, <2>2
<1>17. ASSUME NEW g \in seen, g[1] \in SweptBy(k.at - 1)
       PROVE  g \in gone
  <2>1. k.at - 1 = j.at
    BY <1>4, <1>11
  <2>2. PICK l \in 1 .. j.at : g[1] = WipeOrder[l] \/ g[1] \in Cascades(WipeOrder[l]) \cup Restricts(WipeOrder[l])
    BY <1>17, <2>1 DEF SweptBy
  <2>3. g[1] \in Table \ {"history"}
    BY <1>17 DEF SweptBy
  <2>4. CASE l = j.at
    <3>1. PICK x \in db : g = Tag(x)
      BY <1>5
    <3>2. g[1] = x.table
      BY <3>1 DEF Tag
    <3> QED
      BY <1>1, <1>16, <2>2, <2>3, <2>4, <3>1, <3>2
  <2>5. CASE l # j.at
    <3>1. l \in 1 .. (j.at - 1)
      BY <1>4, <2>5
    <3>2. g[1] \in SweptBy(j.at - 1)
      BY <2>2, <2>3, <3>1 DEF SweptBy
    <3> QED
      BY <1>4, <1>5, <3>2
  <2> QED
    BY <2>4, <2>5
<1>18. ASSUME NEW x \in db, x.table # "history", NEW p \in Parents, <<p, x.refs[p]>> \in gone
       PROVE  (x.table = "book" /\ p \in Place) \/ Tag(x) \in gone
  <2>1. CASE <<p, x.refs[p]>> \in j.gone
    <3>1. (x.table = "book" /\ p \in Place) \/ Tag(x) \in j.gone
      BY <1>4, <1>18, <2>1 DEF CutOff
    <3> QED
      BY <1>5, <3>1
  <2>2. CASE <<p, x.refs[p]>> \notin j.gone
    <3>1. PICK z \in Hit(r, t) : Tag(z) = <<p, x.refs[p]>>
      BY <1>5, <1>18, <2>2
    <3>2. z.table = p /\ z.id = x.refs[p] /\ z.id \in Id
      BY <3>1, <1>13, <1>14 DEF Tag
    <3>3. p \in {t} \cup Cascades(t)
      BY <3>1, <3>2 DEF Hit
    <3>4. p \in Columns(x.table) /\ x.table \in Table
      BY <1>14, <3>2, IdIs, RowIs
    <3>5. x.table \in Cascades(t) \cup Restricts(t) \/ (x.table = "book" /\ p \in Place)
      BY <1>1, <1>4, <1>18, <3>3, <3>4, WipeOrderCuts
    <3> QED
      BY <1>16, <3>5
  <2> QED
    BY <2>1, <2>2
<1>19. Wiping(k)
  <2>1. k.at \in 1 .. (Len(WipeOrder) + 1)
    BY <1>4, <1>11, WipeOrderIs
  <2>2. CutOff(k.gone)
    BY <1>11, <1>18 DEF CutOff
  <2> QED
    BY <1>4, <1>10, <1>11, <1>15, <1>17, <2>1, <2>2 DEF Wiping
<1>20. ASSUME Alone(r), Ordered(Of(db, "book"))
       PROVE  /\ \A x \in db : x.table = "book" => x.id \in k.listed
              /\ \A x \in db : x.table = "history" /\ x.refs["book"] \in k.listed => Tag(x) \in k.gone
  <2>1. /\ \A x \in db : x.table = "book" => x.id \in j.listed
        /\ j.at > 1 => \A x \in db : x.table = "history" /\ x.refs["book"] \in j.listed => Tag(x) \in j.gone
    BY <1>1, <1>2, <1>20 DEF LibInv, ListOK
  <2>2. CASE j.at > 1
    BY <2>1, <2>2, <1>5, <1>11
  <2>3. CASE j.at = 1
    <3>1. t = "history"
      BY <1>1, <2>3, WipeOrderIs
    <3> QED
      BY <2>1, <3>1, <1>11, <1>16
  <2> QED
    BY <1>4, <2>2, <2>3
<1>21. PICK state \in {"listing", "wiping"} : state = "wiping"
  OBVIOUS
<1>22. pc' = [pc EXCEPT ![r] = state]
  BY <1>2, <1>21 DEF LibInv, RequestsOK
<1> QED
  BY <1>2, <1>12, <1>19, <1>20, <1>21, <1>22, WipeStepOwn

\* A row that the wipe leaves, when it commits.
LEMMA DisplacedIs ==
  ASSUME NEW x \in Rows, NEW gone \in SUBSET (Table \X Id), NEW y, y = Displaced(x, gone)
  PROVE  /\ y \in Rows /\ y.table = x.table /\ y.id = x.id
         /\ x.table = "book" =>
              \A p \in Parents : y.refs[p] = IF <<p, x.refs[p]>> \in gone THEN None ELSE x.refs[p]
         /\ x.table # "book" => y = x
<1>1. CASE x.table = "book"
  <2>1. PICK refs : refs = [p \in Parents |-> IF <<p, x.refs[p]>> \in gone THEN None ELSE x.refs[p]]
    OBVIOUS
  <2>2. /\ x = [table |-> x.table, id |-> x.id, refs |-> x.refs, key |-> x.key, data |-> x.data]
        /\ x.id \in Id /\ x.table \in Table /\ x.refs \in [Parents -> Id \cup {None}]
        /\ x.key \in Index \cup Member \cup From \cup Position
        /\ x.data \in Index \cup Member \cup {"none", "free", "unknown", "out", "back", "recent", "expired"}
        /\ \A p \in Parents : x.refs[p] # None => p \in Columns(x.table)
        /\ x.id[2] \in Nat
    BY <1>1, RowIs
  <2>3. /\ refs \in [Parents -> Id \cup {None}]
        /\ \A p \in Parents : refs[p] # None => p \in Columns(x.table)
    BY <2>1, <2>2
  <2>4. y = [x EXCEPT !.refs = refs]
    BY <1>1, <2>1 DEF Displaced
  <2>5. y = Row(x.table, x.id, refs, x.key, x.data)
    BY <2>2, <2>4 DEF Row
  <2>6. y \in Rows /\ y.table = x.table /\ y.id = x.id /\ y.refs = refs
    BY <1>1, <2>2, <2>3, <2>5, RowIn DEF Place
  <2> QED
    BY <1>1, <2>1, <2>6
<1>2. CASE x.table # "book"
  BY <1>2 DEF Displaced
<1> QED
  BY <1>1, <1>2

LEMMA WipeEndsKeeps ==
  ASSUME LibInv, NEW r \in Request, WipeEnds(r)
  PROVE  Keeps
<1>1. PICK gone : gone = job[r].gone
  OBVIOUS
<1>2. pc[r] = "wiping" /\ db' = {Displaced(x, gone) : x \in Left(r)}
  BY <1>1 DEF WipeEnds
<1>3. gone \in SUBSET (Table \X Id) /\ CutOff(gone)
  BY <1>1, <1>2 DEF LibInv, WipeOK, Wiping
<1>4. \A x \in Left(r) : x \in db /\ x \in Rows /\ Tag(x) \notin gone
  BY <1>1, TablesAre DEF Left
<1>5. \A x \in db : Tag(x) \notin gone => Has(db', x.table, x.id)
  <2>1. ASSUME NEW x \in db, Tag(x) \notin gone
        PROVE  Has(db', x.table, x.id)
    <3>1. x \in Left(r)
      BY <1>1, <2>1 DEF Left
    <3>2. PICK y \in db' : y = Displaced(x, gone)
      BY <1>2, <3>1
    <3>3. y.table = x.table /\ y.id = x.id
      BY <1>3, <1>4, <3>1, <3>2, DisplacedIs
    <3> QED
      BY <3>3 DEF Has
  <2> QED
    BY <2>1
<1>6. ASSUME NEW y \in db'
      PROVE  /\ y \in Rows /\ Refers(db', y) /\ RefsSettled(y) /\ Kin(y)
             /\ \A p \in Parents : y.refs[p] # None => Stood(y, p)
             /\ \E x \in db : y.id = x.id /\ y = Displaced(x, gone)
  <2>1. PICK x \in Left(r) : y = Displaced(x, gone)
    BY <1>2
  <2>2. /\ y \in Rows /\ y.table = x.table /\ y.id = x.id
        /\ x.table = "book" =>
             \A p \in Parents : y.refs[p] = IF <<p, x.refs[p]>> \in gone THEN None ELSE x.refs[p]
        /\ x.table # "book" => y = x
    BY <1>3, <1>4, <2>1, DisplacedIs
  <2>3. x \in db /\ Tag(x) \notin gone /\ Refers(db, x) /\ RefsSettled(x) /\ Kin(x)
    BY <1>4, TablesAre
  <2>4. \A p \in Parents : y.refs[p] # None => y.refs[p] = x.refs[p]
    BY <2>2
  <2>5. ASSUME y.table # "history", NEW p \in Parents, y.refs[p] # None
        PROVE  Has(db', p, y.refs[p])
    <3>1. y.refs[p] = x.refs[p]
      BY <2>4, <2>5
    <3>2. <<p, x.refs[p]>> \notin gone
      <4>1. CASE x.table = "book"
        BY <4>1, <2>2, <2>5
      <4>2. CASE x.table # "book"
        BY <4>2, <1>3, <2>2, <2>3, <2>5 DEF CutOff
      <4> QED
        BY <4>1, <4>2
    <3>3. PICK z \in db : z.table = p /\ z.id = x.refs[p]
      BY <2>2, <2>3, <2>5, <3>1 DEF Refers, Has
    <3> QED
      BY <1>5, <3>1, <3>2, <3>3 DEF Tag
  <2>6. ASSUME y.table # "history", NEW p \in Parents, p \in Needs(y.table)
        PROVE  y.refs[p] # None
    <3>1. x.refs[p] # None
      BY <2>2, <2>3, <2>6 DEF Refers
    <3>2. CASE x.table = "book"
      <4>1. p = "record"
        BY <2>2, <2>6, <3>2 DEF Needs
      <4>2. <<p, x.refs[p]>> \notin gone
        BY <1>3, <2>2, <2>3, <2>6, <4>1 DEF CutOff, Place
      <4> QED
        BY <2>2, <3>1, <3>2, <4>2
    <3>3. CASE x.table # "book"
      BY <2>2, <3>1, <3>3
    <3> QED
      BY <3>2, <3>3
  <2>7. Refers(db', y)
    BY <2>5, <2>6 DEF Refers
  <2>8. RefsSettled(y)
    BY <2>3, <2>4 DEF RefsSettled
  <2>9. Kin(y)
    BY <2>2, <2>3 DEF Kin
  <2>10. \A p \in Parents : y.refs[p] # None => Stood(y, p)
    BY <2>2, <2>3, <2>4 DEF Stood, Tag
  <2> QED
    BY <2>1, <2>2, <2>3, <2>7, <2>8, <2>9, <2>10
<1>7. Unique(db')
  BY <1>6, TablesAre DEF Unique
<1>8. IsFiniteSet(db')
  <2>1. PICK f : f = [x \in Left(r) |-> Displaced(x, gone)]
    OBVIOUS
  <2>2. f \in Surjection(Left(r), db')
    BY <1>2, <2>1 DEF Surjection
  <2>3. Left(r) \in SUBSET db
    BY <1>4
  <2>4. IsFiniteSet(Left(r))
    BY <2>3, TablesAre, FS_Subset
  <2> QED
    BY <2>2, <2>4, FS_Surjection
<1> QED
  BY <1>6, <1>7, <1>8 DEF Keeps, RefsSettled

LEMMA WipeEndsOwn ==
  ASSUME LibInv, NEW r \in Request, WipeEnds(r)
  PROVE  Frame(r) /\ Keeps /\ Own(r)
<1>1. pc[r] = "wiping" /\ Ends(r) /\ UNCHANGED <<file, image, before>>
  BY DEF WipeEnds
<1>2. image' = [s \in Request |-> image'[s]]
  BY <1>1 DEF LibInv, RequestsOK
<1> QED
  BY <1>1, <1>2, WipeEndsKeeps, EndsOwn

----------------------------------------------------------------------------
(* The invariant *)

LEMMA LibInit == Init => LibInv
<1> SUFFICES ASSUME Init
             PROVE  LibInv
  OBVIOUS
<1>1. PICK f \in Backups : file = [s \in From |-> IF s = Earlier THEN f ELSE {}]
  BY DEF Init
<1>2. /\ db \in Libraries
      /\ pc = [s \in From |-> IF s = Earlier THEN "done" ELSE "idle"]
      /\ job = [r \in Request |-> NoJob]
      /\ image = [r \in Request |-> NoMap]
      /\ before = [r \in Request |-> {}]
  BY DEF Init
<1>3. /\ Earlier \in From /\ pc[Earlier] = "done"
      /\ \A r \in Request : r \in From /\ r # Earlier /\ pc[r] = "idle" /\ file[r] = {}
  BY <1>1, <1>2, EarlierIsNoRequest DEF From
<1>4. f \subseteq Rows /\ FileOK(f)
  BY BackupsNameRows DEF FileOK
<1>5. /\ db \subseteq Rows /\ Unique(db) /\ IsFiniteSet(db)
      /\ \A x \in db : /\ Refers(db, x) /\ x.id[1] = Earlier
                       /\ \A p \in Parents : x.refs[p] # None => x.refs[p][1] = Earlier
  BY <1>2, LibrariesAreSound
<1>6. Kept = db
  BY <1>3 DEF Kept
<1>7. NamesOK
  BY <1>3, <1>5, <1>6 DEF NamesOK, Settled, RefsSettled, Unique
<1>8. TablesOK
  BY <1>5 DEF TablesOK
<1>9. RequestsOK
  <2>1. pc \in [From -> States]
    BY <1>2 DEF States
  <2>2. file \in [From -> SUBSET Rows]
    BY <1>1, <1>4
  <2>3. job = [r \in Request |-> job[r]] /\ image = [r \in Request |-> image[r]]
    BY <1>2
  <2>4. before \in [Request -> SUBSET Request] /\ \A r \in Request : before[r] = {}
    BY <1>2
  <2>5. \A r \in Request : job[r] = NoJob
    BY <1>2
  <2> QED
    BY <2>1, <2>2, <2>3, <2>4, <2>5, <1>3 DEF RequestsOK
<1>10. \A s \in From : FileOK(file[s])
  BY <1>1, <1>4, NothingIsOK
<1>11. \A r \in Request : PagesOK(r) /\ BackupOK(r) /\ ImportOK(r) /\ WipeOK(r) /\ ListOK(r)
  BY <1>3 DEF PagesOK, BackupOK, ImportOK, WipeOK, ListOK
<1> QED
  BY <1>7, <1>8, <1>9, <1>10, <1>11 DEF LibInv

\* A request that begins and ends in one step.
LEMMA QuickKeeps ==
  ASSUME LibInv, NEW r \in Request,
         \/ create_room(r) \/ create_bookcase(r) \/ create_section(r) \/ create_shelf(r)
         \/ delete_room(r) \/ delete_bookcase(r) \/ delete_section(r) \/ delete_shelf(r)
         \/ add_book(r) \/ update_book_position(r) \/ delete_book(r) \/ lend_book(r)
         \/ record_removed_member(r)
  PROVE  Frame(r) /\ Keeps /\ Own(r)
<1>1. Once(r)
  BY DEF create_room, create_bookcase, create_section, create_shelf, delete_room,
         delete_bookcase, delete_section, delete_shelf, add_book, update_book_position,
         delete_book, lend_book, record_removed_member
<1>2. Keeps
  BY RoomKeeps, BookcaseKeeps, SectionKeeps, ShelfKeeps, DeletesKeep, AddBookKeeps,
     MoveKeeps, DeleteBookKeeps, LendKeeps, RecordRemovedKeeps
<1> QED
  BY <1>1, <1>2, OnceOwn

LEMMA StepOwn ==
  ASSUME LibInv, NEW r \in Request, Step(r)
  PROVE  Frame(r) /\ Keeps /\ Own(r)
<1>1. CASE \/ create_room(r) \/ create_bookcase(r) \/ create_section(r) \/ create_shelf(r)
           \/ delete_room(r) \/ delete_bookcase(r) \/ delete_section(r) \/ delete_shelf(r)
           \/ add_book(r) \/ update_book_position(r) \/ delete_book(r) \/ lend_book(r)
           \/ record_removed_member(r)
  BY <1>1, QuickKeeps
<1>2. CASE update_room(r) \/ update_bookcase(r) \/ update_section(r) \/ update_shelf(r)
  BY <1>2, UpdatesOwn
<1>3. CASE Save(r)
  BY <1>3, SaveOwn
<1>4. CASE export_full_library(r)
  BY <1>4, ExportStartsOwn
<1>5. CASE ExportPage(r)
  BY <1>5, ExportPageOwn
<1>6. CASE ExportEnds(r)
  BY <1>6, ExportEndsOwn
<1>7. CASE import_full_library(r)
  BY <1>7, ImportStartsOwn
<1>8. CASE ImportRow(r)
  BY <1>8, ImportRowOwn
<1>9. CASE ImportFullLibrary(r)
  BY <1>9, ImportEndsOwn
<1>10. CASE delete_account_data(r)
  BY <1>10, WipeStartsOwn
<1>11. CASE DeleteLibraryData(r)
  BY <1>11, DeleteLibraryOwn
<1>12. CASE GiveUp(r)
  BY <1>12, GiveUpOwn
<1>13. CASE Flush(r)
  BY <1>13, FlushOwn
<1>14. CASE ListCopies(r)
  BY <1>14, ListCopiesOwn
<1>15. CASE WipeEnds(r)
  BY <1>15, WipeEndsOwn
<1> QED
  BY <1>1, <1>2, <1>3, <1>4, <1>5, <1>6, <1>7, <1>8, <1>9, <1>10, <1>11, <1>12, <1>13, <1>14, <1>15 DEF Step

LEMMA LibUnchanged == LibInv /\ UNCHANGED vars => LibInv'
<1> SUFFICES ASSUME LibInv, UNCHANGED vars
             PROVE  LibInv'
  OBVIOUS
<1>1. db' = db /\ UNCHANGED <<file, pc, job, image, before>>
  BY DEF vars
<1>2. Keeps
  BY <1>1, SameTables
<1> QED
  BY <1>1, <1>2, TimeKeeps

\* The names, the references and what the requests in hand have read stay
\* together: rows keep the names that requests have given them, and no
\* request that works on the whole library loses what it has read.
THEOREM LibInvHolds == Spec => []LibInv
<1>1. LibInv /\ [Next]_vars => LibInv'
  <2> SUFFICES ASSUME LibInv, [Next]_vars
               PROVE  LibInv'
    OBVIOUS
  <2>1. CASE Expire
    BY <2>1, ExpireKeeps
  <2>2. CASE PurgeExpiredPersonalData
    BY <2>2, PurgeKeeps
  <2>3. CASE Ended
    BY <2>3, LibUnchanged DEF Ended
  <2>4. CASE \E r \in Request : Step(r)
    BY <2>4, StepOwn, StepKeeps
  <2>5. CASE UNCHANGED vars
    BY <2>5, LibUnchanged
  <2> QED
    BY <2>1, <2>2, <2>3, <2>4, <2>5 DEF Next
<1> QED
  BY <1>1, LibInit, PTL DEF Spec

----------------------------------------------------------------------------
(* What requests can rely on *)

\* The tables, the backups and what each request has read are well formed in
\* every state.
THEOREM LibTypesHold == Spec => []TypeOK
<1>1. LibInv => TypeOK
  <2> SUFFICES ASSUME LibInv
               PROVE  TypeOK
    OBVIOUS
  <2>1. db \subseteq Rows /\ \A s \in From : file[s] \subseteq Rows
    BY TablesAre DEF LibInv, RequestsOK
  <2>2. before \in [Request -> SUBSET Request]
    BY DEF LibInv, RequestsOK
  <2>3. ASSUME NEW r \in Request
        PROVE  CASE pc[r] = "saving" -> job[r].row \in Rows
                 [] pc[r] = "exporting" -> job[r].at \in 1..(Len(ReadOrder) + 1)
                 [] pc[r] = "importing" -> job[r].file \cup job[r].added \subseteq Rows
                 [] pc[r] \in {"listing", "wiping"} ->
                      /\ job[r].at \in 1..(Len(WipeOrder) + 1)
                      /\ job[r].listed \subseteq Id /\ job[r].gone \subseteq Table \X Id
                 [] pc[r] \in {"idle", "done"} -> job[r] = NoJob
    <3>1. pc[r] \in States
      BY DEF LibInv, RequestsOK, From
    <3>2. pc[r] = "saving" => job[r].row \in Rows
      BY DEF LibInv, NamesOK, Kept
    <3>3. pc[r] = "exporting" => job[r].at \in 1..(Len(ReadOrder) + 1)
      <4>1. PagesOK(r)
        BY DEF LibInv
      <4> QED
        BY <4>1 DEF PagesOK
    <3>4. pc[r] = "importing" => job[r].file \cup job[r].added \subseteq Rows
      BY DEF LibInv, ImportOK, Restoring
    <3>5. pc[r] \in {"listing", "wiping"} =>
            /\ job[r].at \in 1..(Len(WipeOrder) + 1)
            /\ job[r].listed \subseteq Id /\ job[r].gone \subseteq Table \X Id
      BY DEF LibInv, WipeOK, Wiping
    <3>6. pc[r] \in {"idle", "done"} => job[r] = NoJob
      BY DEF LibInv, RequestsOK
    <3>7. CASE pc[r] = "saving"
      BY <3>2, <3>7
    <3>8. CASE pc[r] = "exporting"
      BY <3>3, <3>8
    <3>9. CASE pc[r] = "importing"
      BY <3>4, <3>9
    <3>10. CASE pc[r] \in {"listing", "wiping"}
      BY <3>5, <3>10
    <3>11. CASE pc[r] \in {"idle", "done"}
      BY <3>6, <3>11
    <3> QED
      BY <3>1, <3>7, <3>8, <3>9, <3>10, <3>11 DEF States
  <2> QED
    BY <2>1, <2>2, <2>3 DEF TypeOK
<1> QED
  BY <1>1, LibInvHolds, PTL

\* A backup that no other request overlaps has all that it reads, and can be
\* restored, however many rows and requests there are, if no page boundary
\* falls among rows that tie.
THEOREM BackupsAreWhole == Spec => []BackupIsWhole
<1>1. LibInv => BackupIsWhole
  <2> SUFFICES ASSUME LibInv, NEW r \in Request, pc[r] = "exporting", job[r].at > Len(ReadOrder),
                      Alone(r), \A t \in Paged : Ordered(Of(db, t))
               PROVE  /\ Valid(file[r])
                      /\ \A x \in db \ file[r] :
                           \/ x.table \in Plans \cup {"removed", "cycle"}
                           \/ x.table = "history" /\ ~Has(db, "book", x.refs["book"])
    BY DEF BackupIsWhole
  <2>1. job[r].at = 12
    <3>1. PagesOK(r)
      BY DEF LibInv
    <3>2. job[r].at \in 1 .. (Len(ReadOrder) + 1)
      BY <3>1 DEF PagesOK
    <3> QED
      BY <3>2, ReadOrderIs
  <2>2. \A i \in 1 .. 11 : ReadOrder[i] # "removed" => Of(file[r], ReadOrder[i]) = Joined(ReadOrder[i])
    BY <2>1 DEF LibInv, BackupOK
  <2>3. ASSUME NEW t \in Table \ (Plans \cup {"removed", "cycle"})
        PROVE  Of(file[r], t) = Joined(t)
    BY <2>2, ReadOrderIs
  <2>4. ASSUME NEW x \in db \ file[r], x.table \notin Plans \cup {"removed", "cycle"}
        PROVE  x.table = "history" /\ ~Has(db, "book", x.refs["book"])
    <3>1. x.table \in Table /\ x \notin Of(file[r], x.table)
      BY TablesAre, RowIs DEF Of
    <3>2. x \notin Joined(x.table)
      BY <2>3, <2>4, <3>1
    <3> QED
      BY <3>2 DEF Joined, Of
  <2>5. ASSUME NEW x \in file[r], x.table # "wish", NEW p \in Parents, x.refs[p] # None
        PROVE  Has(file[r], p, x.refs[p])
    <3>1. x \in Rows /\ x.table \notin Plans \cup {"cycle"}
      BY DEF LibInv, RequestsOK, FileOK, From
    <3>2. x.table \in Table /\ p \in Columns(x.table)
      BY <2>5, <3>1, RowIs
    <3>3. x.table # "removed"
      BY <3>2 DEF Columns
    <3>4. x \in Joined(x.table)
      BY <2>3, <3>1, <3>2, <3>3 DEF Of
    <3>5. x \in db /\ (x.table = "history" => Has(db, "book", x.refs["book"]))
      BY <3>4 DEF Joined, Of
    <3>6. Has(db, p, x.refs[p])
      <4>1. CASE x.table = "history"
        BY <3>2, <3>5, <4>1 DEF Columns
      <4>2. CASE x.table # "history"
        BY <2>5, <3>5, <4>2, TablesAre DEF Refers
      <4> QED
        BY <4>1, <4>2
    <3>7. PICK z \in db : z.table = p /\ z.id = x.refs[p]
      BY <3>6 DEF Has
    <3>8. p \in Table \ (Plans \cup {"removed", "cycle"}) /\ p # "history"
      BY DEF Parents, Table, Plans
    <3>9. z \in Of(file[r], p)
      BY <2>3, <3>7, <3>8 DEF Joined, Of
    <3> QED
      BY <3>7, <3>9 DEF Of, Has
  <2> QED
    BY <2>4, <2>5 DEF Valid
<1> QED
  BY <1>1, LibInvHolds, PTL

\* Only the end of an import restores anything, and it shows what was added.
LEMMA ImageChanges ==
  ASSUME LibInv, [Next]_vars, NEW r \in Request, image'[r] # image[r]
  PROVE  /\ pc[r] = "importing" /\ job[r].todo = {}
         /\ image'[r] = job[r].to /\ db' = db \cup job[r].added /\ Takes(job[r].added)
         /\ Restoring(r, job[r]) /\ (Alone(r) => job[r].found \subseteq db \cup job[r].added)
<1>1. image = [s \in Request |-> image[s]]
  BY DEF LibInv, RequestsOK
<1>2. image' # image
  OBVIOUS
<1>3. PICK s \in Request : Step(s)
  BY <1>2 DEF Next, Expire, PurgeExpiredPersonalData, Ended, vars
<1>4. ImportFullLibrary(s)
  <2>1. CASE Once(s) \/ \E state, j : Starts(s, state, j)
    BY <2>1, <1>2 DEF Once, Starts
  <2>2. CASE Save(s) \/ ExportPage(s) \/ ExportEnds(s) \/ ImportRow(s) \/ Flush(s)
             \/ ListCopies(s) \/ DeleteLibraryData(s) \/ WipeEnds(s) \/ GiveUp(s)
    BY <2>2, <1>2 DEF Save, ExportPage, ExportEnds, ImportRow, Flush, ListCopies,
         DeleteLibraryData, WipeEnds, GiveUp
  <2>3. CASE \/ create_room(s) \/ create_bookcase(s) \/ create_section(s) \/ create_shelf(s)
             \/ delete_room(s) \/ delete_bookcase(s) \/ delete_section(s) \/ delete_shelf(s)
             \/ add_book(s) \/ update_book_position(s) \/ delete_book(s) \/ lend_book(s)
             \/ record_removed_member(s)
    BY <2>1, <2>3 DEF create_room, create_bookcase, create_section, create_shelf, delete_room,
         delete_bookcase, delete_section, delete_shelf, add_book, update_book_position,
         delete_book, lend_book, record_removed_member
  <2>4. CASE \/ update_room(s) \/ update_bookcase(s) \/ update_section(s) \/ update_shelf(s)
             \/ export_full_library(s) \/ import_full_library(s) \/ delete_account_data(s)
    BY <2>1, <2>4 DEF update_room, update_bookcase, update_section, update_shelf,
         UpdateRoom, UpdateBookcase, UpdateSection, UpdateShelf, Edit,
         export_full_library, import_full_library, delete_account_data
  <2> QED
    BY <1>3, <2>2, <2>3, <2>4 DEF Step
<1>5. /\ pc[s] = "importing" /\ job[s].todo = {} /\ db' = db \cup job[s].added
      /\ Takes(job[s].added)
      /\ image' = [image EXCEPT ![s] = job[s].to]
  BY <1>4 DEF ImportFullLibrary, Insert
<1>6. s = r /\ image'[r] = job[r].to
  BY <1>1, <1>5
<1>7. Restoring(r, job[r]) /\ (Alone(r) => job[r].found \subseteq db \cup job[r].added)
  BY <1>5, <1>6 DEF LibInv, ImportOK
<1> QED
  BY <1>5, <1>6, <1>7

\* An import adds no row where the library had one with its key whenever it
\* looked.
THEOREM ImportsDoNotPileUp == Spec => NoPileUp
<1>1. LibInv /\ [Next]_vars =>
        [\A r \in Request :
           image'[r] # image[r] =>
             \A y \in db' \ db : \A x \in job[r].seen :
               ~(x.table = y.table /\ x.table # "record" /\ x.refs = y.refs /\ x.key = y.key)]_vars
  <2> SUFFICES ASSUME LibInv, [Next]_vars, NEW r \in Request, image'[r] # image[r],
                      NEW y \in db' \ db, NEW x \in job[r].seen
               PROVE  ~(x.table = y.table /\ x.table # "record" /\ x.refs = y.refs /\ x.key = y.key)
    OBVIOUS
  <2>1. y \in job[r].added /\ Restoring(r, job[r])
    BY ImageChanges
  <2> QED
    BY <2>1 DEF Restoring, Piles
<1> QED
  BY <1>1, LibInvHolds, PTL DEF Spec, NoPileUp

\* Nothing in a file refers to a record of it that lost the race for its ISBN:
\* the tables would not take what does.
LEMMA NothingRefersToMissed ==
  ASSUME LibInv, NEW r \in Request, pc[r] # "done", NEW j, Restoring(r, j), Whole(r, j),
         j.todo = {}, Takes(j.added), NEW x \in j.file, Missed(r, j, x), NEW z \in j.file
  PROVE  z.refs["record"] # x.id
<1> SUFFICES ASSUME z.refs["record"] = x.id
             PROVE  FALSE
  OBVIOUS
<1>1. Passed(j) = j.file /\ z \in Rows /\ x \in Rows /\ "record" \in Parents
  BY DEF Restoring, Passed, Parents
<1>2. x.table = "record" /\ j.to[x.id][1] = r /\ \A y \in j.added : y.id # j.to[x.id]
  BY DEF Missed
<1>3. x.id \in Id /\ x.id # None
  BY <1>1, RowIs, IdIs
<1>4. "record" \in Columns(z.table) /\ z.table \in Table
  BY <1>1, <1>3, RowIs
<1>5. z.table \notin {"removed", "record", "history"}
  BY <1>4 DEF Columns, Place
<1>6. Has(j.file, "record", z.refs["record"])
  BY <1>2 DEF Has
<1>7. Brought(j, z)
  BY <1>1, <1>5, <1>6 DEF Whole, Missed
<1>8. PICK y \in j.added \cup j.found : Became(j.to, z, y) /\ y.refs = Mapped(z, j.to)
  BY <1>5, <1>7 DEF Brought
<1>9. y.table = z.table /\ y.refs["record"] = j.to[x.id] /\ j.to[x.id] # None
  <2>1. x.id \in DOMAIN j.to
    BY DEF Missed, Named
  <2>2. j.to[x.id] \in Id
    BY <2>1 DEF Restoring
  <2>3. y.refs["record"] = j.to[x.id]
    BY <1>1, <1>3, <1>8 DEF Mapped
  <2> QED
    BY <1>8, <2>2, <2>3, IdIs DEF Became
<1>10. CASE y \in j.added
  <2>1. Has(Firm \cup j.added, "record", j.to[x.id])
    BY <1>1, <1>5, <1>9, <1>10 DEF Takes, Refers
  <2>2. ~Has(db, "record", j.to[x.id])
    BY <1>2, HeldIsSettled DEF Settled
  <2> QED
    BY <1>2, <2>1, <2>2 DEF Has, Firm
<1>11. CASE y \notin j.added
  <2>1. RefsSettled(y)
    BY <1>8, <1>11 DEF Restoring
  <2> QED
    BY <1>1, <1>2, <1>9, <2>1 DEF RefsSettled, Settled
<1> QED
  BY <1>10, <1>11

\* Two copies of a file become one only in one place.
LEMMA OneCopyOfOnePlace ==
  ASSUME LibInv, NEW r \in Request, pc[r] # "done", NEW j, Restoring(r, j), Whole(r, j), j.todo = {},
         NEW x \in Of(j.file, "book"), NEW y \in Of(j.file, "book"), j.to[x.id] = j.to[y.id],
         j.found \subseteq db \cup j.added \/ Has(j.added, "book", j.to[x.id])
  PROVE  x.key = y.key /\ Mapped(x, j.to) = Mapped(y, j.to)
<1>1. x \in Passed(j) /\ y \in Passed(j) /\ x.table = "book" /\ y.table = "book"
  BY DEF Of, Passed
<1>2. Brought(j, x) /\ Brought(j, y)
  BY <1>1 DEF Whole, Missed
<1>3. PICK v \in j.added \cup j.found : Became(j.to, x, v) /\ v.refs = Mapped(x, j.to)
  BY <1>1, <1>2 DEF Brought
<1>4. PICK w \in j.added \cup j.found : Became(j.to, y, w) /\ w.refs = Mapped(y, j.to)
  BY <1>1, <1>2 DEF Brought
<1>5. /\ v.id = j.to[x.id] /\ w.id = j.to[x.id]
      /\ v.key = x.key /\ w.key = y.key
  BY <1>1, <1>3, <1>4 DEF Became
<1>6. \A u \in j.added : ~Settled(u.id)
  BY DEF Restoring, Given, Settled
<1>7. v = w
  <2>1. CASE Has(j.added, "book", j.to[x.id])
    <3>1. ~Settled(j.to[x.id])
      BY <1>6, <2>1 DEF Has
    <3>2. v \in j.added /\ w \in j.added
      BY <1>5, <3>1 DEF Restoring
    <3> QED
      BY <1>5, <3>2 DEF Restoring, Unique
  <2>2. CASE j.found \subseteq db \cup j.added
    <3>1. v \in db \cup j.added /\ w \in db \cup j.added
      BY <2>2
    <3>2. \A u \in db : Settled(u.id)
      BY TablesAre
    <3>3. CASE v \in db
      <4>1. w \in db
        BY <1>5, <1>6, <3>1, <3>2, <3>3
      <4> QED
        BY <1>5, <3>3, <4>1, TablesAre DEF Unique
    <3>4. CASE v \in j.added
      <4>1. w \in j.added
        BY <1>5, <1>6, <3>1, <3>2, <3>4
      <4> QED
        BY <1>5, <3>4, <4>1 DEF Restoring, Unique
    <3> QED
      BY <3>1, <3>3, <3>4
  <2> QED
    BY <2>1, <2>2
<1> QED
  BY <1>3, <1>4, <1>5, <1>7

\* An import restores every row of its file, referring to what the rows that
\* it referred to have become, but records that lost the race for their ISBN;
\* it adds nothing else, and makes one copy of two only in one place.
THEOREM ImportsRestore == Spec => RestoredWhole
<1>1. LibInv /\ [Next]_vars =>
        [\A r \in Request :
           image'[r] # image[r] /\ Unique(job[r].file) =>
             /\ \A x \in job[r].file :
                  \/ x.table = "removed"
                  \/ x.table = "wish" /\ ~Has(job[r].file, "record", x.refs["record"])
                  \/ \E y \in db' \cup job[r].found : Became(image'[r], x, y)
                  \/ Lost(job[r], image'[r], x, db')
             /\ \A y \in db' \ db : \E x \in job[r].file : Became(image'[r], x, y)
             /\ \A x, y \in Of(job[r].file, "book") :
                  /\ image'[r][x.id] = image'[r][y.id]
                  /\ Alone(r) \/ Has(job[r].added, "book", image'[r][x.id])
                  => x.key = y.key /\ Mapped(x, image'[r]) = Mapped(y, image'[r])]_vars
  <2> SUFFICES ASSUME LibInv, [Next]_vars, NEW r \in Request,
                      image'[r] # image[r], Unique(job[r].file)
               PROVE  /\ \A x \in job[r].file :
                           \/ x.table = "removed"
                           \/ x.table = "wish" /\ ~Has(job[r].file, "record", x.refs["record"])
                           \/ \E y \in db' \cup job[r].found : Became(image'[r], x, y)
                           \/ Lost(job[r], image'[r], x, db')
                      /\ \A y \in db' \ db : \E x \in job[r].file : Became(image'[r], x, y)
                      /\ \A x, y \in Of(job[r].file, "book") :
                           /\ image'[r][x.id] = image'[r][y.id]
                           /\ Alone(r) \/ Has(job[r].added, "book", image'[r][x.id])
                           => x.key = y.key /\ Mapped(x, image'[r]) = Mapped(y, image'[r])
    OBVIOUS
  <2>1. PICK j, to : j = job[r] /\ to = j.to
    OBVIOUS
  <2>2. /\ j.todo = {} /\ image'[r] = to /\ db' = db \cup j.added /\ Takes(j.added)
        /\ Restoring(r, j) /\ (Alone(r) => j.found \subseteq db \cup j.added) /\ pc[r] # "done"
    BY <2>1, ImageChanges
  <2>3. Passed(j) = j.file /\ Whole(r, j)
    BY <2>1, <2>2 DEF Passed, Restoring
  <2>4. ASSUME NEW x \in j.file
        PROVE  \/ x.table = "removed"
               \/ x.table = "wish" /\ ~Has(j.file, "record", x.refs["record"])
               \/ \E y \in db' \cup j.found : Became(to, x, y)
               \/ Lost(j, to, x, db')
    <3>1. CASE Brought(j, x)
      <4>1. PICK y \in j.added \cup j.found : Became(j.to, x, y)
        BY <3>1 DEF Brought
      <4> QED
        BY <2>1, <2>2, <4>1
    <3>2. CASE Missed(r, j, x)
      <4>1. ~Has(db', "record", to[x.id])
        <5>1. ~Has(db, "record", to[x.id])
          BY <2>1, <2>2, <3>2, HeldIsSettled DEF Missed, Settled
        <5> QED
          BY <2>1, <2>2, <3>2, <5>1 DEF Missed, Has
      <4>2. \A z \in j.file : z.refs["record"] # x.id
        BY <2>2, <2>3, <3>2, NothingRefersToMissed
      <4> QED
        BY <3>2, <4>1, <4>2 DEF Missed, Lost
    <3> QED
      BY <2>3, <3>1, <3>2 DEF Whole
  <2>5. ASSUME NEW y \in db' \ db
        PROVE  \E x \in j.file : Became(to, x, y)
    BY <2>1, <2>2, <2>3 DEF Whole
  <2>6. ASSUME NEW x \in Of(j.file, "book"), NEW y \in Of(j.file, "book"), to[x.id] = to[y.id],
               Alone(r) \/ Has(j.added, "book", to[x.id])
        PROVE  x.key = y.key /\ Mapped(x, to) = Mapped(y, to)
    BY <2>1, <2>2, <2>3, <2>6, OneCopyOfOnePlace
  <2>7. job[r] = j /\ image'[r] = to
    BY <2>1, <2>2
  <2>8. \A x \in job[r].file :
          \/ x.table = "removed"
          \/ x.table = "wish" /\ ~Has(job[r].file, "record", x.refs["record"])
          \/ \E y \in db' \cup job[r].found : Became(image'[r], x, y)
          \/ Lost(job[r], image'[r], x, db')
    BY <2>4, <2>7
  <2>9. \A y \in db' \ db : \E x \in job[r].file : Became(image'[r], x, y)
    BY <2>5, <2>7
  <2>10. \A x, y \in Of(job[r].file, "book") :
           /\ image'[r][x.id] = image'[r][y.id]
           /\ Alone(r) \/ Has(job[r].added, "book", image'[r][x.id])
           => x.key = y.key /\ Mapped(x, image'[r]) = Mapped(y, image'[r])
    BY <2>6, <2>7
  <2> QED
    BY <2>8, <2>9, <2>10
<1> QED
  BY <1>1, LibInvHolds, PTL DEF Spec, RestoredWhole

\* Only its commit ends a wipe that changes the tables.
LEMMA WipeChanges ==
  ASSUME LibInv, [Next]_vars, NEW r \in Request, pc[r] = "wiping", db' # db, pc'[r] = "done"
  PROVE  WipeEnds(r)
<1>1. PICK s \in Request : Step(s)
  BY DEF Next, Expire, PurgeExpiredPersonalData, Ended, vars
<1>2. s = r
  <2>1. Frame(s) /\ r \in From
    BY <1>1, StepOwn DEF From
  <2> QED
    BY <2>1 DEF Frame
<1>3. ~Once(r) /\ ~ \E state, j : Starts(r, state, j)
  BY DEF Once, Starts
<1>4. ~(Save(r) \/ ExportPage(r) \/ ExportEnds(r) \/ ImportRow(r) \/ Flush(r)
        \/ ImportFullLibrary(r) \/ ListCopies(r) \/ DeleteLibraryData(r) \/ GiveUp(r))
  BY DEF Save, ExportPage, ExportEnds, ImportRow, Flush, ImportFullLibrary, ListCopies,
     DeleteLibraryData, GiveUp
<1>5. ~(\/ create_room(r) \/ create_bookcase(r) \/ create_section(r) \/ create_shelf(r)
        \/ delete_room(r) \/ delete_bookcase(r) \/ delete_section(r) \/ delete_shelf(r)
        \/ add_book(r) \/ update_book_position(r) \/ delete_book(r) \/ lend_book(r)
        \/ record_removed_member(r))
  BY <1>3 DEF create_room, create_bookcase, create_section, create_shelf, delete_room,
     delete_bookcase, delete_section, delete_shelf, add_book, update_book_position,
     delete_book, lend_book, record_removed_member
<1>6. ~(\/ update_room(r) \/ update_bookcase(r) \/ update_section(r) \/ update_shelf(r)
        \/ export_full_library(r) \/ import_full_library(r) \/ delete_account_data(r))
  BY <1>3 DEF update_room, update_bookcase, update_section, update_shelf,
     UpdateRoom, UpdateBookcase, UpdateSection, UpdateShelf, Edit,
     export_full_library, import_full_library, delete_account_data
<1> QED
  BY <1>1, <1>2, <1>4, <1>5, <1>6 DEF Step

\* A wipe leaves of the rows that were there when it began only reading paths,
\* family challenges and history; and of the history, if no other request
\* overlaps it and no page boundary cuts the copies, none of a copy it found.
THEOREM WipesLeaveNothing == Spec => WipeLeavesNothing
<1>1. LibInv /\ [Next]_vars =>
        [\A r \in Request :
           pc[r] = "wiping" /\ db' # db /\ pc'[r] = "done" =>
             \A x \in db' :
               /\ Tag(x) \in job[r].seen => x.table \in Plans \cup {"history"}
               /\ x.table = "history" /\ Alone(r) /\ Ordered(Of(db, "book")) =>
                    ~Has(db, "book", x.refs["book"])]_vars
  <2> SUFFICES ASSUME LibInv, [Next]_vars, NEW r \in Request,
                      pc[r] = "wiping", db' # db, pc'[r] = "done", NEW x \in db'
               PROVE  /\ Tag(x) \in job[r].seen => x.table \in Plans \cup {"history"}
                      /\ x.table = "history" /\ Alone(r) /\ Ordered(Of(db, "book")) =>
                           ~Has(db, "book", x.refs["book"])
    OBVIOUS
  <2>1. PICK j : j = job[r]
    OBVIOUS
  <2>2. j.at > 6 /\ db' = {Displaced(z, j.gone) : z \in Left(r)}
    BY <2>1, WipeChanges, WipeOrderIs DEF WipeEnds
  <2>3. /\ j.at \in 1 .. 7 /\ j.gone \in SUBSET (Table \X Id)
        /\ \A g \in j.seen : g[1] \in SweptBy(j.at - 1) => g \in j.gone
    <3>1. WipeOK(r)
      BY DEF LibInv
    <3>2. Wiping(j)
      BY <2>1, <3>1 DEF WipeOK
    <3> QED
      BY <3>2, WipeOrderIs DEF Wiping
  <2>4. PICK z \in Left(r) : x = Displaced(z, j.gone)
    BY <2>2
  <2>5. z \in db /\ Tag(z) \notin j.gone /\ z \in Rows
    BY <2>1, TablesAre DEF Left
  <2>6. x.table = z.table /\ x.id = z.id /\ (z.table # "book" => x = z)
    BY <2>3, <2>4, <2>5, DisplacedIs
  <2>7. ASSUME Tag(x) \in j.seen
        PROVE  x.table \in Plans \cup {"history"}
    <3>1. Tag(x) \notin j.gone /\ Tag(x)[1] = x.table
      BY <2>5, <2>6 DEF Tag
    <3>2. x.table \notin SweptBy(6)
      BY <2>2, <2>3, <2>7, <3>1
    <3>3. x.table \in Table
      BY <2>5, <2>6, RowIs
    <3> QED
      BY <3>2, <3>3, AllSwept
  <2>8. ASSUME x.table = "history", Alone(r), Ordered(Of(db, "book")), Has(db, "book", x.refs["book"])
        PROVE  FALSE
    <3>1. /\ \A y \in db : y.table = "book" => y.id \in j.listed
          /\ \A y \in db : y.table = "history" /\ y.refs["book"] \in j.listed => Tag(y) \in j.gone
      <4>1. ListOK(r)
        BY DEF LibInv
      <4> QED
        BY <2>1, <2>2, <2>3, <2>8, <4>1 DEF ListOK
    <3>2. x.refs["book"] \in j.listed
      BY <2>8, <3>1 DEF Has
    <3> QED
      BY <2>5, <2>6, <2>8, <3>1, <3>2
  <2> QED
    BY <2>1, <2>7, <2>8
<1> QED
  BY <1>1, LibInvHolds, PTL DEF Spec, WipeLeavesNothing

=============================================================================
