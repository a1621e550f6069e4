---------------------------- MODULE OwnedCopyTx ----------------------------
(***************************************************************************)
(* The handlers of OwnedCopy as they run: each request is one database     *)
(* transaction of several statements, and the statements of different      *)
(* requests interleave under PostgreSQL's READ COMMITTED isolation.        *)
(*                                                                         *)
(* `books`, `marks` and `history` are what is committed. What a request    *)
(* has read and what it has written but not committed is private to it.    *)
(* The repository's save() reads the row a second time, then sets the      *)
(* columns in which the request's own copy differs from that reading, or   *)
(* inserts the row when it finds none.                                     *)
(***************************************************************************)
EXTENDS OwnedCopy, Sequences

CONSTANTS
  Request,   \* requests; each is made at most once
  Free,      \* no transaction holds the row
  Keep,      \* a column the UPDATE does not set
  NoWrite,   \* no write to the row
  Overlap    \* whether requests may be in flight together

ASSUME OverlapIsBoolean == Overlap \in BOOLEAN
ASSUME FreeIsNoRequest == Free \notin Request
ASSUME KeepIsNoValue == Keep \notin Member \cup {NoOne} \cup Column \cup Place

VARIABLES
  pc,    \* the statement each request runs next
  tx,    \* its request and its transaction's private state
  lock   \* the transaction that has written a row of owned_books and not ended

txVars == <<pc, tx, lock>>
vars   == <<copyVars, txVars>>

----------------------------------------------------------------------------
(* Requests *)

Kind == {"add", "status", "metadata", "move", "delete",
         "read", "unread", "session"}

Asks == Status \cup {"none"}

\* A child reads alone, or a parent reads aloud.
ReadingSessionMode == {"independent", "together"}

\* `targets` are the copies in the order the request saves them, `by` the
\* member whose claim and marks it is about, `asks` the status it asks for,
\* `place` where a move goes, `mode` how a session was read.
Req == [kind : Kind, targets : Seq(Book), by : Member \cup {NoOne},
        asks : Asks, place : Place, mode : ReadingSessionMode]

R(kind, targets, m, s, p, g) ==
  [kind |-> kind, targets |-> targets, by |-> m, asks |-> s, place |-> p,
   mode |-> g]

\* Bulk requests name each copy once: the use cases drop repeated ids.
Orders ==
  UNION {{o \in [1 .. n -> Book] : \A i, j \in 1 .. n : o[i] = o[j] => i = j} :
           n \in 1 .. Cardinality(Book)}

StatusReqs(kind, S) ==
  {R(kind, <<b>>, m, s, Unplaced, "independent") : b \in Book, m \in Member, s \in S}
MoveReqs   == {R("move", o, NoOne, "none", p, "independent") : o \in Orders, p \in Place}
DeleteReqs == {R("delete", o, NoOne, "none", Unplaced, "independent") : o \in Orders}
SessionReqs ==
  {R("session", <<b>>, m, "none", Unplaced, g) :
     b \in Book, m \in Member, g \in ReadingSessionMode}

\* What clients ask of existing copies. "read" and "unread" are the marks an
\* editor sets for a member; a parent's "finish" is a child's "status".
Reqs ==
  StatusReqs("status", Status) \cup StatusReqs("metadata", Asks)
    \cup MoveReqs \cup DeleteReqs \cup SessionReqs
    \cup StatusReqs("read", {"none"}) \cup StatusReqs("unread", {"none"})

AddReqs ==
  {R("add", <<b>>, m, s, p, "independent") :
     b \in Book, m \in Member, s \in Status, p \in Place}

About(q) == {q.targets[i] : i \in DOMAIN q.targets}

\* Mutant of StatusOps: "abandoned" leaves the member's read mark.
StatusOpsKeepRead(s) ==
  CASE s = "reading" -> <<<<"remove", "abandoned">>>>
    [] s = "read"    -> <<<<"add", "read">>, <<"remove", "abandoned">>>>
    [] s = "abandoned" -> <<<<"add", "abandoned">>>>
    [] s = "to_read" -> <<<<"remove", "read">>, <<"remove", "abandoned">>>>
    [] OTHER         -> <<>>

\* The statements on the mark tables, in the order the handlers run them.
StatusOps(s) ==
  CASE s = "reading"   -> <<<<"remove", "abandoned">>>>
    [] s = "read"      -> <<<<"add", "read">>, <<"remove", "abandoned">>>>
    [] s = "abandoned" -> <<<<"add", "abandoned">>, <<"remove", "read">>>>
    [] s = "to_read"   -> <<<<"remove", "read">>, <<"remove", "abandoned">>>>
    [] OTHER           -> <<>>

MarkOps(q) ==
  CASE q.kind \in {"status", "metadata"} -> StatusOps(q.asks)
    [] q.kind = "read"    -> <<<<"add", "read">>>>
    [] q.kind = "unread"  -> <<<<"remove", "read">>>>
    [] q.kind = "session" -> <<<<"log", "session">>>>
    [] q.kind = "add" /\ q.asks = "read" -> <<<<"add", "read">>>>
    [] OTHER -> <<>>

\* Mutant of Claims: a shared session takes the copy from whoever holds it.
ClaimsAlways(q, row) == q.kind = "session" /\ q.mode = "together"

\* A shared session claims the copy only if nobody held it when it was read.
Claims(q, row) == q.kind = "session" /\ q.mode = "together" /\ row.reader = NoOne

\* The request's own copy of a row it has read, as the handler changes it.
Changed(q, row) ==
  CASE q.kind \in {"status", "metadata"} /\ q.asks # "none" ->
         RowAfter(row, q.by, q.asks)
    [] q.kind = "move" -> [row EXCEPT !.place = q.place]
    [] Claims(q, row)  -> RowAfter(row, q.by, "reading")
    [] OTHER -> row

Saved(q) ==
  IF \/ q.kind \in {"status", "metadata", "move", "delete"}
     \/ q.kind = "session" /\ Claims(q, books[q.targets[1]])
  THEN q.targets ELSE <<>>

\* Mutant of EventOf: a deletion leaves no trace in the history.
EventOfNoDeletion(kind) ==
  CASE kind = "add"  -> {"created"}
    [] kind = "move" -> {"position"}
    [] kind \in {"status", "metadata"} -> {kind}
    [] OTHER -> {}

EventOf(kind) ==
  CASE kind = "add"    -> {"created"}
    [] kind = "delete" -> {"deleted"}
    [] kind = "move"   -> {"position"}
    [] kind \in {"status", "metadata"} -> {kind}
    [] OTHER -> {}

----------------------------------------------------------------------------
(* Transactions *)

\* A write to a row: an UPDATE sets the columns that are not Keep.
Write == [op : {"insert", "update", "delete"}, reader : Member \cup {NoOne, Keep},
          status : Column \cup {Keep}, place : Place \cup {Keep}]

W(op, reader, status, place) ==
  [op |-> op, reader |-> reader, status |-> status, place |-> place]

ASSUME NoWriteIsNoWrite == NoWrite \notin Write

Insert(row) == W("insert", row.reader, row.status, row.place)
Delete      == W("delete", Keep, Keep, Keep)

Diff(new, old) == IF new = old THEN Keep ELSE new
Update(row, old) ==
  W("update", Diff(row.reader, old.reader), Diff(row.status, old.status),
    Diff(row.place, old.place))

Set(new, old) == IF new = Keep THEN old ELSE new
Applied(w, row) ==
  CASE w = NoWrite     -> row
    [] w # NoWrite /\ w.op = "delete" -> NoBook
    [] w # NoWrite /\ w.op = "insert" ->
         [reader |-> w.reader, status |-> w.status, place |-> w.place]
    [] OTHER ->
         [reader |-> Set(w.reader, row.reader),
          status |-> Set(w.status, row.status),
          place  |-> Set(w.place, row.place)]

NoRows == [b \in Book |-> NoWrite]

\* mem: its copies of the rows; ops: the mark statements left; found: whether
\* the last SELECT on a mark table returned a row; queue: the rows left to
\* save or delete; plan: the write save() has decided on; rows, ins, del, log:
\* uncommitted writes. rival is a history variable: has a request about the
\* same member and copy, or a deletion of the copy, overlapped with this one?
Begun(q, copy, todo, rivals) ==
  [req |-> q, mem |-> copy, ops |-> MarkOps(q), found |-> FALSE,
   queue |-> todo, plan |-> NoWrite, rows |-> NoRows, ins |-> {}, del |-> {},
   log |-> {}, rival |-> rivals # {}]

NoMem == [b \in Book |-> NoBook]
Blank == Begun(R("move", <<>>, NoOne, "none", Unplaced, "independent"), NoMem, <<>>, {})

InFlight(r) == pc[r] \notin {"idle", "done", "failed"}

\* Where a request goes once a statement is done.
Onward(ops, queue) ==
  IF ops # <<>> THEN "mark" ELSE IF queue # <<>> THEN "save" ELSE "commit"

Rivals(p, q) ==
  /\ About(p) \cap About(q) # {}
  /\ p.by = q.by \/ "delete" \in {p.kind, q.kind}

CurrentMark(t) == <<t.ops[1][2], t.req.targets[1], t.req.by>>

Deleting(s, b) == tx[s].rows[b] # NoWrite /\ tx[s].rows[b].op = "delete"
Inserting(s, b) == tx[s].rows[b] # NoWrite /\ tx[s].rows[b].op = "insert"

\* s holds what the statement r is about to run has to wait for: a row of a
\* mark table r changes, the key of one it inserts, or the copy's own row.
\* An INSERT on a mark table takes a key-share lock on the copy, which only
\* a deletion conflicts with.
BlockedBy(r, s) ==
  LET t == tx[r]
      k == CurrentMark(t)
      b == t.queue[1]
  IN  /\ s # r
      /\ \/ /\ pc[r] = "write" /\ t.ops[1][1] = "add" /\ ~t.found
            /\ k \in tx[s].ins \cup tx[s].del \/ Deleting(s, k[2])
         \/ /\ pc[r] = "write" /\ t.ops[1][1] = "log"
            /\ Deleting(s, k[2])
         \/ /\ pc[r] = "write" /\ t.ops[1][1] = "remove" /\ t.found
            /\ k \in tx[s].del \/ Deleting(s, k[2])
         \/ /\ pc[r] = "flush"
            /\ \/ lock[b] = s
               \/ t.plan = Delete /\ \E j \in tx[s].ins \cup tx[s].del : j[2] = b

Blocked(r) == \E s \in Request : BlockedBy(r, s)

----------------------------------------------------------------------------
(* The end of a transaction releases its locks. *)

\* Mutant of End: a request that fails leaves its transaction open.
EndWithoutRollback(r, outcome) ==
  /\ pc' = [pc EXCEPT ![r] = outcome]
  /\ tx' = [tx EXCEPT ![r] = Blank]
  /\ lock' = [b \in Book |->
               IF lock[b] = r /\ outcome = "done" THEN Free ELSE lock[b]]

End(r, outcome) ==
  /\ pc' = [pc EXCEPT ![r] = outcome]
  /\ tx' = [tx EXCEPT ![r] = Blank]
  /\ lock' = [b \in Book |-> IF lock[b] = r THEN Free ELSE lock[b]]

\* Any exception rolls the whole request back.
Fail(r) == End(r, "failed") /\ UNCHANGED copyVars

----------------------------------------------------------------------------
(* Statements *)

\* find_by_id / find_by_ids, the checks, and the changes to the request's
\* own copy.
Load(r, q) ==
  LET rivals == {s \in Request : InFlight(s) /\ Rivals(q, tx[s].req)}
      copy == [b \in Book |->
                 IF b \in About(q) THEN Changed(q, books[b]) ELSE NoBook]
  IN  /\ pc[r] = "idle"
      /\ Overlap \/ \A s \in Request : ~InFlight(s)
      /\ \A b \in About(q) : Present(b)
      /\ tx' = [s \in Request |->
                  IF s = r THEN Begun(q, copy, Saved(q), rivals)
                  ELSE IF s \in rivals THEN [tx[s] EXCEPT !.rival = TRUE]
                  ELSE tx[s]]
      /\ pc' = [pc EXCEPT ![r] = Onward(MarkOps(q), Saved(q))]
      /\ UNCHANGED <<copyVars, lock>>

\* 404: some copy the request names is not there, and nothing is changed.
Refuse(r) ==
  /\ pc[r] = "idle"
  /\ \E b \in Book : ~Present(b)
  /\ Fail(r)

\* AddBook saves a row under a fresh identifier.
Add(r, q) ==
  LET b == q.targets[1]
  IN  /\ pc[r] = "idle"
      /\ Overlap \/ \A s \in Request : ~InFlight(s)
      /\ Fresh(b) /\ lock[b] = Free
      /\ tx' = [tx EXCEPT ![r] =
                  [Begun(q, NoMem, <<>>, {}) EXCEPT
                     !.rows[b] = Insert(NewRow(q.by, q.asks, q.place)),
                     !.log = EventOf(q.kind) \X {b}]]
      /\ lock' = [lock EXCEPT ![b] = r]
      /\ pc' = [pc EXCEPT ![r] = Onward(MarkOps(q), <<>>)]
      /\ UNCHANGED copyVars

\* add() and remove() first look for the row of this member and copy.
LookMark(r) ==
  LET k == CurrentMark(tx[r])
  IN  /\ pc[r] = "mark"
      /\ tx' = [tx EXCEPT ![r].found =
                  /\ tx[r].ops[1][1] # "log"
                  /\ k \in (marks \ tx[r].del) \cup tx[r].ins]
      /\ pc' = [pc EXCEPT ![r] = "write"]
      /\ UNCHANGED <<copyVars, lock>>

\* The copy a new mark refers to is there for this transaction.
Referable(r, b) == Present(b) \/ Inserting(r, b)

\* Mutant of InsertFails: no foreign key from the mark to the copy.
InsertFailsOnKeyOnly(r, op, k) == op = "add" /\ k \in marks

\* An INSERT fails when the copy is gone (foreign key) or another request has
\* committed the same mark since the look (unique constraint). A mark is
\* known by its key: one removed and set again in between is the same one.
InsertFails(r, op, k) == ~Referable(r, k[2]) \/ (op = "add" /\ k \in marks)

\* The statement is done, and leaves these uncommitted marks.
MarkDone(r, ins, del) ==
  /\ tx' = [tx EXCEPT ![r] = [tx[r] EXCEPT !.ops = Tail(tx[r].ops), !.found = FALSE,
                                           !.ins = ins, !.del = del]]
  /\ pc' = [pc EXCEPT ![r] = Onward(Tail(tx[r].ops), tx[r].queue)]
  /\ UNCHANGED <<copyVars, lock>>

WriteMark(r) ==
  LET t  == tx[r]
      op == t.ops[1][1]
      k  == CurrentMark(t)
  IN  /\ pc[r] = "write" /\ ~Blocked(r)
      /\ CASE op = "remove" /\ t.found /\ k \in marks ->
                MarkDone(r, t.ins, t.del \cup {k})
           [] op # "remove" /\ ~t.found /\ InsertFails(r, op, k) -> Fail(r)
           [] op # "remove" /\ ~t.found /\ ~InsertFails(r, op, k) ->
                MarkDone(r, t.ins \cup {k}, t.del)
           [] OTHER -> MarkDone(r, t.ins, t.del)

\* save() reads the row again and decides between UPDATE and INSERT.
Reread(r) ==
  LET t == tx[r]
      b == t.queue[1]
      plan == CASE t.req.kind = "delete" -> Delete
                [] t.req.kind # "delete" /\ Present(b) -> Update(t.mem[b], books[b])
                [] OTHER -> Insert(t.mem[b])
  IN  /\ pc[r] = "save"
      /\ tx' = [tx EXCEPT ![r].plan = plan]
      /\ pc' = [pc EXCEPT ![r] = "flush"]
      /\ UNCHANGED <<copyVars, lock>>

\* The transaction t once w is its write to the row it has been saving.
Wrote(t, w) ==
  [t EXCEPT !.queue = Tail(t.queue), !.plan = NoWrite, !.rows[t.queue[1]] = w,
            !.log = t.log \cup (EventOf(t.req.kind) \X {t.queue[1]})]

\* The flush, and the history row that goes with it. An UPDATE of a row that
\* is gone is an error, so is an INSERT of one that is back; a DELETE of a row
\* that is gone deletes nothing and the request goes on.
Flush(r) ==
  LET t == tx[r]
      b == t.queue[1]
  IN  /\ pc[r] = "flush" /\ ~Blocked(r)
      /\ \/ /\ t.plan.op = (IF Present(b) THEN "insert" ELSE "update")
            /\ Fail(r)
         \/ /\ t.plan.op = "delete" /\ ~Present(b)
            /\ tx' = [tx EXCEPT ![r] = Wrote(t, NoWrite)]
            /\ pc' = [pc EXCEPT ![r] = Onward(<<>>, Tail(t.queue))]
            /\ UNCHANGED <<copyVars, lock>>
         \/ /\ t.plan.op # "insert" <=> Present(b)
            /\ tx' = [tx EXCEPT ![r] = Wrote(t, t.plan)]
            /\ lock' = [lock EXCEPT ![b] = r]
            /\ pc' = [pc EXCEPT ![r] = Onward(<<>>, Tail(t.queue))]
            /\ UNCHANGED copyVars

\* What a deletion takes along: ON DELETE CASCADE on the mark tables.
Kept(M, r) == {k \in M : ~Deleting(r, k[2])}

Commit(r) ==
  LET t == tx[r]
  IN  /\ pc[r] = "commit"
      /\ books' = [b \in Book |-> Applied(t.rows[b], books[b])]
      /\ marks' = Kept((marks \ t.del) \cup t.ins, r)
      /\ history' = history \cup t.log
      /\ End(r, "done")

\* The server stops, or loses its connection, before the commit.
Abort(r) == InFlight(r) /\ Fail(r)

\* PostgreSQL ends a deadlock by failing one of the transactions in it.
DeadlockVictim(r) ==
  /\ \E S \in SUBSET Request :
       /\ r \in S
       /\ \A s \in S : \E t, u \in S : BlockedBy(s, t) /\ BlockedBy(u, s)
  /\ Fail(r)

----------------------------------------------------------------------------
Init ==
  /\ CopyInit
  /\ pc = [r \in Request |-> "idle"]
  /\ tx = [r \in Request |-> Blank]
  /\ lock = [b \in Book |-> Free]

\* A request that is under way proceeds when nothing blocks it.
Step(r) ==
  \/ LookMark(r) \/ WriteMark(r) \/ Reread(r) \/ Flush(r) \/ Commit(r)
  \/ DeadlockVictim(r)

\* Each request is made once; when all have ended there is nothing to do.
Ended == (\A r \in Request : pc[r] \in {"done", "failed"}) /\ UNCHANGED vars

Next ==
  \/ \E r \in Request :
       \/ \E q \in Reqs : Load(r, q)
       \/ \E q \in AddReqs : Add(r, q)
       \/ Refuse(r)
       \/ Step(r)
       \/ Abort(r)
  \/ Ended

Spec     == Init /\ [][Next]_vars
FairSpec == Spec /\ \A r \in Request : WF_vars(Step(r))

----------------------------------------------------------------------------
(* Properties *)

TxState ==
  [req : Req, mem : [Book -> Row \cup {NoBook}],
   ops : Seq({"add", "remove", "log"} \X MarkKind), found : BOOLEAN,
   queue : Seq(Book), plan : Write \cup {NoWrite},
   rows : [Book -> Write \cup {NoWrite}], ins : SUBSET Mark,
   del : SUBSET Mark, log : SUBSET (Event \X Book), rival : BOOLEAN]

TypeOK ==
  /\ CopyTypeOK
  /\ pc \in [Request -> {"idle", "mark", "write", "save", "flush", "commit",
                         "done", "failed"}]
  /\ tx \in [Request -> TxState]
  /\ lock \in [Book -> Request \cup {Free}]

\* The marks a committed request promises its member, and those it promises
\* to be gone.
Promised(q) ==
  CASE q.kind \in {"status", "metadata"} /\ q.asks # "none" ->
         Gained(q.targets[1], q.by, q.asks)
    [] q.kind = "add" /\ q.asks = "read" -> {<<"read", q.targets[1], q.by>>}
    [] q.kind \in {"read", "session"} -> {<<q.kind, q.targets[1], q.by>>}
    [] OTHER -> {}
Withdrawn(q) ==
  CASE q.kind \in {"status", "metadata"} /\ q.asks # "none" ->
         Lost(q.targets[1], q.by, q.asks)
    [] q.kind = "unread" -> {<<"read", q.targets[1], q.by>>}
    [] OTHER -> {}

Commits(r) == pc[r] = "commit" /\ pc'[r] = "done"

(* One member's personal marks are out of reach of everybody else's        *)
(* requests, however they interleave: a commit changes the marks of its    *)
(* own member only (a deletion takes the copy's marks along), and a        *)
(* request that met no other request about the same member and copy, and   *)
(* no deletion of the copy, commits exactly the marks it was asked for.    *)
(* (OwnedBook.reading_status_for: "one member's state never overrides what *)
(* another member sees for the same copy")                                 *)
PersonalMarks ==
  [][\A r \in Request : Commits(r) =>
       LET q == tx[r].req
       IN  /\ \A k \in (marks \ marks') \cup (marks' \ marks) :
                \/ k[3] = q.by /\ k[2] \in About(q)
                \/ q.kind = "delete" /\ k[2] \in About(q)
           /\ ~tx[r].rival => /\ Promised(q) \subseteq marks'
                              /\ Withdrawn(q) \cap marks' = {}]_vars

(* Every request that was accepted ends: it commits or it is rolled back,  *)
(* even when two bulk requests lock the same copies in opposite orders.    *)
EveryRequestEnds ==
  \A r \in Request : InFlight(r) ~> pc[r] \in {"done", "failed"}

(* "the use case only ever lets a caller claim/release *themselves* as     *)
(* current_reader [...] never another user's": a reading-status request    *)
(* makes its own member the reader, or lets its own member go, and leaves  *)
(* any other reader alone. (update_reading_status in endpoints/books.py)   *)
SelfServiceReader ==
  [][\A r \in Request, b \in Book :
       Commits(r) /\ tx[r].req.kind = "status" /\ Present(b) /\ Present(b)'
         /\ books'[b].reader # books[b].reader
       => \/ books'[b].reader = tx[r].req.by
          \/ books[b].reader = tx[r].req.by /\ books'[b].reader = NoOne]_vars

=============================================================================
