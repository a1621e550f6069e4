# A verification development for the catalog service

TLA+ modules, TLC configurations and TLAPS proofs about the catalog service in
`src/` (FastAPI, async SQLAlchemy, PostgreSQL). The service keeps the books of
family libraries: who owns which copy, where it stands, who is reading it, who
borrowed it, and the book club, the kids mode and the backups around that.

Section 1 is the inventory of the system, section 2 the rules of its database
that every model shares, sections 3 to 5 the models, the runs and the proofs,
section 6 the plan and what is left out.

## 1. The system

Every request is one transaction on one `AsyncSession`: `get_db`
(`src/app/infrastructure/database/session.py`) opens it, the endpoint calls a
use case, commits after it, and any exception rolls everything back. The
background job of `core/lifespan.py` has sessions of its own. There are no
locks in the code (no `SELECT ... FOR UPDATE`), no version columns and no
retries: what protects the data is the order of the statements, the unique
constraints and the foreign keys. Two requests meet only through the database;
the service itself runs in two worker processes (`src/Dockerfile`).

| component | state | operations | hard behaviour |
|---|---|---|---|
| owned copies | `owned_books` (reader, status column, place), `book_reads`, `book_abandonments`, `reading_sessions`, `book_history` | add, set status, edit, move (one, many), delete (one, many), read marks of members, sessions | full rows read, changed and saved; claims of one member and marks of many; bulk requests lock rows in the order of the request; cascades; audit trail |
| loans | `book_loans`, partial unique index on the active loan of a copy | lend, return, list, the reminder job | check then insert; foreign key against a deletion; a job per worker, HTTP calls inside a transaction, crash before the commit |
| records | `bibliographic_records`, unique (library, ISBN) | create, edit, delete, resolve while adding a copy, three levels of duplicate check | check then insert, a language model between check and insert, batches |
| locations | rooms, bookcases, sections, shelves; four foreign keys on each copy | create, edit (re-parent), delete | restricted deletions, full rows saved, the chain stored on copies |
| ingestion | ISBN cache | shelf scan, shelf audit, Goodreads preview, the two confirmations, ISBN lookup | batches with partial results, positions counted once per request |
| wishlist, ratings | one row per member and record or copy | add, remove, rate | check then insert against a unique key |
| book club | cycles, posts, proposals, votes, participants, meetings, question sets | create, advance, archive, post, propose, vote, promote, join, meet, ask for prompts | the machine of a cycle under concurrent requests |
| kids | sessions, quizzes, attempts, journal, picks, paths, challenges, discussion questions | log, generate once, answer, review | get-or-generate across slow calls, references without foreign keys |
| backup, retention | all tables of a library, `removed_members` | export, import (idempotent), wipe, purge by age | tables read page by page at different times, matching rules, deletions one statement after another |
| incipits | text on a record | derive, set, generate | full-row save after a slow call |
| surface | none | authorisation, schemas, error mapping | |

How they interact: a copy refers to a record (RESTRICT) and to its place (SET
NULL); marks, sessions, loans and ratings go with their copy (CASCADE); a cycle
refers to a record (RESTRICT) and may refer to a copy (SET NULL); proposals and
wishlist items go with their record; history has no foreign key and outlives
its copy. A shared reading session claims the copy, a finished one is a status
request, an added copy may start claimed or read: these calls are part of the
actions that model them.

What makes each component correct:

- owned copies: the status column says whether somebody holds the copy; a
  member's marks are changed by that member's requests only and never outlive
  the copy; the history tells which copies exist; after a status request the
  member sees that status; every request ends.
- loans: a copy is out on one loan at a time; no loan outlives its copy; what
  is returned or reminded stays so; every due loan is reminded in the end, and
  a worker none of whose runs has failed notifies it once; a loan that fails
  leaves the others of its batch alone.
- records, ingestion, incipits: an ISBN has one record; a book gets a second
  copy only when that is meant; scanned books stand in the order they were
  scanned; an edit is not undone by a slow save; a copy and a wish have their
  record, a rating its copy.
- book club: a cycle is discussed before it is closed, threads stay whole, a
  vote has its proposal, what a member has said is kept.
- kids: one set of dinner-table questions per copy, a quiz is generated once,
  the review of an attempt stays whole, rows go with their copy.
- locations, backup: what is restored is what the backup says; importing what
  the library has adds nothing; a backup nobody disturbed is whole and can be
  restored; a wipe leaves nothing.

## 2. The database, as modelled

The modules of concurrent requests follow these rules, which are PostgreSQL's
READ COMMITTED and SQLAlchemy's unit of work as the repositories use them:

- a SELECT sees what is committed when it runs, and the transaction's own
  writes;
- writes are private until the commit; an UPDATE or DELETE of a row another
  transaction has written waits for that transaction; then it goes on with the
  row as committed, or finds no row;
- an INSERT waits for another transaction that has inserted or deleted the same
  unique key, then fails if the key is there; it also takes a key-share lock on
  the row it refers to, which only a deletion conflicts with, and fails if that
  row is gone;
- `save()` of a repository reads the row again, assigns every field and lets
  the flush set the columns that differ from that second reading. An UPDATE of
  a row that is gone is an error (`StaleDataError`), a `save()` that finds no
  row inserts it. That second reading is a real one: the use case holds a
  domain entity, and the session's weak identity map keeps no model instance
  alive between the calls, so a row read once and saved later is read twice;
- a failed flush rolls its transaction back and leaves the session unusable
  until somebody calls `rollback()`: the end of a request does, the reminder
  job does not;
- a cycle of waiting transactions is broken by failing one of them.

Where several rows are deleted by one statement the models take the rows in
some order, one at a time, because that is how their locks are taken.

## 3. The modules

### OwnedCopy: what the handlers promise

One action per handler, each atomic. `books` is `owned_books` (a row has the
reader, the column and the place), `marks` the three per-member tables as
triples kind, copy, member, `history` the kinds of audit event of each copy.
`RowAfter`, `Gained` and `Lost` are the assignments of
`UpdateReadingStatusUseCase`; `UpdateBookMetadata` is the edit form, which runs
the same assignments when it has a status; `MoveBooks` and `DeleteBooks` are
the single and the bulk requests; `MarkBookRead` and `UnmarkBookRead` are the
reads of a member that an editor sets; `LogReadingSession` claims the copy when
reading together. A copy starts as `AddBook` makes it.

Abstracted: title, notes, condition, tags and timestamps; the five columns of
a place are one value; a read mark set again only refreshes its time, so it is
the same mark; events are kept as kinds, not as a list.

### OwnedCopyTx: the same handlers, statement by statement

`OwnedCopyTx` EXTENDS `OwnedCopy` and shares its tables. A request is picked by
`Load` (find, check, change the entity; `Changed` is the entity afterwards,
`Saved` the rows to save) or `Add`; then `LookMark` and `WriteMark` run the
statements of `StatusOps` on the mark tables in the order of the code, `Reread`
and `Flush` are the two halves of `save()`, and `Commit` makes the writes
visible with what a deletion takes along. The mark statements share their
effect (`MarkDone`: the mark is noted in `ins` or `del`, and the next statement,
or the save, is due), and `mode` is the reading session's, "solo" or "together",
for a request that has one. `Fail` is the rollback of any
exception, `Abort` a server that stops, `DeadlockVictim` PostgreSQL's choice.
`Overlap` says whether requests may be in flight together.

Bulk requests lock rows in the order of the request. A deletion of one copy and
a bulk deletion are both a sequence of row deletions.

### Loans: lending and the reminder job

`row[l]` is a loan that is not made, out, back or gone. `Lend`, `Return` and
`Delete` are the use cases up to their write, with the checks; `InsertLoan`,
`SetReturned` and `DeleteCopy` the writes with the index, the foreign key and
the cascade; `Refuse` the 409 and the 500. A run of the job is `StartRun` (the
list, in any order), then for each loan `SkipLoan`, or `Notify`/`NotifyFails`
(the call to the auth service, whose mail may be sent although the answer is
lost), `LookLoan` and `MarkReminded` (the two statements of
`mark_reminder_sent`), with `FlushFails` for a flush that fails and poisons the
session; `EndRun` is the single commit at the end and `Crash` a process that
stops before it.

Abstracted: dates are `never`, `later`, `soon`; requests refused before any
write and runs that find nothing due change nothing and are left out; the read
of the copy and its record is one step with the call that follows it. Jobs run
a day apart, so a run does not start while another is between the read and the
write of one mark, unless that write waits for a lock (`StartRun`).

### BookClub: cycles, discussions, proposals and votes

`status[c]` is the stage of a cycle ("none" before it starts), `post` the rows
`book_club_posts` ever had and `posts` those it has, `proposals` and `vote` the
pool. A vote is known by the request that made its row, because the code
deletes it by its identifier. Each request is made once: its check
(`CheckAdvance`, `CheckPost`, `CheckDeletePost`, `CheckVote`, `CheckPromote`)
keeps in `ask` what it has read, and its effect (`Advance`, `AddPost`,
`DeletePost`, `ToggleVote`, `Promote`) comes after any steps of others, or
never (`GiveUp`: a refusal, a failure, a process that stops).

Why one step is enough for the effect: such a request writes one row, and from
the statement to the commit PostgreSQL keeps it, and the key a foreign key or a
unique constraint looks at, locked. Whoever wants them waits for the commit, so
nothing can tell the write from one that happens at the commit; statements of a
cascade see what was committed while the DELETE waited. A promotion deletes many
rows and takes three steps: the pool its DELETE finds (`ScanPool`), the locks
on what is left of it (`ClearPool`), the commit (`Promote`). Proposals made
after the scan stay; a promotion that waited for another deletes nothing.
`Thread` is what ON DELETE CASCADE removes with a post, as the least set that
leaves no reply hanging, and nothing when the post has gone before.

Participants (`CheckJoin`, `Join`, `CheckSetStatus`, `SetStatus`), meetings and
the prompts of a cycle have the same two steps. `Entered` is a second join, which
the unique key refuses; `SavePrompts` says that of two requests that both found
no prompts the later one writes over the other's or gets a 409, as their
statements meet. Each endpoint has an operator under its own name.

New cycles and proposals are atomic, since nobody knows their identifiers
before the commit. Records are not deleted here (a cycle restricts it, a
proposal goes with its record), and one library is enough because every check
starts with it. `opened` and `from` are history: the cycles once open, and where
they came from.

### Hanging: what a foreign key promises

The abstract specification that three refinements share: rows hang from parents
that are there, under identifiers used once, and go with their parent. It says
nothing of requests. `Kids` implements it with copies as parents and six tables
of rows (`RowsHang`), `Catalogue` twice: records with the copies and wishes for
them (`RecordsHold`), copies with their ratings (`CopiesHold`). What makes this
more than the schema's word is that rows are added by requests that looked for
the parent in an earlier statement, that rows of open transactions are not
there yet, that a save can insert a row that was deleted, and that one cascade
must reach every table. `spent` is instantiated with the names of the requests
that have ended, so a name that is used again breaks the refinement.

### Kids: quizzes, questions, journal, picks, paths and challenges

Rows are records with the request that made them (`from`) as their identifier.
A request that writes one row is one step, by the argument given for `BookClub`;
generating a quiz and generating questions for the dinner table are two, since
a language model answers in between (`GenerateQuiz`, `StoreQuiz`;
`GetDiscussionQuestions`, `StoreDiscussion`). `Stored` is the look for a quiz
that is there, `SaveSet` the unique key that the second set of a copy meets.
`Answerable` is the check of an attempt, `Reviewed` what its review can still
show; the identifiers in an attempt and in a path have no foreign key.
`DeleteBook` is the cascade, and `Unlinked` the SET NULL of a journal entry's
session. `Progress` counts the sessions of a challenge when somebody asks.
Anything may be named in a path: the code does not look for its books.

Abstracted: the wording of questions and answers (an attempt is the set of the
questions it answers), points, which are computed on reading, and the metric of
a challenge that counts reads. `before` and `opened` are history: who had ended
when a request began, and who stored a first quiz.

### Catalogue: records, copies that are added, wishes and ratings

The tables hold the rows of open transactions too. A row is named after the
request that inserts it and the number of its item, and `Sees` is READ
COMMITTED: one's own rows and those of requests that have ended. The unique
index of ISBNs does not look at that (`KeyFree`): a request that meets the key
of an open transaction waits, which here is a step that is not enabled, and
fails when that key is committed, which is `GiveUp`.

`AddItem` is one item of any request that adds books: `Resolve` finds or inserts
its record, `IsOwned` and `Resembles` are the levels of the duplicate check
(same record; same title, or a similar one as a language model sees it), and
`AddCopy` inserts the copy and, in a Goodreads import, the rating. One book is
refused as a duplicate; an item of a batch is left out and its record stays
(`Skip`). A shelf scan numbers its copies from the place it read at its start
(`NextPlace`). An edit of a record, of its text, the generated and the derived
incipit read the row and write all of it later (`Edit`, `Save`); a save that
finds no row inserts it. Single writes are one step (`Once`).

Abstracted: the columns of a record are its title, its ISBN and its text; an
ISBN is a number and the way it is written, because `create_record` stores it as
given while adding a book normalises it; places are the positions of one shelf.
The statements between an item's check and its insert are one step: nothing that
others commit there is looked at again. `before` and `writer` are history.

### Library: places, backup, restore, wipe and retention

All tables are one set `db` of rows of one shape: what a row refers to, its
natural key, and one column. That is how the import treats them too, and
`Refers` and `Clash` are the schema: foreign keys and unique indexes. Places are
created, edited and deleted; a row that is edited is read and saved later, and
may by then have been moved or deleted (`Save`).

The export is a statement per step (`ExportPage`), each seeing what is committed
by then. Places, records and copies are read in pages, by LIMIT and OFFSET, the
way `fetch_all_pages` does: `Firsts` are the sets of rows that the ORDER BY may
put first and `Pages` what may stand between two offsets. The order is by a
name, an index or `created_at` (`OrderedBy`), and rows that tie come in any
order, in each statement anew; so a page boundary among them may skip one and
repeat another. `Last` is the page that is shorter than others. Reads, loans,
history (joined to the copies), wishes and snapshots are one statement each, as
in the code.

The import validates the file (`Valid`), then goes row by row, table after table
and the rows of a table in any order, since the file's lists have the order of a
query (`ImportRow`, `Turn`). `Restore` maps what a row refers to, looks for a row
alike (`Same`, by `Alike`) among those of the library and those just added, and
takes it (`found`), or will add a copy under a new identifier if there is none
(`flush`, `Copied`). `Flush` adds it, after any steps of others, if the tables
take it with what the import has added (`Fits`). A record whose ISBN another
request has inserted since it was looked for (`LosesRace`) is not added: as
`save()` does in its savepoint, the row that won is taken (`found`), but `to`, the
map of identifiers, keeps the one the import made up, which no row has. The
next row that refers to it fails to be added. The import's rows are seen by
others from its commit on (`ImportFullLibrary`), where the model asks the
indexes and foreign keys once more: in the database the rows are locked from
their flush, in the model another request may still take a key or delete a
place, and then this import is refused instead of the other request waiting.

The wipe lists the copies first, in pages (`ListCopies`), then issues one DELETE
after another (`DeleteLibraryData`, `WipeOrder`), each finding what is committed
by then (`Hit`): the history of the copies that were listed, all copies, and so
on, with what their cascades take along (`Cascades`), refused where a foreign key
restricts (`Restricts`): a cycle of the book club holds its record. What it has
deleted is `gone`, which other requests see until the commit (`WipeEnds`), but
cannot write or refer to (`Held`, `Firm`): they wait for it. `path` and `challenge`
are the tables that name the library without a foreign key and that the wipe
does not touch; no request of this module writes them.

`Expire` and `PurgeExpiredPersonalData` are the passing of time and the purge by
age. The file an import is given was written by an earlier request of this
library, or in another one. A file has no cycles of the book club, paths or
challenges: the export schema has no such tables.

Abstracted: reads, loans, history and wishes have one kind of row each; of a
copy the place, its position and the reader are kept; whom the users' import
that comes first has restored is a set. `Rank` orders names and requests, and
the rows of one request tie; a row that an import has added ranks with that
import, although the code keeps the file's `created_at`, so an order among
restored rows is not told apart. The listings of the wipe that only count rows
for its answer are left out. `image` is history: which row each row of a backup
became; so is `seen`, what has been there since a request looked first.

## 4. The runs

| run | question | bounds | result |
|---|---|---|---|
| `copy_overlap` | what holds whatever overlaps: marks have their copy, personal marks | 2 requests of every kind, 2 copies, 2 members, 2 places | holds |
| `copy_serial` | do the statements implement the handlers, and what holds of those: column, audit trail, the status asked for | 3 requests, one at a time, with failures at every statement | holds |
| `copy_live` | does every request end | 2 overlapping requests, 2 copies, 1 member | holds |
| `claim_lost` | "only ever lets a caller claim/release themselves" | 2 overlapping requests, 1 copy, 2 members | violated |
| `loans` | one active loan, loans have their copy, nothing settled is undone, no reminder recorded that was not sent | 2 requests, 1 worker, 2 copies, 2 loans, 1 crash | holds |
| `reminders` | a worker with no failed run notifies a loan once, and in the end each is marked | 2 workers, 2 loans, 1 crash, no request | holds |
| `reminder_batch` | "it must not block the rest of the batch" | 1 request, 1 worker, 2 loans | violated |
| `club` | what holds although checks are stale when used: discussion first, whole threads, votes with their proposal, members are heard | 3 overlapping requests, 2 cycles, 3 posts, 2 proposals, 1 member | holds |
| `club_transitions` | "Illegal transitions are rejected" | 2 overlapping requests, 1 cycle, 2 posts, 1 proposal | violated |
| `kids` | what is generated once stays one, reviews and links stay whole, progress is kept, rows hang from copies | 3 overlapping requests, 2 copies, 2 days, a child and a parent | holds |
| `catalogue` | one record per ISBN, no silent duplicate, order on the shelf, saves change what was asked; the two refinements | 2 overlapping requests of up to 2 items, 2 titles that resemble each other, 1 ISBN written in 2 ways, 1 member | holds |
| `library` | restores are whole and add nothing twice, undisturbed backups are whole and can be restored, what a wipe leaves | 2 overlapping requests on 4 libraries with 4 backups, 1 member, pages of 1 row | holds |

Why the bounds are enough to meet the cases: every hazard between requests
listed in `PROJECT.json` is between two of them, two copies are what two bulk
requests need to lock in opposite orders, two members what a claim needs to be
somebody else's, and two loans what one needs to spoil the other's batch. In the
club three requests are what a vote needs to be taken back and given again
between another request's check and its effect, and three posts a thread with a
reply to a reply. One member suffices: votes of two members meet no common key, the
author of a post only decides who may delete it, and the theorems are for any
members. In the kids mode three requests are two that
ask for the same questions and one that deletes the copy meanwhile. In the
catalogue two requests with two items each are enough for a batch to meet itself
and another batch; the library starts empty, or with a record and perhaps a copy
at the second place of the shelf and a wish. The libraries of `library` are an
empty one, one with a shelf, a copy that is read, a wish, a path and a challenge,
one with two copies of a record that stand nowhere and a loan, and one with a
cycle of the book club. The backups are a record without a copy, a copy on a
shelf beside one of the same record that stands nowhere, the two loose copies,
and these with a wish that was made while the file was written. A page has one
row for the code's 500, so that any table of two rows is cut: rows that were there
at first tie with each other and come before those of the two requests, and the
two names of places have ranks of their own. Two
requests are an export or a wipe and what disturbs it, or two imports, of which
one may win an ISBN of the other. The
symmetry sets permute identifiers that no definition tells apart; runs that
check liveness use none.

The three violations are places where the code and its own text disagree:

- `claim_lost`: a status request writes back the reader it read at its start.
  When another member's claim commits in between, the request erases it or
  restores the old reader. Where each request is answered before the next
  begins the promise holds (`SelfServiceAlone`, section 5).
- `reminder_batch`: a flush that fails is logged and skipped, but it has rolled
  the transaction back and left the session unusable: it refuses the rest of the
  batch, and the commit at the end keeps none of the marks made before, whose
  mails were sent. In TLC's trace the flush is that of a deadlock's victim: the
  job has marked one loan and wants the second; a request that deletes both
  copies, and has not committed, holds the second and wants the first. In the
  model a loan that is deleted between its reading and its flush fails the flush
  in the same way (`FlushFails`); the trace does not need it.
- `club_transitions`: an advance or an archive checks the transition on the
  status it read, and writes the new one whatever it is by then. A cycle that is
  moved back to reading while it is being archived goes from reading to
  archived. What the comment wants of it, a discussion before the end, holds
  all the same (`DiscussionFirst`).

The club shows more that no text denies: a post can be inserted after its cycle
was archived, and two promotions of one proposal start two cycles.

Two more things the overlapping model of copies shows, and the reason two invariants are
checked for requests one at a time only: two overlapping saves can leave the
reader of one and the status column of the other (`StatusTracksReader`), and a
save that follows a committed deletion inserts the copy again
(`AuditMatchesTable`).

Where the code and its text disagree without a run of their own, or where the
code allows what a reader may not expect:

- Two requests of one member leave a copy both read and abandoned: the members'
  reads endpoint (`book_reads.py:24`) adds a read mark and leaves the abandoned
  one, while `update_reading_status.py:56` calls the personal states "Mutually
  exclusive with each other". `OwnedCopy` has the step (`MarkBookRead`).
- A section or a shelf that moves leaves the room and the bookcase stored on its
  copies as they were, and nothing checks that the place a client names for a
  copy is one chain. `Library` has the steps (`UpdateSection`, `UpdateShelf`).
- Two copies of one record in one slot, and so two that stand nowhere, become one
  when a backup is restored, because a copy is matched by its record and its
  place, and no place matches no place. `import_full_library.py:238` says that
  "the same record with a different (or no) location is a genuinely separate
  physical copy and is kept". That is so of a copy that stands somewhere and one
  that stands nowhere, or somewhere else, and this is what `RestoredWhole` claims:
  two copies of the file become one only if they were in the same place or both
  in none. It is not so of two that stand nowhere (the backup `Loose`). When both
  were lent, the index refuses the second active loan and the whole import with
  it.
- A record of a backup that loses the race for its ISBN is left in
  `record_id_map` with an identifier that no row has (`import_full_library.py:349`
  keeps the identifier it made, and not that of the record `save()` returned). An
  import with a copy or a wish for that record is then refused by the foreign
  key, although the fallback of `save()` is there to let it go on; one without
  succeeds, and the record is the winner's (`RestoredWhole`, `Missed`).
- A page boundary among rows that tie in their order may skip a row or read it
  twice, with no other request about, in an export of more than 500 rows of one
  table and in the wipe's listing of copies. `pagination.py:11` promises that
  "callers never silently cap out at the first page", and
  `export_full_library.py:52` "every library-owned row". Sections and shelves,
  whose indices repeat in every bookcase and section, tie as a rule. Hence the
  condition `Ordered` of `BackupIsWhole`, and of the history in
  `WipeLeavesNothing`.
- Reading paths and family challenges survive the wipe, which
  `delete_library_data.py:28` says is of "every row this service holds for one
  library" and `account.py:34` of "everything except the global ISBN lookup cache".
  `WipeLeavesNothing` names what is left. A move or an edit of a copy that commits
  between the DELETE of the history and that of the copies leaves its event, and
  a copy added after the copies were deleted is left whole; so only of an
  undisturbed wipe does it say whose history is left.
- `library_import.py:60` says that everything without an ISBN is "inserted as
  new"; rooms, bookcases and copies are matched (`NoPileUp`).
- `import_full_library.py:250` says that a user identifier "with no entry in the
  map is dropped"; for reads, loans, events and wishes the code keeps the old
  one, and for a copy it drops the reader but keeps the status column.
- An export that others disturb may be torn, and the import then refuses it:
  hence the condition of `BackupIsWhole`. The snapshots of removed members are
  exported and never imported, and the time of a reminder is not exported, so a
  restored loan is reminded of again.
- Also an undisturbed wipe leaves the history of copies that were deleted before
  it, which nothing lists any more.
- Two spellings of one ISBN may be two records: creating or editing a record
  stores it as it is written.

### Fairness

`copy_live` assumes weak fairness of each request's next statement: the event
loop runs every task that can go on, and PostgreSQL wakes a waiter and breaks
deadlocks. `Abort` and new requests are not fair. `reminders` assumes the same
for each run of the job, that the scheduler starts runs for ever (its loop has
no exit but cancellation), and that notifications of one loan which are tried
for ever are accepted at some point (strong fairness of `Notify` for each loan:
the code retries by leaving the loan due). Strong fairness of a request's steps
says that a waiter gets its row in the end, which PostgreSQL's queue of waiters
gives. `reminders` has no requests, since each would end before long and leave
this system.

## 5. The proofs

`OwnedCopy_proofs` proves, for any copies, members and places, the type
invariant, `StatusTracksReader`, `MarksHaveBook`, `AuditMatchesTable` and the
action property `StatusAskedIsSeen`. Their conjunction `CopyInv` is inductive:
a copy can be added only under an identifier with no history, and the row's
type is what tells a row from its absence. Assumed: `NoBook` is not a row,
`NoOne` is not a member, `Unplaced` is a place.

`OwnedCopyTx_proofs` proves of the statements, for any requests, copies, members
and places, what holds under any overlap, and then what holds without one.

Under any overlap: the type invariant, `MarksHaveBook` and `PersonalMarks`. A mark
is inserted while its copy is looked at, and the copy may be on its way out, so
`MarksHaveBook` is not inductive. `TxInv` adds

- `WritesOK`: a row that a request has written is locked by it, and the write
  fits what is committed (an INSERT of a copy that is not there, a DELETE by a
  deletion only);
- `InsSafe`: the copy of a mark that is inserted is there or the request's own,
  and nobody else is deleting it: the foreign key's share of the lock discipline;
- `OpsOK` and `DueOK`: a mark that was asked for is set, or a statement is left
  to set it, unless an overlapping request is about the same copies
  (`RivalsKnown`); that is what `PersonalMarks` needs at the commit;
- `StageOK` and `QueueOK`: what is left to do at each statement.

Without overlap, from the assumption `~Overlap`: that the statements implement
the handlers, `CopySpec` (`TxImplementsCopy`), and by it `StatusTracksReader`,
`AuditMatchesTable` and `StatusAskedIsSeen`, which are theorems of `OwnedCopy`;
and `SelfServiceReader`, which fails under overlap. `SerialInv` says that one
request is in flight, that nothing it has read has changed, and that what it has
written is what its handler makes of the rows as they are (`EditOK`, `AddOK`). A
commit is then one step of `OwnedCopy`, and every other step is none. The
assumption is `Overlap`'s value in the run `copy_serial`; it is not a claim about
the server, whose requests do overlap. Besides it: `Overlap` is a Boolean, `Free`
no request, `Keep` no value of a column, `NoWrite` no write.

`Loans_proofs` proves, for any finite sets of copies, loans and workers, any
requests and any bound on crashes, every safety property of the runs `loans` and
`reminders`. `OneActiveLoan` and `LoansHaveCopy` are not inductive: an INSERT that is not committed is a
second loan of the copy waiting to happen, and a deletion that is not committed
a loan's missing copy. `LoanInv` speaks of claims instead, the loans that are
out or inserted by somebody:

- `ClaimedOnce`: one claim per copy. An INSERT is not blocked only when nobody
  else is lending the copy, and the index sees what is committed.
- `InsertsOwn`, `LendersApart`, `MadeAtCommit`: a loan is inserted by the one
  request that made it up, and is not a row before.
- `EndedOnce`: a returned or deleted loan is held by one transaction.
- `DeletedWhole`: a transaction that deletes a copy deletes all its loans, and
  nobody is inserting one.

There is one lemma per action, and `KeepStep` and `RollbackStep` are what a
commit or a rollback of any transaction keeps. `SettledStaysSettled` follows from
`EndedOnce` and `MadeAtCommit`.

What the job promises needs `RunInv`, which adds to it:

- `MarksWereSent`: a worker that looks for a loan, or has written its mark, has
  had its notification sent, so a commit makes no mark that was not
  (`RemindedWasSent`);
- `RunsStartClean`: a worker between runs holds nothing, and a list names each
  loan once;
- `CountedOnce`: a worker none of whose runs has failed (`faulty`) has notified a
  loan at most once, and one it has notified it may not notify again: the loan is
  behind it in its list, and is either settled (marked, or gone with its copy) or
  has its uncommitted mark. `OncePerWorker` is the first half. Of a worker nothing
  is said once one of its runs has failed or crashed, since its marks are then
  lost; the faults of the others do not matter.

The assumptions are that workers
are not requests, that `NoLoan` is no loan, that the crash bound is a natural
number and that copies, loans and workers are finite (the orders of a list are
indexed by its cardinality).

`BookClub_proofs` proves, for any cycles, posts, proposals, members and
requests, the six properties of the run `club`; by `MembersAreHeard` a vote is
taken back only by the toggle that found it, and a participant's status changes
only as that member asked. What a request has checked may
be false when it writes, so the invariants about the tables are not inductive:
`ClubInv` adds, in `AskOK`, what stays true of it. A cycle that was "discussing"
is in `opened` for ever, so an archive or a post that comes late still finds it
there; the row of a post that was there is still known, with its cycle, and the
foreign key asks the rest; a proposal that was there is among those its
promotion clears, or gone. `OthersKeep` says that a step keeps this of the other
requests when tables only move on, `CloseKeeps` that a request that ends leaves
nothing behind, and `ThreadIsClosed` that a cascade leaves no reply hanging.
Assumed: the null values are not rows, posts, proposals or requests.

`Kids_proofs` proves, for any copies, members, days and requests, every property
of the run `kids`, the refinement of `Hanging` included. `KidsInv` adds that
every row is at home (its copy is there, and the request it is named after has
ended: so a request's own name is fresh), that who ended before a request began
has ended, and what a request that waits for the model saw: `NoneFound`, no
question of its copy is older than itself. The refinement maps a deletion of a
copy to `DropParent` and every other step to `Change` or to a step that only
spends names.

`Catalogue_proofs` proves, for any members, titles, ISBNs, items and requests,
every property of the run `catalogue`, both refinements included. A request
inserts its rows over many steps, so `CatInv` says whose rows there can be
(`Homes`): of requests that have ended, or that are adding and have passed that
item. `Refs` says that a row refers to one of its own request or of one that has
ended, which is why a rollback leaves nothing without its parent. `ReadFresh` is
what a save still knows: the row is as it was read, or a request that overlaps
has written it. `PlacesBehind` keeps the place a scan numbers from behind all it
has seen; that there is a largest place to begin with is `BoundedHasMax`.
Assumed, in both modules, are that the null values are not rows or members, and
here that a title resembles itself.

`Library_proofs` proves, for any members, indices, requests, libraries and backups,
every property of the run `library`. `LibInv` says

- `NamesOK`: the rows that are in the tables, or may be again (`Kept`: those of
  backups, and those an edit has read), are named by requests that have ended, as
  is what they refer to, and a name belongs to one table. A new name is fresh
  for this reason, also for a file that is restored later;
- `TablesOK`: names are unique and references hold;
- `PagesOK` and `BackupOK`: a backup has rows of the tables it has read and of
  none after them; one that nobody overlaps has those tables as they still are,
  and of the one it is reading a set of rows that come first, if no table is cut
  among ties (`ReadOn`: the page at an offset then continues it). At its end it is
  closed under references (`BackupIsWhole`);
- `Restoring` in `ImportOK`: every row an import has passed is brought (`Brought`:
  its name and what it refers to are in the map, and a row that is found or added
  is what it became) or is a record that lost its race (`Missed`: its name is one
  the import gave to no row), every row it has added is what some row of the file
  became, and is unlike any that was there. At the commit this is `RestoredWhole`
  and `NoPileUp`. `NothingRefersToMissed` is that the tables would not take a row
  that refers to such a record, so nothing in the file does; `OneCopyOfOnePlace`
  that two copies that became one were mapped to one place, because the row they
  both became has only one;
- `Wiping` in `WipeOK`: after each DELETE nothing is left, of what was there
  throughout, in the tables swept so far (`SweptBy`), and no row that is left
  refers to one that is gone, but copies to places (`CutOff`), so the commit keeps
  the foreign keys; `ListOK`: an undisturbed wipe, not cut among ties, has listed
  every copy and deleted the history of each (`WipeLeavesNothing`). `ImageChanges`
  and `WipeChanges` say which steps these action properties are about.

The import needs no induction over the rows, because it is a step per row. The
proof has two layers: each action leaves the others' rows and jobs alone (`Frame`),
keeps the tables (`Keeps`) and re-establishes the part of its own request (`Own`);
`StepKeeps` shows once that these three give the invariant back. Assumed:
`Earlier` is no request, members are not numbers, `None` is no identifier, a page
has at least one row (`PagesHaveRows`), ranks are numbers (`RanksAreNumbers`), the
libraries at the start keep their constraints (`LibrariesAreSound`) and a file has
rows of the exported tables only (`BackupsNameRows`). That a file names its rows
uniquely is the condition of `RestoredWhole`: of a file that does not, a row may
be mapped as another; an export that reads a row twice across a write is one.

Of the runs' properties only model-checked are the two of liveness,
`EveryRequestEnds` and `DueLoansAreReminded`: the prover does neither ENABLED nor
liveness under fairness. The three that a run violates are not theorems, of
course.

## 6. The plan, and what is not modelled

What is left to do, in this order:

1. The composition of `Catalogue` with `OwnedCopyTx`, for a copy that is added
   and claimed by one request while its record is edited by another.
2. In `Library`, that no two rows of the tables clash in a unique index, as a
   theorem: the type invariant has the names and the references only.
3. The hazards of `PROJECT.json` without a property: a read mark beside an
   abandoned one, the place of copies whose section or shelf moves, and, if the
   cache is ever modelled, the lookups that run at once.

Not modelled:

- The ISBN cache. A row of it is refreshed from a provider when it is old, the
  answer is the same whoever asks, and nothing of the catalogue refers to it. Its
  one hazard is that two bulk lookups in opposite orders keep the rows they have
  written locked while they wait for the provider, and PostgreSQL may have to
  break them apart; `copy_live` asks the same of bulk moves.
- The shelf scan, the shelf audit and the previews read a photo or a file and
  answer; what they find changes the catalogue only by a confirmation.
- Tokens and roles, and the validation of requests: the actions take place for
  who may call them, and inputs are those a schema lets pass.
- Parsing and layout (CSV, photos, the digits of ISBNs, texts of external
  clients), configuration, logging and telemetry: no state of the catalogue.
