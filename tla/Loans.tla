------------------------------- MODULE Loans -------------------------------
(***************************************************************************)
(* Lending, returning and deleting copies, and the job that reminds a      *)
(* library of the loans that fall due.                                     *)
(*                                                                         *)
(* Requests and runs of the job are transactions under READ COMMITTED. The *)
(* service runs several worker processes, each with a scheduler and a job  *)
(* of its own. A run sends one notification after the other to the auth    *)
(* service, marks each loan as it goes, and commits once at its end.       *)
(***************************************************************************)
EXTENDS Naturals, FiniteSets, Sequences

CONSTANTS
  Book,       \* owned copies
  Loan,       \* loan identifiers (UUIDs); an identifier is used once
  Request,    \* requests; each is made at most once
  Worker,     \* worker processes
  NoLoan,     \* a request about no loan
  MaxCrashes  \* bound on the crashes of workers in the middle of a run

ASSUME WorkersServeNoRequest == Request \cap Worker = {}
ASSUME NoLoanIsNoLoan == NoLoan \notin Loan
ASSUME CrashBound == MaxCrashes \in Nat
ASSUME FinitelyMany == IsFiniteSet(Book) /\ IsFiniteSet(Loan) /\ IsFiniteSet(Worker)

VARIABLES
  present,   \* the rows of owned_books
  row,       \* book_loans: each loan is not made, out, back, or its row gone
  reminded,  \* the loans with a reminder_sent_at
  of, due,   \* each loan's copy, and where its due date stands
  pend,      \* each transaction's uncommitted writes to rows of book_loans
  doomed,    \* the copies each transaction has deleted and not committed
  req,       \* each request
  job,       \* each worker's run of the reminder job
  sent,      \* history: what each worker has sent for each loan, up to a cap
  faulty,    \* history: the workers a run of which crashed or met a failure
  crashes    \* counts crashes, for the bound

tables == <<present, row, reminded>>
facts  == <<of, due>>
txs    == <<pend, doomed>>
ghosts == <<sent, faulty, crashes>>
vars   == <<tables, facts, txs, req, job, ghosts>>

----------------------------------------------------------------------------
(* Transactions *)

Tx == Request \cup Worker

Out(l) == row[l] = "out"
Holds(t, l) == pend[t][l] # "nothing"
Lends(t, b) == \E l \in Loan : pend[t][l] = "insert" /\ of[l] = b

\* What t's next statement waits for while s holds it: the row of a loan it
\* updates; for an INSERT the copy it refers to (foreign key) and the entry
\* of the unique index on the active loans of the copy; for a DELETE the copy
\* and the loans that go with it.
BlockedBy(t, s) ==
  /\ s # t
  /\ \/ /\ t \in Worker /\ job[t].pc = "mark" /\ Holds(s, Head(job[t].queue))
     \/ /\ t \in Request /\ req[t].pc = "write"
        /\ \/ req[t].kind = "return" /\ Holds(s, req[t].loan)
           \/ /\ req[t].kind = "lend"
              /\ LET b == of[req[t].loan]
                 IN  \/ b \in doomed[s] \/ Lends(s, b)
                     \/ \E l \in Loan : of[l] = b /\ Out(l) /\ Holds(s, l)
           \/ /\ req[t].kind = "delete"
              /\ LET b == Head(req[t].todo)
                 IN  \/ b \in doomed[s]
                     \/ \E l \in Loan : of[l] = b /\ Holds(s, l)

Blocked(t) == \E s \in Tx : BlockedBy(t, s)

\* PostgreSQL ends a deadlock by failing a transaction in it.
InDeadlock(t) ==
  \E S \in SUBSET Tx :
    /\ t \in S
    /\ \A u \in S : \E v, w \in S : BlockedBy(u, v) /\ BlockedBy(w, u)

NoWrites == [l \in Loan |-> "nothing"]

\* Mutant of Written: a return writes a state nothing else knows.
WrittenUnknown(w, old) ==
  CASE w = "insert" -> "out"
    [] w = "return" -> "returned"
    [] w = "delete" -> "gone"
    [] OTHER -> old

\* Mutant of Written: the reminder writes back the row it listed.
WrittenWhole(w, old) ==
  CASE w = "return" -> "back"
    [] w = "delete" -> "gone"
    [] w \in {"insert", "remind"} -> "out"
    [] OTHER -> old

\* What a write makes of a row: an UPDATE sets only the column that changed.
Written(w, old) ==
  CASE w = "insert" -> "out"
    [] w = "return" -> "back"
    [] w = "delete" -> "gone"
    [] OTHER -> old

\* The end of t's transaction, which keeps its writes or drops them.
Release(t) ==
  /\ pend' = [pend EXCEPT ![t] = NoWrites]
  /\ doomed' = [doomed EXCEPT ![t] = {}]

Keep(t) ==
  /\ present' = present \ doomed[t]
  /\ row' = [l \in Loan |-> Written(pend[t][l], row[l])]
  /\ reminded' = reminded \cup {l \in Loan : pend[t][l] = "remind"}
  /\ Release(t)

Rollback(t) == Release(t) /\ UNCHANGED tables

----------------------------------------------------------------------------
(* Requests *)

Idle == [pc |-> "idle", kind |-> "none", todo |-> <<>>, loan |-> NoLoan]
Go(r, pc) == req' = [req EXCEPT ![r].pc = pc]
Ask(r, kind, todo, l) ==
  /\ req[r].pc = "idle"
  /\ req' = [req EXCEPT ![r] = [pc |-> "write", kind |-> kind, todo |-> todo,
                                loan |-> l]]

\* The copies of S, or the loans, in every order.
Orders(S) ==
  {o \in [1 .. Cardinality(S) -> S] :
     \A i, j \in 1 .. Cardinality(S) : o[i] = o[j] => i = j}

\* LendBookUseCase up to its INSERT: the copy is there and not on loan.
Lend(r, b, l, d) ==
  /\ b \in present
  /\ \A k \in Loan : ~(of[k] = b /\ Out(k))
  /\ row[l] = "none" /\ \A s \in Request : req[s].loan # l
  /\ Ask(r, "lend", <<b>>, l)
  /\ of' = [of EXCEPT ![l] = b]
  /\ due' = [due EXCEPT ![l] = d]
  /\ UNCHANGED <<tables, txs, job, ghosts>>

\* ReturnBookUseCase up to its UPDATE: there is an active loan of the copy.
Return(r, b, l) ==
  /\ b \in present
  /\ of[l] = b /\ Out(l)
  /\ Ask(r, "return", <<b>>, l)
  /\ UNCHANGED <<tables, facts, txs, job, ghosts>>

Delete(r, todo) ==
  /\ \A i \in DOMAIN todo : todo[i] \in present
  /\ Ask(r, "delete", todo, NoLoan)
  /\ UNCHANGED <<tables, facts, txs, job, ghosts>>

\* Mutant of Referable: no foreign key from the loan to the copy.
Unreferenced(b) == TRUE

\* The foreign key: a loan is made for a copy that is there.
Referable(b) == b \in present

\* Mutant of IndexRefuses: the check before the INSERT is all there is.
NoIndex(b) == FALSE

\* The partial unique index: a copy has at most one loan that is out.
IndexRefuses(b) == \E k \in Loan : of[k] = b /\ Out(k)

InsertLoan(r) ==
  LET b == of[req[r].loan]
  IN  /\ req[r].pc = "write" /\ req[r].kind = "lend" /\ ~Blocked(r)
      /\ Referable(b) /\ ~IndexRefuses(b)
      /\ pend' = [pend EXCEPT ![r][req[r].loan] = "insert"]
      /\ Go(r, "commit")
      /\ UNCHANGED <<tables, facts, doomed, job, ghosts>>

SetReturned(r) ==
  /\ req[r].pc = "write" /\ req[r].kind = "return" /\ ~Blocked(r)
  /\ row[req[r].loan] # "gone"
  /\ pend' = [pend EXCEPT ![r][req[r].loan] = "return"]
  /\ Go(r, "commit")
  /\ UNCHANGED <<tables, facts, doomed, job, ghosts>>

\* ON DELETE CASCADE: the loans that go with a copy.
Cascade(b) == {l \in Loan : of[l] = b /\ row[l] \in {"out", "back"}}

\* One copy of a DELETE; one that is gone already is not there to delete.
DeleteCopy(r) ==
  LET b == Head(req[r].todo)
      todo == Tail(req[r].todo)
  IN  /\ req[r].pc = "write" /\ req[r].kind = "delete" /\ ~Blocked(r)
      /\ doomed' = [doomed EXCEPT ![r] = @ \cup ({b} \cap present)]
      /\ pend' = [pend EXCEPT ![r] =
                    [l \in Loan |-> IF l \in Cascade(b) THEN "delete" ELSE @[l]]]
      /\ req' = [req EXCEPT ![r].todo = todo,
                            ![r].pc = IF todo = <<>> THEN "commit" ELSE "write"]
      /\ UNCHANGED <<tables, facts, job, ghosts>>

Commit(r) ==
  /\ req[r].pc = "commit"
  /\ Keep(r)
  /\ Go(r, "done")
  /\ UNCHANGED <<facts, job, ghosts>>

Fail(r) ==
  /\ Rollback(r)
  /\ Go(r, "failed")
  /\ UNCHANGED <<facts, job, ghosts>>

\* 409: the copy went, or somebody else lent it, since the check. 500: the
\* loan to return went.
Refuse(r) ==
  /\ req[r].pc = "write" /\ ~Blocked(r)
  /\ \/ /\ req[r].kind = "lend"
        /\ ~Referable(of[req[r].loan]) \/ IndexRefuses(of[req[r].loan])
     \/ req[r].kind = "return" /\ row[req[r].loan] = "gone"
  /\ Fail(r)

RequestVictim(r) == InDeadlock(r) /\ Fail(r)

\* The server stops, or loses its connection, before the commit.
Abort(r) == req[r].pc \in {"write", "commit"} /\ Fail(r)

----------------------------------------------------------------------------
(* The reminder job *)

\* `marked` is a history variable: the loans the run has marked on its way.

Resting == [pc |-> "idle", queue |-> <<>>, poisoned |-> FALSE, marked |-> {}]

\* The loan a run is at, and the step that goes on to the next one.
Current(w) == Head(job[w].queue)
Skip(w) == [job[w] EXCEPT !.pc = "next", !.queue = Tail(@)]
At(w, pc) == job' = [job EXCEPT ![w].pc = pc]

\* Once or twice is told apart, and that only until a run of the worker fails.
Capped(w, n) == IF n > 1 \/ (n = 1 /\ w \in faulty) THEN n ELSE n + 1

\* Mutant of DueForReminder: loans already reminded are listed again.
DueReminded == {l \in Loan : Out(l) /\ due[l] = "soon"}

\* list_due_for_reminder.
DueForReminder == {l \in Loan : Out(l) /\ l \notin reminded /\ due[l] = "soon"}

\* A run that finds nothing due changes nothing; it is left out. Runs are a
\* day apart: an UPDATE that waits for nothing is done before one starts.
StartRun(w) ==
  /\ job[w].pc = "idle"
  /\ \A v \in Worker : job[v].pc = "mark" => Blocked(v)
  /\ DueForReminder # {}
  /\ \E o \in Orders(DueForReminder) :
       job' = [job EXCEPT ![w] = [Resting EXCEPT !.pc = "next", !.queue = o]]
  /\ UNCHANGED <<tables, facts, txs, req, ghosts>>

\* The loan's copy is still there, and no failed flush has left the session
\* unusable.
Readable(w) == of[Current(w)] \in present /\ ~job[w].poisoned

AtLoan(w) == job[w].pc = "next" /\ job[w].queue # <<>>

SkipLoan(w) ==
  /\ AtLoan(w) /\ ~Readable(w)
  /\ job' = [job EXCEPT ![w] = Skip(w)]
  /\ UNCHANGED <<tables, facts, txs, req, ghosts>>

Notify(w) ==
  /\ AtLoan(w) /\ Readable(w)
  /\ sent' = [sent EXCEPT ![w][Current(w)] = Capped(w, @)]
  /\ At(w, "look")
  /\ UNCHANGED <<tables, facts, txs, req, faulty, crashes>>

\* Mutant of NotifyFails: the answer is not looked at, and the loan is marked.
NotifyUnchecked(w) ==
  /\ AtLoan(w) /\ Readable(w)
  /\ faulty' = faulty \cup {w}
  /\ At(w, "look")
  /\ UNCHANGED <<tables, facts, txs, req, sent, crashes>>

\* The call fails or times out; the mail may have been sent all the same.
NotifyFails(w) ==
  /\ AtLoan(w) /\ Readable(w)
  /\ \/ sent' = [sent EXCEPT ![w][Current(w)] = Capped(w, @)]
     \/ sent' = sent
  /\ faulty' = faulty \cup {w}
  /\ job' = [job EXCEPT ![w] = Skip(w)]
  /\ UNCHANGED <<tables, facts, txs, req, crashes>>

\* mark_reminder_sent reads the loan, which may have gone with its copy.
LookLoan(w) ==
  /\ job[w].pc = "look"
  /\ IF row[Current(w)] = "gone" THEN job' = [job EXCEPT ![w] = Skip(w)]
                                 ELSE At(w, "mark")
  /\ UNCHANGED <<tables, facts, txs, req, ghosts>>

MarkReminded(w) ==
  /\ job[w].pc = "mark" /\ ~Blocked(w)
  /\ row[Current(w)] # "gone"
  /\ pend' = [pend EXCEPT ![w][Current(w)] = "remind"]
  /\ job' = [job EXCEPT ![w] = [Skip(w) EXCEPT !.marked = @ \cup {Current(w)}]]
  /\ UNCHANGED <<tables, facts, doomed, req, ghosts>>

\* A flush that fails rolls the transaction back, and the session refuses
\* everything until rollback() is called: the loan went since it was read, or
\* the run was the victim of a deadlock.
FlushFails(w) ==
  /\ job[w].pc = "mark"
  /\ \/ ~Blocked(w) /\ row[Current(w)] = "gone"
     \/ InDeadlock(w)
  /\ Rollback(w)
  /\ job' = [job EXCEPT ![w] = [Skip(w) EXCEPT !.poisoned = TRUE]]
  /\ faulty' = faulty \cup {w}
  /\ UNCHANGED <<facts, req, sent, crashes>>

\* Mutant of EndRun: the run closes its session without a commit.
EndRunUncommitted(w) ==
  /\ job[w].pc = "next" /\ job[w].queue = <<>>
  /\ Rollback(w)
  /\ job' = [job EXCEPT ![w] = Resting]
  /\ UNCHANGED <<facts, req, ghosts>>

\* session.commit(), which keeps nothing of a poisoned session.
EndRun(w) ==
  /\ job[w].pc = "next" /\ job[w].queue = <<>>
  /\ Keep(w)
  /\ job' = [job EXCEPT ![w] = Resting]
  /\ UNCHANGED <<facts, req, ghosts>>

\* The process stops in the middle of a run; its successor starts another.
Crash(w) ==
  /\ job[w].pc # "idle" /\ crashes < MaxCrashes
  /\ Rollback(w)
  /\ job' = [job EXCEPT ![w] = Resting]
  /\ faulty' = faulty \cup {w}
  /\ crashes' = crashes + 1
  /\ UNCHANGED <<facts, req, sent>>

\* The clock reaches the lead time before a loan's due date.
FallsDue(l) ==
  /\ due[l] = "later"
  /\ due' = [due EXCEPT ![l] = "soon"]
  /\ UNCHANGED <<tables, of, txs, req, job, ghosts>>

----------------------------------------------------------------------------
DueDate == {"never", "later", "soon"}

\* Some copies are on loan already, each on one loan nobody was reminded of.
Init ==
  /\ present = Book
  /\ of \in [Loan -> Book] /\ due \in [Loan -> DueDate]
  /\ row \in [Loan -> {"none", "out"}]
  /\ \A k, l \in Loan : Out(k) /\ Out(l) /\ of[k] = of[l] => k = l
  /\ \A l \in Loan : row[l] = "none" => due[l] = "never"
  /\ reminded = {}
  /\ pend = [t \in Tx |-> NoWrites]
  /\ doomed = [t \in Tx |-> {}]
  /\ req = [r \in Request |-> Idle]
  /\ job = [w \in Worker |-> Resting]
  /\ sent = [w \in Worker |-> [l \in Loan |-> 0]]
  /\ faulty = {}
  /\ crashes = 0

Proceed(r) ==
  \/ InsertLoan(r) \/ SetReturned(r) \/ DeleteCopy(r) \/ Commit(r)
  \/ Refuse(r) \/ RequestVictim(r)

Run(w) ==
  \/ StartRun(w) \/ SkipLoan(w) \/ LookLoan(w) \/ MarkReminded(w)
  \/ FlushFails(w) \/ EndRun(w)

Next ==
  \/ \E r \in Request :
       \/ \E b \in Book, l \in Loan, d \in DueDate : Lend(r, b, l, d)
       \/ \E b \in Book, l \in Loan : Return(r, b, l)
       \/ \E S \in (SUBSET Book) \ {{}} : \E todo \in Orders(S) : Delete(r, todo)
       \/ Proceed(r)
       \/ Abort(r)
  \/ \E w \in Worker : Run(w) \/ Notify(w) \/ NotifyFails(w) \/ Crash(w)
  \/ \E l \in Loan : FallsDue(l)

Spec == Init /\ [][Next]_vars

\* Requests and runs go on, and a request that waits for a row gets it in the
\* end, since PostgreSQL grants it in the order of arrival; the scheduler
\* starts runs for ever; and the auth service does not refuse the
\* notifications of one loan for ever.
FairSpec ==
  /\ Spec
  /\ \A r \in Request : SF_vars(Proceed(r))
  /\ \A w \in Worker : WF_vars(Run(w))
  /\ \A w \in Worker, l \in Loan : SF_vars(Notify(w) /\ Current(w) = l)

----------------------------------------------------------------------------
(* Properties *)

RowState == {"none", "out", "back", "gone"}
Pending  == {"nothing", "insert", "return", "remind", "delete"}

ReqType ==
  [pc : {"idle", "write", "commit", "done", "failed"},
   kind : {"none", "lend", "return", "delete"},
   todo : Seq(Book), loan : Loan \cup {NoLoan}]
JobType ==
  [pc : {"idle", "next", "look", "mark"},
   queue : Seq(Loan), poisoned : BOOLEAN, marked : SUBSET Loan]

TypeOK ==
  /\ present \subseteq Book
  /\ row \in [Loan -> RowState]
  /\ reminded \subseteq Loan
  /\ of \in [Loan -> Book] /\ due \in [Loan -> DueDate]
  /\ pend \in [Tx -> [Loan -> Pending]]
  /\ doomed \in [Tx -> SUBSET Book]
  /\ req \in [Request -> ReqType]
  /\ job \in [Worker -> JobType]
  /\ sent \in [Worker -> [Loan -> Nat]] /\ faulty \subseteq Worker /\ crashes \in 0 .. MaxCrashes

(* A copy is out on one loan at a time, however requests to lend it race:  *)
(* the check before the INSERT does not see what others have not committed. *)
(* (LendBookUseCase and the index of migration 0023)                       *)
OneActiveLoan ==
  \A k, l \in Loan : Out(k) /\ Out(l) /\ of[k] = of[l] => k = l

(* A loan goes with its copy: no row of book_loans is about a copy that is *)
(* gone, although a loan may be made while the copy is being deleted.      *)
LoansHaveCopy == \A l \in Loan : row[l] \in {"out", "back"} => of[l] \in present

(* A loan that was returned stays returned, one that is gone stays gone,   *)
(* and a reminder once recorded stays recorded: a run of the job that      *)
(* listed the loan before it was returned does not bring it back.          *)
SettledStaysSettled ==
  [][/\ \A l \in Loan : /\ row[l] = "back" => row'[l] \in {"back", "gone"}
                        /\ row[l] = "gone" => row'[l] = "gone"
     /\ reminded \subseteq reminded']_vars

(* As long as none of its runs fails, a worker notifies a loan at most once,*)
(* whatever the other workers do and however their runs fail: two workers  *)
(* may both list it before either commits, but what a worker has sent and  *)
(* not committed its later runs do not list.                               *)
(* (list_due_for_reminder, mark_reminder_sent)                             *)
OncePerWorker == \A w \in Worker \ faulty, l \in Loan : sent[w][l] <= 1

(* No reminder is lost: a loan counts as reminded only after a             *)
(* notification for it was sent, whatever fails.                           *)
RemindedWasSent == \A l \in reminded : \E w \in Worker : sent[w][l] > 0

(* A loan that falls due is reminded, unless it is returned or its copy is *)
(* deleted: neither crashes nor failed runs nor workers that deadlock keep *)
(* a reminder back for ever.                                               *)
DueLoansAreReminded ==
  \A l \in Loan : Out(l) /\ due[l] = "soon" ~> l \in reminded \/ ~Out(l)

(* "A failure on one loan [...] is logged and skipped - it must not block  *)
(* the rest of the batch": when a run comes to its end, the loans it has   *)
(* notified and marked on its way are reminded, unless they are gone.      *)
(* (SendLoanRemindersUseCase.execute)                                      *)
FailureStaysLocal ==
  [][\A w \in Worker :
       job[w].pc = "next" /\ job'[w].pc = "idle" /\ crashes' = crashes
         => \A l \in job[w].marked : l \in reminded' \/ row[l] = "gone"]_vars

=============================================================================
