---------------------------- MODULE Loans_proofs ----------------------------
(***************************************************************************)
(* Theorems about Loans, for any finite sets of copies, loans and workers, *)
(* any set of requests and any bound on the crashes.                       *)
(*                                                                         *)
(* OneActiveLoan is not inductive: what keeps a second loan of a copy from *)
(* being committed is that its INSERT waited for whoever was lending the   *)
(* copy. The inductive invariant therefore speaks of claims, the loans     *)
(* that are out and the ones about to be, and of who may make them.        *)
(*                                                                         *)
(* What the job promises is proved in the second half: RunInv adds what a  *)
(* run has sent before it writes a mark, and which workers may still       *)
(* notify a loan.                                                          *)
(***************************************************************************)
EXTENDS Loans, FiniteSetTheorems, TLAPS

\* A loan that is out, or inserted and not committed.
Claim(l) == Out(l) \/ \E t \in Tx : pend[t][l] = "insert"

ClaimedOnce ==
  \A k, l \in Loan : Claim(k) /\ Claim(l) /\ of[k] = of[l] => k = l

\* Only the request that made up a loan inserts it.
InsertsOwn ==
  \A t \in Tx, l \in Loan : pend[t][l] = "insert" =>
    t \in Request /\ req[t].kind = "lend" /\ req[t].pc = "commit" /\ req[t].loan = l

\* Two requests do not make up the same loan.
LendersApart ==
  \A r, s \in Request :
    req[r].kind = "lend" /\ req[s].kind = "lend" /\ req[r].loan = req[s].loan => r = s

\* A loan is not made before its request commits. One transaction at a time
\* returns or deletes a loan, and the loan is there until it commits.
MadeAtCommit ==
  \A r \in Request :
    /\ req[r].kind \in {"lend", "return"} => req[r].loan \in Loan
    /\ req[r].kind = "lend" /\ req[r].pc \in {"write", "commit"}
         => row[req[r].loan] = "none"
    /\ req[r].kind = "return" => row[req[r].loan] # "none"

Ending(t, l) == pend[t][l] \in {"return", "delete"}

EndedOnce ==
  \A s, t \in Tx, l \in Loan :
    Ending(t, l) => /\ row[l] \in {"out", "back"}
                    /\ Ending(s, l) => s = t

\* A copy is deleted together with the loans there are of it, and no loan is
\* being made of it.
DeletedWhole ==
  /\ \A t \in Tx : doomed[t] # {} => t \in Request /\ req[t].kind = "delete"
  /\ \A t \in Tx, l \in Loan :
       of[l] \in doomed[t] /\ row[l] \in {"out", "back"} => pend[t][l] = "delete"
  /\ \A s, t \in Tx, l \in Loan :
       pend[t][l] = "insert" => of[l] \in present /\ of[l] \notin doomed[s]

QueuesOK ==
  /\ \A w \in Worker : job[w].pc \in {"look", "mark"} => job[w].queue # <<>>
  /\ \A r \in Request : /\ req[r].pc = "write" => req[r].todo # <<>>
                        /\ req[r].pc = "idle" => req[r].kind = "none"

LoanInv ==
  /\ TypeOK
  /\ QueuesOK
  /\ InsertsOwn
  /\ LendersApart
  /\ MadeAtCommit
  /\ EndedOnce
  /\ ClaimedOnce
  /\ DeletedWhole
  /\ LoansHaveCopy

----------------------------------------------------------------------------
(* Orders, and the parts of the invariant a step of one kind keeps *)

LEMMA OrdersAreSequences ==
  ASSUME NEW S, IsFiniteSet(S), NEW o \in Orders(S)
  PROVE  o \in Seq(S) /\ (S # {} => o # <<>>)
<1>1. Cardinality(S) \in Nat /\ (S # {} => Cardinality(S) # 0)
  BY FS_CardinalityType, FS_EmptySet
<1>2. o \in [1 .. Cardinality(S) -> S]
  BY DEF Orders
<1>3. o \in Seq(S) /\ Len(o) = Cardinality(S)
  BY <1>1, <1>2
<1> QED
  BY <1>1, <1>3

\* A request goes on to its next step.
LEMMA GoStep ==
  ASSUME LoanInv, NEW r \in Request,
         NEW p \in {"idle", "write", "commit", "done", "failed"},
         req' = [req EXCEPT ![r].pc = p]
  PROVE  /\ req' \in [Request -> ReqType]
         /\ \A s \in Request :
              /\ req'[s].kind = req[s].kind /\ req'[s].loan = req[s].loan
              /\ req'[s].todo = req[s].todo
              /\ req'[s].pc = IF s = r THEN p ELSE req[s].pc
<1>1. req \in [Request -> ReqType]
  BY DEF LoanInv, TypeOK
<1> QED
  BY <1>1 DEF ReqType

\* A step of the job that writes nothing keeps all but the types.
LEMMA QuietStep ==
  ASSUME LoanInv, UNCHANGED <<present, row, of, pend, doomed, req>>,
         TypeOK', QueuesOK'
  PROVE  LoanInv'
BY DEF LoanInv, InsertsOwn, LendersApart, MadeAtCommit, EndedOnce, Ending,
       ClaimedOnce, Claim, Out, DeletedWhole, LoansHaveCopy, Tx

\* Requests keep their kinds and their loans, and only t's ends.
Ends(t) ==
  \A r \in Request :
    /\ req'[r].kind = req[r].kind /\ req'[r].loan = req[r].loan
    /\ r # t => req'[r].pc = req[r].pc
    /\ r = t => req'[r].pc \notin {"write", "commit"}

\* A transaction that commits turns its claim into a loan that is out, and
\* takes the loans of the copies it deleted along.
LEMMA KeepStep ==
  ASSUME LoanInv, NEW t \in Tx, Keep(t), Ends(t), of' = of, TypeOK', QueuesOK'
  PROVE  LoanInv'
<1> USE DEF Ending
<1>1. /\ present' = present \ doomed[t]
      /\ \A l \in Loan : row'[l] = Written(pend[t][l], row[l])
      /\ \A l \in Loan : pend'[t][l] = "nothing"
      /\ \A s \in Tx : s # t => pend'[s] = pend[s] /\ doomed'[s] = doomed[s]
      /\ doomed'[t] = {}
  BY DEF Keep, Release, NoWrites, LoanInv, TypeOK
<1>2. ASSUME NEW l \in Loan
      PROVE  /\ row'[l] = "out" => Claim(l)
             /\ row'[l] = "none" <=> row[l] = "none" /\ pend[t][l] # "insert"
             /\ row'[l] \in {"out", "back"} =>
                  /\ pend[t][l] = "insert" \/ row[l] \in {"out", "back"}
                  /\ pend[t][l] # "delete"
             /\ row[l] \in {"out", "back"} /\ pend[t][l] # "delete"
                  => row'[l] \in {"out", "back"}
  <2>1. row[l] \in RowState /\ pend[t][l] \in Pending
    BY DEF LoanInv, TypeOK
  <2>2. Ending(t, l) => row[l] \in {"out", "back"}
    BY DEF LoanInv, EndedOnce
  <2> QED
    BY <1>1, <2>1, <2>2 DEF Written, RowState, Pending, Claim, Out
<1>3. \A s \in Tx, l \in Loan : pend'[s][l] # "nothing" => s # t /\ pend'[s][l] = pend[s][l]
  BY <1>1
<1>4. InsertsOwn'
  BY <1>3 DEF LoanInv, InsertsOwn, Ends
<1>5. LendersApart'
  BY DEF LoanInv, LendersApart, Ends
<1>6. MadeAtCommit'
  <2> SUFFICES ASSUME NEW r \in Request
               PROVE  /\ req[r].kind \in {"lend", "return"} => req[r].loan \in Loan
                      /\ req[r].kind = "lend" /\ req'[r].pc \in {"write", "commit"}
                           => row'[req[r].loan] = "none"
                      /\ req[r].kind = "return" => row'[req[r].loan] # "none"
    BY DEF MadeAtCommit, Ends
  <2>1. req[r].kind \in {"lend", "return"} => req[r].loan \in Loan
    BY DEF LoanInv, MadeAtCommit
  <2>2. ASSUME req[r].kind = "lend", req'[r].pc \in {"write", "commit"}
        PROVE  row'[req[r].loan] = "none"
    <3>1. r # t /\ req[r].pc \in {"write", "commit"}
      BY <2>2 DEF Ends
    <3>2. row[req[r].loan] = "none"
      BY <2>2, <3>1 DEF LoanInv, MadeAtCommit
    <3>3. pend[t][req[r].loan] # "insert"
      BY <2>1, <2>2, <3>1 DEF LoanInv, InsertsOwn, LendersApart
    <3> QED
      BY <1>2, <2>1, <2>2, <3>2, <3>3
  <2>3. req[r].kind = "return" => row'[req[r].loan] # "none"
    BY <1>2, <2>1 DEF LoanInv, MadeAtCommit
  <2> QED
    BY <2>1, <2>2, <2>3
<1>7. EndedOnce'
  BY <1>2, <1>3 DEF LoanInv, EndedOnce
<1>8. ClaimedOnce'
  <2>1. ASSUME NEW l \in Loan, Claim(l)' PROVE Claim(l)
    BY <1>2, <1>3, <2>1 DEF Claim, Out
  <2> QED
    BY <2>1 DEF LoanInv, ClaimedOnce
<1>9. DeletedWhole'
  <2>1. \A s \in Tx : doomed'[s] # {} => s # t /\ doomed'[s] = doomed[s]
    BY <1>1
  <2>2. ASSUME NEW s \in Tx, NEW l \in Loan, of[l] \in doomed'[s],
               row'[l] \in {"out", "back"}
        PROVE  pend'[s][l] = "delete"
    <3>1. s # t /\ of[l] \in doomed[s]
      BY <2>1, <2>2
    <3>2. row[l] \in {"out", "back"}
      BY <1>2, <2>2, <3>1 DEF LoanInv, DeletedWhole
    <3> QED
      BY <1>1, <3>1, <3>2 DEF LoanInv, DeletedWhole
  <2>3. ASSUME NEW s \in Tx, NEW u \in Tx, NEW l \in Loan, pend'[u][l] = "insert"
        PROVE  of[l] \in present' /\ of[l] \notin doomed'[s]
    BY <1>1, <1>3, <2>1, <2>3 DEF LoanInv, DeletedWhole
  <2> QED
    BY <2>1, <2>2, <2>3 DEF LoanInv, DeletedWhole, Ends
<1>10. LoansHaveCopy'
  <2> SUFFICES ASSUME NEW l \in Loan, row'[l] \in {"out", "back"}
               PROVE  of[l] \in present'
    BY DEF LoansHaveCopy
  <2>1. CASE pend[t][l] = "insert"
    BY <1>1, <2>1 DEF LoanInv, DeletedWhole
  <2>2. CASE pend[t][l] # "insert"
    BY <1>1, <1>2, <2>2 DEF LoanInv, LoansHaveCopy, DeletedWhole
  <2> QED
    BY <2>1, <2>2
<1> QED
  BY <1>4, <1>5, <1>6, <1>7, <1>8, <1>9, <1>10 DEF LoanInv

\* A transaction that is rolled back leaves the tables and drops its claim.
LEMMA RollbackStep ==
  ASSUME LoanInv, NEW t \in Tx, Rollback(t), Ends(t), of' = of, TypeOK', QueuesOK'
  PROVE  LoanInv'
<1> USE DEF Ending
<1>1. /\ present' = present /\ row' = row
      /\ \A l \in Loan : pend'[t][l] = "nothing"
      /\ \A s \in Tx : s # t => pend'[s] = pend[s] /\ doomed'[s] = doomed[s]
      /\ doomed'[t] = {}
  BY DEF Rollback, Release, NoWrites, LoanInv, TypeOK, tables
<1>2. \A s \in Tx, l \in Loan : pend'[s][l] # "nothing" => s # t /\ pend'[s][l] = pend[s][l]
  BY <1>1
<1>3. \A s \in Tx : doomed'[s] # {} => s # t /\ doomed'[s] = doomed[s]
  BY <1>1
<1>4. InsertsOwn' /\ LendersApart'
  BY <1>2 DEF LoanInv, InsertsOwn, LendersApart, Ends
<1>5. MadeAtCommit' /\ EndedOnce'
  BY <1>1, <1>2 DEF LoanInv, MadeAtCommit, EndedOnce, Ends
<1>6. ClaimedOnce'
  <2>1. ASSUME NEW l \in Loan, Claim(l)' PROVE Claim(l)
    BY <1>1, <1>2, <2>1 DEF Claim, Out
  <2> QED
    BY <2>1 DEF LoanInv, ClaimedOnce
<1>7. DeletedWhole' /\ LoansHaveCopy'
  BY <1>1, <1>2, <1>3 DEF LoanInv, DeletedWhole, LoansHaveCopy, Ends
<1> QED
  BY <1>4, <1>5, <1>6, <1>7 DEF LoanInv

----------------------------------------------------------------------------
(* The initial states *)

LEMMA InitHolds == Init => LoanInv
<1> SUFFICES ASSUME Init PROVE LoanInv
  OBVIOUS
<1> USE DEF Init
<1>1. TypeOK
  <2>1. \A t \in Tx : pend[t] \in [Loan -> Pending]
    BY DEF NoWrites, Pending
  <2>2. /\ \A r \in Request : req[r] = Idle
        /\ \A w \in Worker : job[w] = Resting
    OBVIOUS
  <2>3. Idle \in ReqType
    BY DEF Idle, ReqType
  <2>4. Resting \in JobType
    BY DEF Resting, JobType
  <2>5. /\ pend \in [Tx -> [Loan -> Pending]] /\ doomed \in [Tx -> SUBSET Book]
        /\ row \in [Loan -> RowState]
    BY <2>1 DEF RowState
  <2>6. req \in [Request -> {Idle}] /\ job \in [Worker -> {Resting}]
    OBVIOUS
  <2>7. /\ sent \in [Worker -> [Loan -> Nat]] /\ crashes \in 0 .. MaxCrashes
        /\ present \subseteq Book /\ reminded \subseteq Loan
    BY CrashBound
  <2>8. faulty \subseteq Worker /\ of \in [Loan -> Book] /\ due \in [Loan -> DueDate]
    OBVIOUS
  <2> QED
    BY <2>3, <2>4, <2>5, <2>6, <2>7, <2>8 DEF TypeOK
<1>2. QueuesOK
  BY DEF QueuesOK, Idle, Resting
<1>3. InsertsOwn /\ LendersApart /\ MadeAtCommit /\ EndedOnce
  BY DEF InsertsOwn, LendersApart, MadeAtCommit, EndedOnce, Ending, NoWrites, Idle
<1>4. ClaimedOnce
  BY DEF ClaimedOnce, Claim, Out, NoWrites
<1>5. DeletedWhole /\ LoansHaveCopy
  BY DEF DeletedWhole, LoansHaveCopy, NoWrites
<1> QED
  BY <1>1, <1>2, <1>3, <1>4, <1>5 DEF LoanInv

----------------------------------------------------------------------------
(* Requests *)

LEMMA LendHolds ==
  ASSUME LoanInv, NEW r \in Request, NEW b \in Book, NEW l \in Loan,
         NEW d \in DueDate, Lend(r, b, l, d)
  PROVE  LoanInv'
<1> USE DEF Lend, Ask
<1>1. /\ req' = [req EXCEPT ![r] = [pc |-> "write", kind |-> "lend",
                                    todo |-> <<b>>, loan |-> l]]
      /\ of' = [of EXCEPT ![l] = b]
      /\ due' = [due EXCEPT ![l] = d]
      /\ UNCHANGED <<present, row, reminded, pend, doomed, job, sent, faulty, crashes>>
      /\ req[r].pc = "idle" /\ row[l] = "none"
      /\ \A s \in Request : req[s].loan # l
  BY DEF tables, txs, ghosts
<1>2. TypeOK'
  BY <1>1 DEF LoanInv, TypeOK, ReqType
<1>3. QueuesOK'
  BY <1>1 DEF LoanInv, QueuesOK, TypeOK, ReqType
<1>4. \A t \in Tx : pend[t][l] # "insert"
  BY <1>1 DEF LoanInv, InsertsOwn
<1>5. InsertsOwn'
  BY <1>1 DEF LoanInv, InsertsOwn, TypeOK, ReqType
<1>6. LendersApart' /\ MadeAtCommit'
  BY <1>1 DEF LoanInv, LendersApart, MadeAtCommit, TypeOK, ReqType
<1>7. EndedOnce'
  BY <1>1 DEF LoanInv, EndedOnce, Ending
<1>8. ClaimedOnce'
  BY <1>1, <1>4 DEF LoanInv, ClaimedOnce, Claim, Out, TypeOK, ReqType
<1>9. DeletedWhole' /\ LoansHaveCopy'
  <2>1. \A k \in Loan : k # l => of'[k] = of[k]
    BY <1>1 DEF LoanInv, TypeOK, ReqType
  <2>2. \A t \in Tx : doomed[t] # {} => t \in Request /\ t # r /\ req'[t] = req[t]
    BY <1>1 DEF LoanInv, DeletedWhole, QueuesOK, TypeOK, ReqType
  <2> QED
    BY <1>1, <1>4, <2>1, <2>2 DEF LoanInv, DeletedWhole, LoansHaveCopy
<1> QED
  BY <1>2, <1>3, <1>5, <1>6, <1>7, <1>8, <1>9 DEF LoanInv

LEMMA ReturnHolds ==
  ASSUME LoanInv, NEW r \in Request, NEW b \in Book, NEW l \in Loan, Return(r, b, l)
  PROVE  LoanInv'
<1> USE DEF Return, Ask
<1>1. /\ req' = [req EXCEPT ![r] = [pc |-> "write", kind |-> "return",
                                    todo |-> <<b>>, loan |-> l]]
      /\ UNCHANGED <<present, row, reminded, of, due, pend, doomed, job, sent,
                     faulty, crashes>>
      /\ req[r].pc = "idle" /\ row[l] = "out"
  BY DEF tables, facts, txs, ghosts, Out
<1>2. TypeOK'
  BY <1>1 DEF LoanInv, TypeOK, ReqType
<1>3. QueuesOK'
  BY <1>1 DEF LoanInv, QueuesOK, TypeOK, ReqType
<1>4. InsertsOwn' /\ LendersApart' /\ MadeAtCommit'
  BY <1>1 DEF LoanInv, InsertsOwn, LendersApart, MadeAtCommit, TypeOK, ReqType
<1>5. EndedOnce' /\ ClaimedOnce' /\ LoansHaveCopy'
  BY <1>1 DEF LoanInv, EndedOnce, Ending, ClaimedOnce, Claim, Out, LoansHaveCopy
<1>6. \A t \in Tx : doomed[t] # {} => t \in Request /\ t # r /\ req'[t] = req[t]
  BY <1>1 DEF LoanInv, DeletedWhole, QueuesOK, TypeOK, ReqType
<1>7. DeletedWhole'
  BY <1>1, <1>6 DEF LoanInv, DeletedWhole
<1> QED
  BY <1>2, <1>3, <1>4, <1>5, <1>7 DEF LoanInv

LEMMA DeleteHolds ==
  ASSUME LoanInv, NEW r \in Request, NEW S \in (SUBSET Book) \ {{}},
         NEW todo \in Orders(S), Delete(r, todo)
  PROVE  LoanInv'
<1> USE DEF Delete, Ask
<1>1. /\ req' = [req EXCEPT ![r] = [pc |-> "write", kind |-> "delete",
                                    todo |-> todo, loan |-> NoLoan]]
      /\ UNCHANGED <<present, row, reminded, of, due, pend, doomed, job, sent,
                     faulty, crashes>>
      /\ req[r].pc = "idle"
  BY DEF tables, facts, txs, ghosts
<1>2. todo \in Seq(Book) /\ todo # <<>>
  <2>1. IsFiniteSet(S)
    BY FinitelyMany, FS_Subset
  <2>2. todo \in Seq(S) /\ todo # <<>>
    BY <2>1, OrdersAreSequences
  <2> QED
    BY <2>2
<1>3. TypeOK'
  BY <1>1, <1>2 DEF LoanInv, TypeOK, ReqType
<1>4. QueuesOK'
  BY <1>1, <1>2 DEF LoanInv, QueuesOK, TypeOK, ReqType
<1>5. InsertsOwn' /\ LendersApart' /\ MadeAtCommit'
  BY <1>1 DEF LoanInv, InsertsOwn, LendersApart, MadeAtCommit, TypeOK, ReqType
<1>6. EndedOnce' /\ ClaimedOnce' /\ LoansHaveCopy'
  BY <1>1 DEF LoanInv, EndedOnce, Ending, ClaimedOnce, Claim, Out, LoansHaveCopy
<1>7. DeletedWhole'
  BY <1>1 DEF LoanInv, DeletedWhole, TypeOK, ReqType
<1> QED
  BY <1>3, <1>4, <1>5, <1>6, <1>7 DEF LoanInv

\* The INSERT waited for whoever was lending or deleting the copy, and the
\* index refused it if the copy is out.
LEMMA InsertLoanHolds ==
  ASSUME LoanInv, NEW r \in Request, InsertLoan(r)
  PROVE  LoanInv'
<1> DEFINE l == req[r].loan
           b == of[l]
<1>1. /\ req[r].pc = "write" /\ req[r].kind = "lend" /\ ~Blocked(r)
      /\ b \in present /\ ~IndexRefuses(b)
      /\ pend' = [pend EXCEPT ![r][l] = "insert"]
      /\ req' = [req EXCEPT ![r].pc = "commit"]
      /\ UNCHANGED <<present, row, reminded, of, due, doomed, job, sent, faulty, crashes>>
  BY DEF InsertLoan, Referable, Go, tables, facts, ghosts
<1>2. l \in Loan /\ row[l] = "none" /\ r \in Tx
  BY <1>1 DEF LoanInv, MadeAtCommit, Tx
<1>3. \A t \in Tx, k \in Loan :
        pend'[t][k] = IF t = r /\ k = l THEN "insert" ELSE pend[t][k]
  BY <1>1, <1>2 DEF LoanInv, TypeOK
<1>4. \A t \in Tx : b \notin doomed[t]
  BY <1>1, <1>2 DEF Blocked, BlockedBy, LoanInv, DeletedWhole
<1>5. \A k \in Loan : of[k] = b => ~Claim(k)
  <2> SUFFICES ASSUME NEW k \in Loan, of[k] = b, Claim(k) PROVE FALSE
    OBVIOUS
  <2>1. PICK t \in Tx : pend[t][k] = "insert"
    BY <1>1 DEF Claim, Out, IndexRefuses
  <2>2. t # r
    BY <1>1, <2>1 DEF LoanInv, InsertsOwn
  <2>3. BlockedBy(r, t)
    BY <1>1, <2>1, <2>2 DEF BlockedBy, Lends
  <2> QED
    BY <1>1, <2>3 DEF Blocked
<1>6. \A s \in Request :
        /\ req'[s].kind = req[s].kind /\ req'[s].loan = req[s].loan
        /\ req'[s].todo = req[s].todo
        /\ req'[s].pc = IF s = r THEN "commit" ELSE req[s].pc
  BY <1>1, GoStep
<1>7. TypeOK'
  <2>1. pend' \in [Tx -> [Loan -> Pending]]
    BY <1>1 DEF LoanInv, TypeOK, Pending
  <2>2. req' \in [Request -> ReqType]
    BY <1>1, GoStep
  <2> QED
    BY <1>1, <2>1, <2>2 DEF LoanInv, TypeOK
<1>8. QueuesOK'
  BY <1>1, <1>6 DEF LoanInv, QueuesOK
<1>9. InsertsOwn' /\ LendersApart' /\ MadeAtCommit'
  BY <1>1, <1>3, <1>6 DEF LoanInv, InsertsOwn, LendersApart, MadeAtCommit
<1>10. EndedOnce'
  BY <1>1, <1>3 DEF LoanInv, EndedOnce, Ending
<1>11. ClaimedOnce'
  <2>1. \A k \in Loan : Claim(k)' => Claim(k) \/ k = l
    BY <1>1, <1>3 DEF Claim, Out
  <2> QED
    BY <1>1, <1>5, <2>1 DEF LoanInv, ClaimedOnce
<1>12. DeletedWhole'
  BY <1>1, <1>2, <1>3, <1>4, <1>6 DEF LoanInv, DeletedWhole
<1>13. LoansHaveCopy'
  BY <1>1 DEF LoanInv, LoansHaveCopy
<1> QED
  BY <1>7, <1>8, <1>9, <1>10, <1>11, <1>12, <1>13 DEF LoanInv

LEMMA SetReturnedHolds ==
  ASSUME LoanInv, NEW r \in Request, SetReturned(r)
  PROVE  LoanInv'
<1> DEFINE l == req[r].loan
<1>1. /\ req[r].pc = "write" /\ req[r].kind = "return" /\ ~Blocked(r)
      /\ row[l] # "gone"
      /\ pend' = [pend EXCEPT ![r][l] = "return"]
      /\ req' = [req EXCEPT ![r].pc = "commit"]
      /\ UNCHANGED <<present, row, reminded, of, due, doomed, job, sent, faulty, crashes>>
  BY DEF SetReturned, Go, tables, facts, ghosts
<1>2. l \in Loan /\ r \in Tx /\ row[l] \in {"out", "back"}
  BY <1>1 DEF LoanInv, MadeAtCommit, Tx, TypeOK, RowState
<1>3. \A t \in Tx, k \in Loan :
        pend'[t][k] = IF t = r /\ k = l THEN "return" ELSE pend[t][k]
  BY <1>1, <1>2 DEF LoanInv, TypeOK
<1>4. \A t \in Tx : t # r => pend[t][l] = "nothing"
  BY <1>1, <1>2 DEF Blocked, BlockedBy, Holds
<1>5. \A s \in Request :
        /\ req'[s].kind = req[s].kind /\ req'[s].loan = req[s].loan
        /\ req'[s].todo = req[s].todo
        /\ req'[s].pc = IF s = r THEN "commit" ELSE req[s].pc
  BY <1>1, GoStep
<1>6. TypeOK'
  <2>1. pend' \in [Tx -> [Loan -> Pending]]
    BY <1>1 DEF LoanInv, TypeOK, Pending
  <2>2. req' \in [Request -> ReqType]
    BY <1>1, GoStep
  <2> QED
    BY <1>1, <2>1, <2>2 DEF LoanInv, TypeOK
<1>7. QueuesOK'
  BY <1>1, <1>5 DEF LoanInv, QueuesOK
<1>8. InsertsOwn' /\ LendersApart' /\ MadeAtCommit'
  BY <1>1, <1>3, <1>5 DEF LoanInv, InsertsOwn, LendersApart, MadeAtCommit
<1>9. EndedOnce'
  BY <1>1, <1>2, <1>3, <1>4 DEF LoanInv, EndedOnce, Ending
<1>10. ClaimedOnce'
  <2>1. \A k \in Loan : Claim(k)' => Claim(k)
    BY <1>1, <1>3 DEF Claim, Out
  <2> QED
    BY <1>1, <2>1 DEF LoanInv, ClaimedOnce
<1>11. DeletedWhole'
  BY <1>1, <1>2, <1>3, <1>5 DEF LoanInv, DeletedWhole
<1>12. LoansHaveCopy'
  BY <1>1 DEF LoanInv, LoansHaveCopy
<1> QED
  BY <1>6, <1>7, <1>8, <1>9, <1>10, <1>11, <1>12 DEF LoanInv

\* The DELETE waited for whoever writes to a loan of the copy, or has deleted
\* the copy; so it takes all the loans of the copy, and nobody makes another.
LEMMA DeleteCopyHolds ==
  ASSUME LoanInv, NEW r \in Request, DeleteCopy(r)
  PROVE  LoanInv'
<1> DEFINE b == Head(req[r].todo)
           todo == Tail(req[r].todo)
           pc == IF todo = <<>> THEN "commit" ELSE "write"
<1>1. /\ req[r].pc = "write" /\ req[r].kind = "delete" /\ ~Blocked(r)
      /\ doomed' = [doomed EXCEPT ![r] = @ \cup ({b} \cap present)]
      /\ pend' = [pend EXCEPT ![r] =
                    [l \in Loan |-> IF l \in Cascade(b) THEN "delete" ELSE @[l]]]
      /\ req' = [req EXCEPT ![r].todo = todo, ![r].pc = pc]
      /\ UNCHANGED <<present, row, reminded, of, due, job, sent, faulty, crashes>>
  BY DEF DeleteCopy, tables, facts, ghosts
<1>2. r \in Tx /\ req \in [Request -> ReqType] /\ req[r].todo \in Seq(Book) /\ req[r].todo # <<>>
  BY <1>1 DEF LoanInv, TypeOK, ReqType, QueuesOK, Tx
<1>3. /\ b \in Book /\ todo \in Seq(Book)
      /\ pc \in {"write", "commit"} /\ (pc = "write" => todo # <<>>)
  BY <1>2
<1>4. \A s \in Request :
        /\ req'[s].kind = req[s].kind /\ req'[s].loan = req[s].loan
        /\ s # r => req'[s] = req[s]
        /\ s = r => req'[s].pc = pc /\ req'[s].todo = todo
  BY <1>1, <1>2 DEF ReqType
<1>5. /\ \A t \in Tx, k \in Loan :
           pend'[t][k] = IF t = r /\ k \in Cascade(b) THEN "delete" ELSE pend[t][k]
      /\ \A t \in Tx : doomed'[t] = IF t = r THEN doomed[t] \cup ({b} \cap present)
                                             ELSE doomed[t]
  BY <1>1, <1>2 DEF LoanInv, TypeOK
<1>6. \A s \in Tx, k \in Loan : of[k] = b /\ s # r => pend[s][k] = "nothing"
  BY <1>1 DEF Blocked, BlockedBy, Holds
<1>t. req' \in [Request -> ReqType]
  <2> HIDE DEF b, todo, pc
  <2>1. \A e \in ReqType : [e EXCEPT !.todo = todo, !.pc = pc] \in ReqType
    BY <1>3 DEF ReqType
  <2>2. req' = [req EXCEPT ![r] = [@ EXCEPT !.todo = todo, !.pc = pc]]
    BY <1>1, <1>2
  <2> QED
    BY <1>2, <2>1, <2>2
<1> HIDE DEF b, todo, pc
<1>7. TypeOK'
  <2>1. \A t \in Tx : pend'[t] \in [Loan -> Pending]
    <3>1. pend \in [Tx -> [Loan -> Pending]]
      BY DEF LoanInv, TypeOK
    <3> QED
      BY <1>1, <3>1 DEF Pending
  <2>2. pend' \in [Tx -> [Loan -> Pending]] /\ doomed' \in [Tx -> SUBSET Book]
    BY <1>1, <1>3, <2>1 DEF LoanInv, TypeOK
  <2> QED
    BY <1>1, <1>t, <2>2 DEF LoanInv, TypeOK
<1>8. QueuesOK'
  <2>1. \A s \in Request : /\ req'[s].pc = "write" => req'[s].todo # <<>>
                           /\ req'[s].pc = "idle" => req'[s].kind = "none"
    BY <1>3, <1>4 DEF LoanInv, QueuesOK
  <2> QED
    BY <1>1, <2>1 DEF LoanInv, QueuesOK
<1>9. InsertsOwn' /\ LendersApart' /\ MadeAtCommit'
  <2>1. \A t \in Tx, k \in Loan : pend'[t][k] = "insert" => pend[t][k] = "insert" /\ t # r
    BY <1>1, <1>5 DEF LoanInv, InsertsOwn
  <2>2. InsertsOwn'
    BY <1>4, <2>1 DEF LoanInv, InsertsOwn
  <2>3. LendersApart'
    BY <1>4 DEF LoanInv, LendersApart
  <2>4. MadeAtCommit'
    <3>1. ASSUME NEW s \in Request
          PROVE  /\ req'[s].kind = req[s].kind /\ req'[s].loan = req[s].loan
                 /\ req[s].kind = "lend" => req'[s].pc = req[s].pc
      <4>1. req[s].kind = "lend" => s # r
        BY <1>1
      <4> QED
        BY <1>4, <4>1
    <3> QED
      BY <1>1, <3>1 DEF LoanInv, MadeAtCommit
  <2> QED
    BY <2>2, <2>3, <2>4
<1>10. EndedOnce'
  BY <1>1, <1>5, <1>6 DEF LoanInv, EndedOnce, Ending, Cascade
<1>11. ClaimedOnce'
  <2>1. \A k \in Loan : Claim(k)' => Claim(k)
    BY <1>1, <1>5 DEF Claim, Out
  <2> QED
    BY <1>1, <2>1 DEF LoanInv, ClaimedOnce
<1>12. DeletedWhole'
  <2>1. \A t \in Tx : doomed'[t] # {} => t \in Request /\ req'[t].kind = "delete"
    <3>1. \A t \in Tx : doomed'[t] # {} => t = r \/ doomed[t] # {}
      BY <1>5
    <3>2. \A t \in Tx : doomed[t] # {} => t \in Request /\ req[t].kind = "delete"
      BY DEF LoanInv, DeletedWhole
    <3> QED
      BY <1>1, <1>2, <1>4, <3>1, <3>2
  <2>2. ASSUME NEW t \in Tx, NEW k \in Loan, of[k] \in doomed'[t], row[k] \in {"out", "back"}
        PROVE  pend'[t][k] = "delete"
    <3>1. CASE of[k] \in doomed[t]
      BY <1>5, <2>2, <3>1 DEF LoanInv, DeletedWhole
    <3>2. CASE of[k] \notin doomed[t]
      BY <1>5, <2>2, <3>2 DEF Cascade
    <3> QED
      BY <3>1, <3>2
  <2>3. ASSUME NEW s \in Tx, NEW t \in Tx, NEW k \in Loan, pend'[t][k] = "insert"
        PROVE  of[k] \in present /\ of[k] \notin doomed'[s]
    <3>1. pend[t][k] = "insert" /\ t # r
      BY <1>1, <1>5, <2>3 DEF LoanInv, InsertsOwn
    <3>2. of[k] # b
      BY <1>6, <3>1
    <3> QED
      <4>1. of[k] \in present /\ of[k] \notin doomed[s]
        BY <3>1 DEF LoanInv, DeletedWhole
      <4> QED
        BY <1>5, <3>2, <4>1
  <2> QED
    BY <1>1, <2>1, <2>2, <2>3 DEF DeletedWhole
<1>13. LoansHaveCopy'
  BY <1>1 DEF LoanInv, LoansHaveCopy
<1> QED
  BY <1>7, <1>8, <1>9, <1>10, <1>11, <1>12, <1>13 DEF LoanInv

\* The types of what the end of a transaction writes.
LEMMA EndTypes ==
  ASSUME LoanInv, NEW t \in Tx, Keep(t) \/ Rollback(t)
  PROVE  /\ present' \subseteq Book /\ row' \in [Loan -> RowState]
         /\ reminded' \subseteq Loan
         /\ pend' \in [Tx -> [Loan -> Pending]] /\ doomed' \in [Tx -> SUBSET Book]
<1>1. pend' \in [Tx -> [Loan -> Pending]] /\ doomed' \in [Tx -> SUBSET Book]
  <2>1. NoWrites \in [Loan -> Pending]
    BY DEF NoWrites, Pending
  <2> QED
    BY <2>1 DEF LoanInv, TypeOK, Keep, Rollback, Release
<1>2. CASE Keep(t)
  <2>1. \A l \in Loan : Written(pend[t][l], row[l]) \in RowState
    BY DEF LoanInv, TypeOK, Written, RowState
  <2> QED
    BY <1>1, <1>2, <2>1 DEF LoanInv, TypeOK, Keep
<1>3. CASE Rollback(t)
  BY <1>1, <1>3 DEF LoanInv, TypeOK, Rollback, tables
<1> QED
  BY <1>2, <1>3

LEMMA CommitHolds ==
  ASSUME LoanInv, NEW r \in Request, Commit(r)
  PROVE  LoanInv'
<1>1. /\ req[r].pc = "commit" /\ Keep(r) /\ req' = [req EXCEPT ![r].pc = "done"]
      /\ UNCHANGED <<of, due, job, sent, faulty, crashes>>
  BY DEF Commit, Go, facts, ghosts
<1>2. r \in Tx
  BY DEF Tx
<1>3. Ends(r) /\ req' \in [Request -> ReqType] /\ QueuesOK'
  <2>1. /\ req' \in [Request -> ReqType]
        /\ \A s \in Request :
             /\ req'[s].kind = req[s].kind /\ req'[s].loan = req[s].loan
             /\ req'[s].todo = req[s].todo
             /\ req'[s].pc = IF s = r THEN "done" ELSE req[s].pc
    BY <1>1, GoStep
  <2>2. Ends(r)
    BY <2>1 DEF Ends
  <2>3. QueuesOK'
    BY <1>1, <2>1 DEF LoanInv, QueuesOK
  <2> QED
    BY <2>1, <2>2, <2>3
<1>4. TypeOK'
  BY <1>1, <1>2, <1>3, EndTypes DEF LoanInv, TypeOK
<1> QED
  BY <1>1, <1>2, <1>3, <1>4, KeepStep

LEMMA FailHolds ==
  ASSUME LoanInv, NEW r \in Request, Fail(r)
  PROVE  LoanInv'
<1>1. /\ Rollback(r) /\ req' = [req EXCEPT ![r].pc = "failed"]
      /\ UNCHANGED <<of, due, job, sent, faulty, crashes>>
  BY DEF Fail, Go, facts, ghosts
<1>2. r \in Tx
  BY DEF Tx
<1>3. Ends(r) /\ req' \in [Request -> ReqType] /\ QueuesOK'
  <2>1. /\ req' \in [Request -> ReqType]
        /\ \A s \in Request :
             /\ req'[s].kind = req[s].kind /\ req'[s].loan = req[s].loan
             /\ req'[s].todo = req[s].todo
             /\ req'[s].pc = IF s = r THEN "failed" ELSE req[s].pc
    BY <1>1, GoStep
  <2>2. Ends(r)
    BY <2>1 DEF Ends
  <2>3. QueuesOK'
    BY <1>1, <2>1 DEF LoanInv, QueuesOK
  <2> QED
    BY <2>1, <2>2, <2>3
<1>4. TypeOK'
  BY <1>1, <1>2, <1>3, EndTypes DEF LoanInv, TypeOK
<1> QED
  BY <1>1, <1>2, <1>3, <1>4, RollbackStep

----------------------------------------------------------------------------
(* The reminder job *)

\* What a step makes of a run.
LEMMA JobStep ==
  ASSUME LoanInv, NEW w \in Worker, NEW j \in JobType,
         job' = [job EXCEPT ![w] = j], req' = req,
         j.pc \in {"look", "mark"} => j.queue # <<>>
  PROVE  job' \in [Worker -> JobType] /\ QueuesOK'
BY DEF LoanInv, TypeOK, QueuesOK

LEMMA SkipTypes ==
  ASSUME LoanInv, NEW w \in Worker, job[w].queue # <<>>
  PROVE  /\ Current(w) \in Loan
         /\ Skip(w) \in JobType /\ Skip(w).pc = "next"
         /\ [Skip(w) EXCEPT !.poisoned = TRUE] \in JobType
         /\ [Skip(w) EXCEPT !.marked = @ \cup {Current(w)}] \in JobType
<1>1. job[w] \in JobType
  BY DEF LoanInv, TypeOK
<1>2. job[w].queue \in Seq(Loan)
  BY <1>1 DEF JobType
<1>3. Current(w) \in Loan /\ Tail(job[w].queue) \in Seq(Loan)
  BY <1>2 DEF Current
<1> QED
  BY <1>1, <1>3 DEF Skip, JobType

LEMMA AtTypes ==
  ASSUME LoanInv, NEW w \in Worker, NEW p \in {"look", "mark"}, At(w, p), req' = req,
         job[w].queue # <<>>
  PROVE  job' \in [Worker -> JobType] /\ QueuesOK'
<1>1. job \in [Worker -> JobType]
  BY DEF LoanInv, TypeOK
<1> QED
  BY <1>1 DEF At, JobType, LoanInv, QueuesOK

LEMMA CappedIsNat == ASSUME NEW w \in Worker, NEW n \in Nat PROVE Capped(w, n) \in Nat
BY DEF Capped

LEMMA StartRunHolds ==
  ASSUME LoanInv, NEW w \in Worker, StartRun(w)
  PROVE  LoanInv'
<1>1. PICK o \in Orders(DueForReminder) :
        job' = [job EXCEPT ![w] = [Resting EXCEPT !.pc = "next", !.queue = o]]
  BY DEF StartRun
<1>2. o \in Seq(Loan)
  <2>1. IsFiniteSet(DueForReminder) /\ DueForReminder \subseteq Loan
    BY FinitelyMany, FS_Subset DEF DueForReminder
  <2>2. o \in Seq(DueForReminder)
    BY <2>1, OrdersAreSequences
  <2> QED
    BY <2>1, <2>2
<1>3. [Resting EXCEPT !.pc = "next", !.queue = o] \in JobType
  BY <1>2 DEF Resting, JobType
<1>4. [Resting EXCEPT !.pc = "next", !.queue = o].pc = "next"
  BY DEF Resting
<1>5. UNCHANGED <<present, row, reminded, of, due, pend, doomed, req, sent, faulty, crashes>>
  BY DEF StartRun, tables, facts, txs, ghosts
<1>6. job' \in [Worker -> JobType] /\ QueuesOK'
  BY <1>1, <1>3, <1>4, <1>5, JobStep
<1>7. TypeOK'
  BY <1>5, <1>6 DEF LoanInv, TypeOK
<1> QED
  BY <1>5, <1>6, <1>7, QuietStep

LEMMA SkipLoanHolds ==
  ASSUME LoanInv, NEW w \in Worker, SkipLoan(w)
  PROVE  LoanInv'
<1>1. /\ job[w].queue # <<>> /\ job' = [job EXCEPT ![w] = Skip(w)]
      /\ UNCHANGED <<present, row, reminded, of, due, pend, doomed, req, sent, faulty, crashes>>
  BY DEF SkipLoan, AtLoan, tables, facts, txs, ghosts
<1>2. job' \in [Worker -> JobType] /\ QueuesOK'
  BY <1>1, SkipTypes, JobStep
<1>3. TypeOK'
  BY <1>1, <1>2 DEF LoanInv, TypeOK
<1> QED
  BY <1>1, <1>2, <1>3, QuietStep

LEMMA NotifyHolds ==
  ASSUME LoanInv, NEW w \in Worker, Notify(w) \/ NotifyFails(w)
  PROVE  LoanInv'
<1>1. /\ job[w].queue # <<>>
      /\ sent' = [sent EXCEPT ![w][Current(w)] = Capped(w, @)] \/ sent' = sent
      /\ faulty' \in {faulty, faulty \cup {w}}
      /\ At(w, "look") \/ job' = [job EXCEPT ![w] = Skip(w)]
      /\ UNCHANGED <<present, row, reminded, of, due, pend, doomed, req, crashes>>
  BY DEF Notify, NotifyFails, AtLoan, tables, facts, txs
<1>2. job' \in [Worker -> JobType] /\ QueuesOK'
  BY <1>1, SkipTypes, JobStep, AtTypes
<1>3. sent' \in [Worker -> [Loan -> Nat]] /\ faulty' \subseteq Worker
  <2>1. sent \in [Worker -> [Loan -> Nat]] /\ faulty \subseteq Worker /\ Current(w) \in Loan
    BY <1>1, SkipTypes DEF LoanInv, TypeOK
  <2>2. Capped(w, sent[w][Current(w)]) \in Nat
    BY <2>1, CappedIsNat
  <2>3. [sent EXCEPT ![w][Current(w)] = Capped(w, @)] \in [Worker -> [Loan -> Nat]]
    BY <2>1, <2>2
  <2>4. faulty' \subseteq Worker
    BY <1>1, <2>1
  <2> QED
    BY <1>1, <2>1, <2>3, <2>4
<1>4. TypeOK'
  BY <1>1, <1>2, <1>3 DEF LoanInv, TypeOK
<1> QED
  BY <1>1, <1>2, <1>4, QuietStep

LEMMA LookLoanHolds ==
  ASSUME LoanInv, NEW w \in Worker, LookLoan(w)
  PROVE  LoanInv'
<1>1. /\ job[w].queue # <<>>
      /\ At(w, "mark") \/ job' = [job EXCEPT ![w] = Skip(w)]
      /\ UNCHANGED <<present, row, reminded, of, due, pend, doomed, req, sent, faulty, crashes>>
  BY DEF LookLoan, LoanInv, QueuesOK, tables, facts, txs, ghosts
<1>2. job' \in [Worker -> JobType] /\ QueuesOK'
  BY <1>1, SkipTypes, JobStep, AtTypes
<1>3. TypeOK'
  BY <1>1, <1>2 DEF LoanInv, TypeOK
<1> QED
  BY <1>1, <1>2, <1>3, QuietStep

\* A reminder makes no loan and ends none.
LEMMA MarkRemindedHolds ==
  ASSUME LoanInv, NEW w \in Worker, MarkReminded(w)
  PROVE  LoanInv'
<1> DEFINE l == Current(w)
<1>1. /\ job[w].queue # <<>>
      /\ pend' = [pend EXCEPT ![w][l] = "remind"]
      /\ job' = [job EXCEPT ![w] = [Skip(w) EXCEPT !.marked = @ \cup {Current(w)}]]
      /\ UNCHANGED <<present, row, reminded, of, due, doomed, req, sent, faulty, crashes>>
  BY DEF MarkReminded, LoanInv, QueuesOK, tables, facts, ghosts
<1>2. w \in Tx /\ w \notin Request
  BY WorkersServeNoRequest DEF Tx
<1>3. \A t \in Tx, k \in Loan :
        pend'[t][k] = IF t = w /\ k = l THEN "remind" ELSE pend[t][k]
  BY <1>1, <1>2 DEF LoanInv, TypeOK
<1>4. job' \in [Worker -> JobType] /\ QueuesOK'
  <2>1. [Skip(w) EXCEPT !.marked = @ \cup {Current(w)}].pc = "next"
    BY DEF Skip
  <2> QED
    BY <1>1, <2>1, SkipTypes, JobStep
<1>5. TypeOK'
  <2>1. pend' \in [Tx -> [Loan -> Pending]]
    BY <1>1 DEF LoanInv, TypeOK, Pending
  <2> QED
    BY <1>1, <1>4, <2>1 DEF LoanInv, TypeOK
<1>6. InsertsOwn' /\ LendersApart' /\ MadeAtCommit' /\ EndedOnce'
  BY <1>1, <1>3 DEF LoanInv, InsertsOwn, LendersApart, MadeAtCommit, EndedOnce, Ending
<1>7. ClaimedOnce'
  <2>1. \A k \in Loan : Claim(k)' => Claim(k)
    BY <1>1, <1>3 DEF Claim, Out
  <2> QED
    BY <1>1, <2>1 DEF LoanInv, ClaimedOnce
<1>8. DeletedWhole' /\ LoansHaveCopy'
  BY <1>1, <1>2, <1>3 DEF LoanInv, DeletedWhole, LoansHaveCopy
<1> QED
  BY <1>4, <1>5, <1>6, <1>7, <1>8 DEF LoanInv

\* No request ends when a run does.
LEMMA RunEnds ==
  ASSUME NEW w \in Worker, req' = req
  PROVE  w \in Tx /\ Ends(w)
BY WorkersServeNoRequest DEF Tx, Ends

LEMMA RestingIsRun == Resting \in JobType /\ Resting.pc = "idle"
BY DEF Resting, JobType

LEMMA EndRunHolds ==
  ASSUME LoanInv, NEW w \in Worker, EndRun(w)
  PROVE  LoanInv'
<1>1. /\ Keep(w) /\ job' = [job EXCEPT ![w] = Resting]
      /\ UNCHANGED <<of, due, req, sent, faulty, crashes>>
  BY DEF EndRun, facts, ghosts
<1>2. job' \in [Worker -> JobType] /\ QueuesOK'
  BY <1>1, RestingIsRun, JobStep
<1>3. w \in Tx /\ Ends(w)
  BY <1>1, RunEnds
<1>4. TypeOK'
  BY <1>1, <1>2, <1>3, EndTypes DEF LoanInv, TypeOK
<1> QED
  BY <1>1, <1>2, <1>3, <1>4, KeepStep

LEMMA RunFailsHolds ==
  ASSUME LoanInv, NEW w \in Worker, FlushFails(w) \/ Crash(w)
  PROVE  LoanInv'
<1>1. /\ Rollback(w) /\ faulty' = faulty \cup {w}
      /\ UNCHANGED <<of, due, req, sent>>
  BY DEF FlushFails, Crash, facts
<1>2. job' \in [Worker -> JobType] /\ QueuesOK'
  <2>1. CASE FlushFails(w)
    <3>1. job[w].queue # <<>>
      BY <2>1 DEF FlushFails, LoanInv, QueuesOK
    <3>2. [Skip(w) EXCEPT !.poisoned = TRUE].pc = "next"
      BY DEF Skip
    <3> QED
      BY <1>1, <2>1, <3>1, <3>2, SkipTypes, JobStep DEF FlushFails
  <2>2. CASE Crash(w)
    BY <1>1, <2>2, RestingIsRun, JobStep DEF Crash
  <2> QED
    BY <2>1, <2>2
<1>3. crashes' \in 0 .. MaxCrashes
  BY CrashBound DEF LoanInv, TypeOK, FlushFails, Crash
<1>4. w \in Tx /\ Ends(w)
  BY <1>1, RunEnds
<1>5. TypeOK'
  BY <1>1, <1>2, <1>3, <1>4, EndTypes DEF LoanInv, TypeOK
<1> QED
  BY <1>1, <1>2, <1>4, <1>5, RollbackStep

LEMMA FallsDueHolds ==
  ASSUME LoanInv, NEW l \in Loan, FallsDue(l)
  PROVE  LoanInv'
<1>1. /\ due' = [due EXCEPT ![l] = "soon"]
      /\ UNCHANGED <<present, row, reminded, of, pend, doomed, req, job, sent, faulty, crashes>>
  BY DEF FallsDue, tables, txs, ghosts
<1>2. TypeOK' /\ QueuesOK'
  BY <1>1 DEF LoanInv, TypeOK, QueuesOK, DueDate
<1> QED
  BY <1>1, <1>2, QuietStep

----------------------------------------------------------------------------
(* The theorems *)

LEMMA StepHolds == LoanInv /\ [Next]_vars => LoanInv'
<1> SUFFICES ASSUME LoanInv, [Next]_vars PROVE LoanInv'
  OBVIOUS
<1>1. ASSUME NEW r \in Request, NEW b \in Book, NEW l \in Loan, NEW d \in DueDate,
             Lend(r, b, l, d)
      PROVE  LoanInv'
  BY <1>1, LendHolds
<1>2. ASSUME NEW r \in Request, NEW b \in Book, NEW l \in Loan, Return(r, b, l)
      PROVE  LoanInv'
  BY <1>2, ReturnHolds
<1>3. ASSUME NEW r \in Request, NEW S \in (SUBSET Book) \ {{}},
             NEW todo \in Orders(S), Delete(r, todo)
      PROVE  LoanInv'
  BY <1>3, DeleteHolds
<1>4. ASSUME NEW r \in Request, Proceed(r) \/ Abort(r)
      PROVE  LoanInv'
  <2>1. CASE InsertLoan(r) \/ SetReturned(r) \/ DeleteCopy(r)
    BY <2>1, InsertLoanHolds, SetReturnedHolds, DeleteCopyHolds
  <2>2. CASE Commit(r)
    BY <2>2, CommitHolds
  <2>3. CASE Refuse(r) \/ RequestVictim(r) \/ Abort(r)
    BY <2>3, FailHolds DEF Refuse, RequestVictim, Abort
  <2> QED
    BY <1>4, <2>1, <2>2, <2>3 DEF Proceed
<1>5. ASSUME NEW w \in Worker, Run(w) \/ Notify(w) \/ NotifyFails(w) \/ Crash(w)
      PROVE  LoanInv'
  <2>1. CASE StartRun(w) \/ SkipLoan(w) \/ LookLoan(w) \/ Notify(w) \/ NotifyFails(w)
    BY <2>1, StartRunHolds, SkipLoanHolds, LookLoanHolds, NotifyHolds
  <2>2. CASE MarkReminded(w) \/ EndRun(w)
    BY <2>2, MarkRemindedHolds, EndRunHolds
  <2>3. CASE FlushFails(w) \/ Crash(w)
    BY <2>3, RunFailsHolds
  <2> QED
    BY <1>5, <2>1, <2>2, <2>3 DEF Run
<1>6. ASSUME NEW l \in Loan, FallsDue(l)
      PROVE  LoanInv'
  BY <1>6, FallsDueHolds
<1>7. CASE UNCHANGED vars
  <2>1. UNCHANGED <<present, row, reminded, of, due, pend, doomed, req, job, sent,
                    faulty, crashes>>
    BY <1>7 DEF vars, tables, facts, txs, ghosts
  <2>2. TypeOK' /\ QueuesOK'
    BY <2>1 DEF LoanInv, TypeOK, QueuesOK
  <2> QED
    BY <2>1, <2>2, QuietStep
<1> QED
  BY <1>1, <1>2, <1>3, <1>4, <1>5, <1>6, <1>7 DEF Next

(* The invariant of requests and runs that overlap in every way, with any  *)
(* failures and crashes: who holds which claim on which loan.              *)
THEOREM LoanInvHolds == Spec => []LoanInv
<1>1. LoanInv /\ [Next]_vars => LoanInv'
  BY StepHolds
<1> QED
  BY <1>1, InitHolds, PTL DEF Spec

(* Every variable keeps its type: a run's queue holds loans, a request that *)
(* writes writes to a row there is.                                        *)
THEOREM LoanTypesHold == Spec => []TypeOK
<1>1. LoanInv => TypeOK
  BY DEF LoanInv
<1> QED
  BY <1>1, LoanInvHolds, PTL

(* However many requests race to lend it, a copy is out on one loan at a   *)
(* time. (LendBookUseCase and the index of migration 0023)                 *)
THEOREM CopyIsOutOnce == Spec => []OneActiveLoan
<1>1. LoanInv => OneActiveLoan
  BY DEF LoanInv, ClaimedOnce, Claim, OneActiveLoan
<1> QED
  BY <1>1, LoanInvHolds, PTL

(* No loan outlives its copy, although it may be made or returned while    *)
(* the copy is being deleted. (the foreign key of book_loans)              *)
THEOREM NoLoanWithoutCopy == Spec => []LoansHaveCopy
<1>1. LoanInv => LoansHaveCopy
  BY DEF LoanInv
<1> QED
  BY <1>1, LoanInvHolds, PTL

----------------------------------------------------------------------------
(* What ends a loan, or reminds of it, is not undone *)

\* The tables change at a commit, and at no other step.
Moved == UNCHANGED <<row, reminded>> \/ \E t \in Tx : Keep(t)

LEMMA TablesMove == ASSUME Next PROVE Moved
<1>1. ASSUME NEW r \in Request, NEW b \in Book, NEW l \in Loan, NEW d \in DueDate,
             Lend(r, b, l, d)
      PROVE  Moved
  BY <1>1 DEF Lend, tables, Moved
<1>2. ASSUME NEW r \in Request, NEW b \in Book, NEW l \in Loan, Return(r, b, l)
      PROVE  Moved
  BY <1>2 DEF Return, tables, Moved
<1>3. ASSUME NEW r \in Request, NEW S \in (SUBSET Book) \ {{}},
             NEW todo \in Orders(S), Delete(r, todo)
      PROVE  Moved
  BY <1>3 DEF Delete, tables, Moved
<1>4. ASSUME NEW r \in Request, Proceed(r) \/ Abort(r)
      PROVE  Moved
  <2>1. UNCHANGED tables \/ Keep(r)
    BY <1>4 DEF Proceed, Abort, InsertLoan, SetReturned, DeleteCopy, Commit, Refuse,
                RequestVictim, Fail, Rollback
  <2> QED
    BY <2>1 DEF tables, Tx, Moved
<1>5. ASSUME NEW w \in Worker, Run(w) \/ Notify(w) \/ NotifyFails(w) \/ Crash(w)
      PROVE  Moved
  <2>1. UNCHANGED tables \/ Keep(w)
    BY <1>5 DEF Run, StartRun, SkipLoan, LookLoan, MarkReminded, FlushFails, EndRun,
                Notify, NotifyFails, Crash, Rollback
  <2> QED
    BY <2>1 DEF tables, Tx, Moved
<1>6. ASSUME NEW l \in Loan, FallsDue(l)
      PROVE  Moved
  BY <1>6 DEF FallsDue, tables, Moved
<1> QED
  BY <1>1, <1>2, <1>3, <1>4, <1>5, <1>6 DEF Next

\* Nobody has an INSERT or an UPDATE left for a loan that is gone, nor an
\* INSERT for one that was returned.
LEMMA SettledStep ==
  ASSUME LoanInv, [Next]_vars
  PROVE  /\ \A l \in Loan : /\ row[l] = "back" => row'[l] \in {"back", "gone"}
                            /\ row[l] = "gone" => row'[l] = "gone"
         /\ reminded \subseteq reminded'
<1>1. ASSUME NEW t \in Tx, Keep(t), NEW l \in Loan
      PROVE  /\ row[l] = "back" => row'[l] \in {"back", "gone"}
             /\ row[l] = "gone" => row'[l] = "gone"
  <2>1. row'[l] = Written(pend[t][l], row[l])
    BY <1>1 DEF Keep
  <2>2. pend[t][l] = "insert" => row[l] = "none"
    BY DEF LoanInv, InsertsOwn, MadeAtCommit
  <2>3. Ending(t, l) => row[l] \in {"out", "back"}
    BY DEF LoanInv, EndedOnce
  <2> QED
    BY <2>1, <2>2, <2>3 DEF Written, Ending
<1>2. ASSUME NEW t \in Tx, Keep(t)
      PROVE  reminded \subseteq reminded'
  BY <1>2 DEF Keep
<1>3. CASE UNCHANGED <<row, reminded>>
  BY <1>3
<1>4. CASE UNCHANGED vars
  BY <1>4 DEF vars, tables
<1> QED
  BY <1>1, <1>2, <1>3, <1>4, TablesMove DEF Moved

(* A returned loan stays returned, one that is gone stays gone, and a       *)
(* recorded reminder stays recorded, whoever has read the row before.       *)
(* (BookLoanRepository.mark_returned, mark_reminder_sent)                   *)
THEOREM WhatIsSettledStays == Spec => SettledStaysSettled
<1>1. LoanInv /\ [Next]_vars =>
        [/\ \A l \in Loan : /\ row[l] = "back" => row'[l] \in {"back", "gone"}
                            /\ row[l] = "gone" => row'[l] = "gone"
         /\ reminded \subseteq reminded']_vars
  BY SettledStep
<1> QED
  BY <1>1, LoanInvHolds, PTL DEF Spec, SettledStaysSettled

----------------------------------------------------------------------------
(* How often a loan is notified                                            *)
(*                                                                         *)
(* OncePerWorker counts notifications, which no state remembers but their  *)
(* history. What bounds the count is who may still notify: a worker that   *)
(* has, or that finds the loan settled, will not again. As long as none of *)
(* its runs fails a worker leaves those who may at its notification and    *)
(* never returns to them: until the run commits, its uncommitted mark keeps*)
(* it out, and after that the loan is recorded as reminded, or gone, and is*)
(* not listed.                                                             *)

\* A run that has not stopped at l yet.
Ahead(w, l) ==
  \E i \in 1 .. Len(job[w].queue) :
    job[w].queue[i] = l /\ (i = 1 => job[w].pc = "next")

\* No run lists l any more.
Settled(l) == l \in reminded \/ row[l] = "gone"

\* The run has notified l and not committed.
Notified(w, l) ==
  \/ pend[w][l] = "remind"
  \/ job[w].pc \in {"look", "mark"} /\ Current(w) = l

MayNotify(w, l) == Ahead(w, l) \/ ~(Settled(l) \/ Notified(w, l))

CountedOnce ==
  \A w \in Worker \ faulty, l \in Loan :
    sent[w][l] # 0 => sent[w][l] = 1 /\ ~MayNotify(w, l)

\* A mark is written after its notification, and only then committed.
MarksWereSent ==
  /\ \A t \in Tx, l \in Loan : pend[t][l] = "remind" => t \in Worker /\ sent[t][l] > 0
  /\ \A w \in Worker : job[w].pc \in {"look", "mark"} => sent[w][Current(w)] > 0

\* A run starts with nothing written, and lists no loan twice.
RunsStartClean ==
  \A w \in Worker :
    /\ job[w].pc = "idle" =>
         job[w].queue = <<>> /\ \A l \in Loan : pend[w][l] = "nothing"
    /\ \A i, j \in 1 .. Len(job[w].queue) :
         job[w].queue[i] = job[w].queue[j] => i = j

RunInv ==
  /\ LoanInv
  /\ MarksWereSent
  /\ RemindedWasSent
  /\ RunsStartClean
  /\ CountedOnce

\* What is settled stays settled (SettledStep).
SettledGrows == \A l \in Loan : Settled(l) => Settled(l)'

\* A worker that does nothing, and whose writes nobody touches, may notify no
\* more loans than before.
LEMMA IdleWorker ==
  ASSUME SettledGrows, NEW w \in Worker, job'[w] = job[w], pend'[w] = pend[w]
  PROVE  \A l \in Loan : ~MayNotify(w, l) => ~MayNotify(w, l)'
BY DEF SettledGrows, MayNotify, Ahead, Notified, Current

\* The count stays within its bound when nothing is sent and nobody returns to
\* those who may notify.
LEMMA CountStays ==
  ASSUME CountedOnce, sent' = sent, faulty' = faulty,
         \A w \in Worker, l \in Loan : ~MayNotify(w, l) => ~MayNotify(w, l)'
  PROVE  CountedOnce'
BY DEF CountedOnce

\* A step of no worker.
LEMMA NoRunStep ==
  ASSUME RunInv, LoanInv', SettledGrows, UNCHANGED <<job, sent, faulty>>,
         \A w \in Worker : pend'[w] = pend[w],
         \A t \in Tx, l \in Loan : pend'[t][l] = "remind" => pend[t][l] = "remind",
         \A l \in reminded' : l \in reminded \/ \E t \in Tx : pend[t][l] = "remind"
  PROVE  RunInv'
<1>1. MarksWereSent' /\ RemindedWasSent'
  <2>1. MarksWereSent /\ RemindedWasSent
    BY DEF RunInv
  <2>2. MarksWereSent'
    BY <2>1 DEF MarksWereSent, Current
  <2>3. reminded' \subseteq Loan
    BY DEF LoanInv, TypeOK
  <2>4. RemindedWasSent'
    BY <2>1, <2>3 DEF MarksWereSent, RemindedWasSent
  <2> QED
    BY <2>2, <2>4
<1>2. RunsStartClean'
  BY DEF RunInv, RunsStartClean
<1>3. CountedOnce'
  BY IdleWorker, CountStays DEF RunInv
<1> QED
  BY <1>1, <1>2, <1>3 DEF RunInv

----------------------------------------------------------------------------
(* The steps of a run *)

LEMMA TailFacts ==
  ASSUME NEW q \in Seq(Loan), q # <<>>
  PROVE  /\ Len(q) \in Nat /\ Len(q) >= 1 /\ Head(q) = q[1]
         /\ Len(Tail(q)) = Len(q) - 1
         /\ \A i \in 1 .. Len(Tail(q)) : i + 1 \in 1 .. Len(q) /\ Tail(q)[i] = q[i + 1]
OBVIOUS

\* The run goes on to the next loan.
LEMMA SkipStep ==
  ASSUME LoanInv, RunsStartClean, NEW w \in Worker, NEW j, job[w].queue # <<>>,
         job' = [job EXCEPT ![w] = j], j.pc = "next", j.queue = Tail(job[w].queue),
         \A v \in Worker : v # w => pend'[v] = pend[v]
  PROVE  /\ RunsStartClean'
         /\ \A l \in Loan : ~Ahead(w, l) => ~Ahead(w, l)'
         /\ \A l \in Loan : l = Current(w) => ~Ahead(w, l)'
<1> DEFINE q == job[w].queue
<1>1. q \in Seq(Loan)
  BY DEF LoanInv, TypeOK, JobType
<1>2. job'[w] = j /\ \A v \in Worker : v # w => job'[v] = job[v]
  BY DEF LoanInv, TypeOK
<1>3. /\ Len(q) \in Nat /\ Len(q) >= 1 /\ Head(q) = q[1]
      /\ Len(Tail(q)) = Len(q) - 1
      /\ \A i \in 1 .. Len(Tail(q)) : i + 1 \in 1 .. Len(q) /\ Tail(q)[i] = q[i + 1]
  BY <1>1, TailFacts
<1>4. \A i, k \in 1 .. Len(q) : q[i] = q[k] => i = k
  BY DEF RunsStartClean
<1>5. \A i, k \in 1 .. Len(Tail(q)) : Tail(q)[i] = Tail(q)[k] => i = k
  <2> SUFFICES ASSUME NEW i \in 1 .. Len(Tail(q)), NEW k \in 1 .. Len(Tail(q)),
                      Tail(q)[i] = Tail(q)[k]
               PROVE  i = k
    OBVIOUS
  <2>1. i + 1 = k + 1
    BY <1>3, <1>4
  <2> QED
    BY <1>3, <2>1
<1>6. RunsStartClean'
  <2> DEFINE rest == Tail(q)
  <2>1. job'[w].pc # "idle" /\ job'[w].queue = rest
    BY <1>2
  <2>2. \A i, k \in 1 .. Len(rest) : rest[i] = rest[k] => i = k
    BY <1>5
  <2> HIDE DEF rest
  <2>3. ASSUME NEW v \in Worker
        PROVE  /\ job'[v].pc = "idle" =>
                    job'[v].queue = <<>> /\ \A l \in Loan : pend'[v][l] = "nothing"
               /\ \A i, k \in 1 .. Len(job'[v].queue) :
                    job'[v].queue[i] = job'[v].queue[k] => i = k
    <3>1. CASE v = w
      BY <2>1, <2>2, <3>1
    <3>2. CASE v # w
      <4>1. job'[v] = job[v] /\ pend'[v] = pend[v]
        BY <1>2, <3>2
      <4> QED
        BY <4>1 DEF RunsStartClean
    <3> QED
      BY <3>1, <3>2
  <2> HIDE DEF q
  <2> QED
    BY <2>3 DEF RunsStartClean
<1>7. \A l \in Loan : ~Ahead(w, l) => ~Ahead(w, l)'
  <2> SUFFICES ASSUME NEW l \in Loan, Ahead(w, l)' PROVE Ahead(w, l)
    OBVIOUS
  <2>1. PICK i \in 1 .. Len(Tail(q)) : Tail(q)[i] = l
    BY <1>2 DEF Ahead
  <2>2. i + 1 \in 1 .. Len(q) /\ q[i + 1] = l /\ i + 1 # 1
    BY <1>3, <2>1
  <2> QED
    BY <2>2 DEF Ahead
<1>8. \A l \in Loan : l = Current(w) => ~Ahead(w, l)'
  <2>1. ASSUME NEW i \in 1 .. Len(Tail(q)) PROVE Tail(q)[i] # Head(q)
    <3>1. i + 1 \in 1 .. Len(q) /\ Tail(q)[i] = q[i + 1] /\ i + 1 # 1
      BY <1>3
    <3> QED
      BY <1>3, <1>4, <3>1
  <2> QED
    BY <1>2, <2>1 DEF Ahead, Current
<1> QED
  BY <1>6, <1>7, <1>8

\* An order of S has each of its members once.
LEMMA OrdersOnce ==
  ASSUME NEW S, IsFiniteSet(S), NEW o \in Orders(S)
  PROVE  /\ \A i \in 1 .. Len(o) : o[i] \in S
         /\ \A i, k \in 1 .. Len(o) : o[i] = o[k] => i = k
<1>1. Cardinality(S) \in Nat
  BY FS_CardinalityType
<1>2. o \in [1 .. Cardinality(S) -> S]
  BY DEF Orders
<1>3. Len(o) = Cardinality(S)
  BY <1>1, <1>2
<1> QED
  BY <1>2, <1>3 DEF Orders

\* A run lists loans that are not settled.
LEMMA StartRunRuns ==
  ASSUME RunInv, LoanInv', SettledGrows, NEW w \in Worker, StartRun(w)
  PROVE  RunInv'
<1>1. PICK o \in Orders(DueForReminder) :
        job' = [job EXCEPT ![w] = [Resting EXCEPT !.pc = "next", !.queue = o]]
  BY DEF StartRun
<1>2. /\ \A i \in 1 .. Len(o) : o[i] \in DueForReminder
      /\ \A i, k \in 1 .. Len(o) : o[i] = o[k] => i = k
  <2>1. IsFiniteSet(DueForReminder)
    BY FinitelyMany, FS_Subset DEF DueForReminder
  <2> QED
    BY <2>1, OrdersOnce
<1>3. /\ job[w].pc = "idle"
      /\ UNCHANGED <<row, reminded, pend, sent, faulty>>
  BY DEF StartRun, tables, txs, ghosts
<1>4. /\ job'[w].pc = "next" /\ job'[w].queue = o
      /\ \A v \in Worker : v # w => job'[v] = job[v]
  BY <1>1 DEF RunInv, LoanInv, TypeOK, Resting
<1>5. MarksWereSent' /\ RemindedWasSent'
  BY <1>3, <1>4 DEF RunInv, MarksWereSent, RemindedWasSent, Current
<1>6. RunsStartClean'
  BY <1>2, <1>3, <1>4 DEF RunInv, RunsStartClean
<1>7. \A l \in Loan : ~MayNotify(w, l) => ~MayNotify(w, l)'
  <2>1. \A l \in Loan : MayNotify(w, l) <=> ~Settled(l)
    BY <1>3 DEF RunInv, RunsStartClean, MayNotify, Ahead, Notified
  <2>2. \A l \in Loan : Ahead(w, l)' => ~Settled(l)
    BY <1>2, <1>4 DEF Ahead, DueForReminder, Settled, Out
  <2> QED
    BY <2>1, <2>2 DEF MayNotify, SettledGrows
<1>8. CountedOnce'
  BY <1>3, <1>4, <1>7, IdleWorker, CountStays DEF RunInv
<1> QED
  BY <1>5, <1>6, <1>8 DEF RunInv

LEMMA SkipLoanRuns ==
  ASSUME RunInv, LoanInv', SettledGrows, NEW w \in Worker, SkipLoan(w)
  PROVE  RunInv'
<1>1. /\ job[w].pc = "next" /\ job[w].queue # <<>>
      /\ job' = [job EXCEPT ![w] = Skip(w)]
      /\ UNCHANGED <<row, reminded, pend, sent, faulty>>
  BY DEF SkipLoan, AtLoan, tables, txs, ghosts
<1>2. Skip(w).pc = "next" /\ Skip(w).queue = Tail(job[w].queue)
  BY DEF Skip, RunInv, LoanInv, TypeOK, JobType
<1>3. RunsStartClean' /\ \A l \in Loan : ~Ahead(w, l) => ~Ahead(w, l)'
  BY <1>1, <1>2, SkipStep DEF RunInv
<1>4. job'[w].pc = "next" /\ \A v \in Worker : v # w => job'[v] = job[v]
  BY <1>1, <1>2 DEF RunInv, LoanInv, TypeOK
<1>5. MarksWereSent' /\ RemindedWasSent'
  BY <1>1, <1>4 DEF RunInv, MarksWereSent, RemindedWasSent, Current
<1>6. \A l \in Loan : ~MayNotify(w, l) => ~MayNotify(w, l)'
  BY <1>1, <1>3, <1>4 DEF MayNotify, Settled, Notified
<1>7. CountedOnce'
  BY <1>1, <1>4, <1>6, IdleWorker, CountStays DEF RunInv
<1> QED
  BY <1>3, <1>5, <1>7 DEF RunInv

\* Whatever comes of a notification, a loan that was notified stays notified.
LEMMA SentGrows ==
  ASSUME RunInv, NEW w \in Worker, NEW l \in Loan,
         sent' = [sent EXCEPT ![w][l] = Capped(w, @)] \/ sent' = sent
  PROVE  /\ \A v \in Worker, k \in Loan : sent[v][k] > 0 => sent'[v][k] > 0
         /\ \A v \in Worker : v # w => sent'[v] = sent[v]
         /\ \A k \in Loan : k # l => sent'[w][k] = sent[w][k]
<1>1. sent \in [Worker -> [Loan -> Nat]]
  BY DEF RunInv, LoanInv, TypeOK
<1>2. \A n \in Nat : Capped(w, n) \in Nat /\ Capped(w, n) > 0
  BY DEF Capped
<1> QED
  BY <1>1, <1>2

\* The worker that notifies is one that might have, and is not any more.
LEMMA NotifyRuns ==
  ASSUME RunInv, LoanInv', SettledGrows, NEW w \in Worker, Notify(w)
  PROVE  RunInv'
<1> DEFINE q == job[w].queue
<1>1. /\ job[w].pc = "next" /\ q # <<>>
      /\ sent' = [sent EXCEPT ![w][Current(w)] = Capped(w, @)]
      /\ job' = [job EXCEPT ![w].pc = "look"]
      /\ UNCHANGED <<row, reminded, pend, faulty>>
  BY DEF Notify, AtLoan, At, tables, txs
<1>2. PICK l \in Loan : l = Current(w)
  BY <1>1, SkipTypes DEF RunInv
<1>3. /\ job'[w].pc = "look" /\ job'[w].queue = q
      /\ \A v \in Worker : v # w => job'[v] = job[v]
  BY <1>1 DEF RunInv, LoanInv, TypeOK, JobType
<1>4. /\ \A v \in Worker, k \in Loan : sent[v][k] > 0 => sent'[v][k] > 0
      /\ \A v \in Worker : v # w => sent'[v] = sent[v]
      /\ \A k \in Loan : k # l => sent'[w][k] = sent[w][k]
  BY <1>1, <1>2, SentGrows
<1>5. sent[w][l] \in Nat /\ sent'[w][l] = Capped(w, sent[w][l])
  BY <1>1, <1>2 DEF RunInv, LoanInv, TypeOK
<1>6. sent'[w][l] > 0 /\ (sent[w][l] = 0 => sent'[w][l] = 1)
  BY <1>5 DEF Capped
<1>7. MarksWereSent' /\ RemindedWasSent'
  <2>1. RemindedWasSent'
    BY <1>1, <1>4 DEF RunInv, LoanInv, TypeOK, RemindedWasSent
  <2>2. \A t \in Tx, k \in Loan : pend'[t][k] = "remind" => t \in Worker /\ sent'[t][k] > 0
    BY <1>1, <1>4 DEF RunInv, MarksWereSent
  <2>3. ASSUME NEW v \in Worker, job'[v].pc \in {"look", "mark"}
        PROVE  sent'[v][Current(v)'] > 0
    <3>1. CASE v = w
      BY <1>2, <1>3, <1>6, <3>1 DEF Current
    <3>2. CASE v # w
      <4>1. Current(v)' = Current(v) /\ sent[v][Current(v)] > 0
        BY <1>3, <2>3, <3>2 DEF RunInv, MarksWereSent, Current
      <4> QED
        BY <1>4, <3>2, <4>1
    <3> QED
      BY <3>1, <3>2
  <2> QED
    BY <2>1, <2>2, <2>3 DEF MarksWereSent
<1>8. RunsStartClean'
  BY <1>1, <1>3 DEF RunInv, RunsStartClean
<1>9. /\ q \in Seq(Loan) /\ Len(q) \in Nat /\ Len(q) >= 1 /\ Head(q) = q[1]
      /\ \A i, k \in 1 .. Len(q) : q[i] = q[k] => i = k
  <2>1. q \in Seq(Loan)
    BY DEF RunInv, LoanInv, TypeOK, JobType
  <2> QED
    BY <1>1, <2>1, TailFacts DEF RunInv, RunsStartClean
<1>10. Ahead(w, l) /\ ~Ahead(w, l)'
  BY <1>1, <1>2, <1>3, <1>9 DEF Ahead, Current
<1>11. \A v \in Worker, k \in Loan : ~MayNotify(v, k) => ~MayNotify(v, k)'
  <2>1. \A k \in Loan : ~MayNotify(w, k) => ~MayNotify(w, k)'
    BY <1>1, <1>3 DEF MayNotify, Ahead, Settled, Notified, Current
  <2> QED
    BY <1>1, <1>3, <2>1, IdleWorker
<1>12. CountedOnce'
  <2> SUFFICES ASSUME NEW v \in Worker \ faulty, NEW k \in Loan, sent'[v][k] # 0
               PROVE  sent'[v][k] = 1 /\ ~MayNotify(v, k)'
    BY <1>1 DEF CountedOnce
  <2>1. sent[v][k] # 0 => sent[v][k] = 1 /\ ~MayNotify(v, k)
    BY DEF RunInv, CountedOnce
  <2>2. CASE v # w \/ k # l
    BY <1>4, <1>11, <2>1, <2>2
  <2>3. CASE v = w /\ k = l
    <3>1. MayNotify(w, l) /\ ~MayNotify(w, l)'
      BY <1>2, <1>3, <1>10 DEF MayNotify, Notified, Current
    <3> QED
      BY <1>6, <2>1, <2>3, <3>1
  <2> QED
    BY <2>2, <2>3
<1> QED
  BY <1>7, <1>8, <1>12 DEF RunInv

\* Nothing is counted for a worker a run of which has failed.
LEMMA NotifyFailsRuns ==
  ASSUME RunInv, LoanInv', SettledGrows, NEW w \in Worker, NotifyFails(w)
  PROVE  RunInv'
<1> DEFINE l == Current(w)
<1>1. /\ job[w].pc = "next" /\ job[w].queue # <<>>
      /\ sent' = [sent EXCEPT ![w][l] = Capped(w, @)] \/ sent' = sent
      /\ job' = [job EXCEPT ![w] = Skip(w)]
      /\ faulty' = faulty \cup {w}
      /\ UNCHANGED <<row, reminded, pend>>
  BY DEF NotifyFails, AtLoan, tables, txs
<1>2. Skip(w).pc = "next" /\ Skip(w).queue = Tail(job[w].queue)
  BY DEF Skip, RunInv, LoanInv, TypeOK, JobType
<1>3. RunsStartClean'
  BY <1>1, <1>2, SkipStep DEF RunInv
<1>4. job'[w].pc = "next" /\ \A v \in Worker : v # w => job'[v] = job[v]
  BY <1>1, <1>2 DEF RunInv, LoanInv, TypeOK
<1>5. /\ \A v \in Worker, k \in Loan : sent[v][k] > 0 => sent'[v][k] > 0
      /\ \A v \in Worker : v # w => sent'[v] = sent[v]
  BY <1>1, SentGrows, SkipTypes DEF RunInv
<1>6. MarksWereSent' /\ RemindedWasSent'
  <2>1. RemindedWasSent'
    BY <1>1, <1>5 DEF RunInv, LoanInv, TypeOK, RemindedWasSent
  <2>2. \A t \in Tx, k \in Loan : pend'[t][k] = "remind" => t \in Worker /\ sent'[t][k] > 0
    BY <1>1, <1>5 DEF RunInv, MarksWereSent
  <2>3. ASSUME NEW v \in Worker, job'[v].pc \in {"look", "mark"}
        PROVE  sent'[v][Current(v)'] > 0
    <3>1. v # w /\ job'[v] = job[v]
      BY <1>4, <2>3
    <3>2. Current(v)' = Current(v) /\ sent[v][Current(v)] > 0
      BY <2>3, <3>1 DEF RunInv, MarksWereSent, Current
    <3> QED
      BY <1>5, <3>1, <3>2
  <2> QED
    BY <2>1, <2>2, <2>3 DEF MarksWereSent
<1>7. CountedOnce'
  <2> SUFFICES ASSUME NEW v \in Worker \ faulty', NEW k \in Loan, sent'[v][k] # 0
               PROVE  sent'[v][k] = 1 /\ ~MayNotify(v, k)'
    BY DEF CountedOnce
  <2>1. v # w /\ v \notin faulty
    BY <1>1
  <2>2. job'[v] = job[v] /\ pend'[v] = pend[v] /\ sent'[v] = sent[v]
    BY <1>1, <1>4, <1>5, <2>1
  <2> QED
    BY <2>1, <2>2, IdleWorker DEF RunInv, CountedOnce
<1> QED
  BY <1>3, <1>6, <1>7 DEF RunInv

\* A run passes over a loan it has notified only when the loan is gone.
LEMMA LookLoanRuns ==
  ASSUME RunInv, LoanInv', SettledGrows, NEW w \in Worker, LookLoan(w)
  PROVE  RunInv'
<1>1. /\ job[w].pc = "look" /\ job[w].queue # <<>>
      /\ UNCHANGED <<row, reminded, pend, sent, faulty>>
  BY DEF LookLoan, RunInv, LoanInv, QueuesOK, tables, txs, ghosts
<1>2. CASE row[Current(w)] = "gone" /\ job' = [job EXCEPT ![w] = Skip(w)]
  <2>1. Skip(w).pc = "next" /\ Skip(w).queue = Tail(job[w].queue)
    BY DEF Skip, RunInv, LoanInv, TypeOK, JobType
  <2>2. RunsStartClean' /\ \A l \in Loan : ~Ahead(w, l) => ~Ahead(w, l)'
    BY <1>1, <1>2, <2>1, SkipStep DEF RunInv
  <2>3. job'[w].pc = "next" /\ \A v \in Worker : v # w => job'[v] = job[v]
    BY <1>2, <2>1 DEF RunInv, LoanInv, TypeOK
  <2>4. MarksWereSent' /\ RemindedWasSent'
    BY <1>1, <2>3 DEF RunInv, MarksWereSent, RemindedWasSent, Current
  <2>5. \A l \in Loan : ~MayNotify(w, l) => ~MayNotify(w, l)'
    <3> SUFFICES ASSUME NEW l \in Loan, ~Ahead(w, l), Settled(l) \/ Notified(w, l)
                 PROVE  Settled(l)' \/ Notified(w, l)'
      BY <2>2 DEF MayNotify
    <3>1. CASE l = Current(w)
      BY <1>1, <1>2, <3>1 DEF Settled
    <3>2. CASE l # Current(w)
      BY <1>1, <3>2 DEF Settled, Notified
    <3> QED
      BY <3>1, <3>2
  <2>6. CountedOnce'
    BY <1>1, <2>3, <2>5, IdleWorker, CountStays DEF RunInv
  <2> QED
    BY <2>2, <2>4, <2>6 DEF RunInv
<1>3. CASE At(w, "mark")
  <2>1. /\ job'[w].pc = "mark" /\ job'[w].queue = job[w].queue
        /\ \A v \in Worker : v # w => job'[v] = job[v]
    BY <1>3 DEF At, RunInv, LoanInv, TypeOK, JobType
  <2>2. MarksWereSent' /\ RemindedWasSent'
    BY <1>1, <2>1 DEF RunInv, MarksWereSent, RemindedWasSent, Current
  <2>3. RunsStartClean'
    BY <1>1, <2>1 DEF RunInv, RunsStartClean
  <2>4. \A l \in Loan : ~MayNotify(w, l) => ~MayNotify(w, l)'
    BY <1>1, <2>1 DEF MayNotify, Ahead, Settled, Notified, Current
  <2>5. CountedOnce'
    BY <1>1, <2>1, <2>4, IdleWorker, CountStays DEF RunInv
  <2> QED
    BY <2>2, <2>3, <2>5 DEF RunInv
<1> QED
  BY <1>2, <1>3 DEF LookLoan

\* The mark takes the place of the run's position as the reason not to notify
\* the loan again.
LEMMA MarkRemindedRuns ==
  ASSUME RunInv, LoanInv', SettledGrows, NEW w \in Worker, MarkReminded(w)
  PROVE  RunInv'
<1> DEFINE l == Current(w)
           j == [Skip(w) EXCEPT !.marked = @ \cup {Current(w)}]
<1>1. /\ job[w].pc = "mark" /\ job[w].queue # <<>>
      /\ pend' = [pend EXCEPT ![w][l] = "remind"]
      /\ job' = [job EXCEPT ![w] = j]
      /\ UNCHANGED <<row, reminded, sent, faulty>>
  BY DEF MarkReminded, RunInv, LoanInv, QueuesOK, tables, ghosts
<1>2. j.pc = "next" /\ j.queue = Tail(job[w].queue)
  BY DEF Skip, RunInv, LoanInv, TypeOK, JobType
<1> HIDE DEF j
<1>3. l \in Loan /\ w \in Tx
  BY <1>1, SkipTypes DEF RunInv, Tx
<1>4. /\ \A t \in Tx, k \in Loan :
           pend'[t][k] = IF t = w /\ k = l THEN "remind" ELSE pend[t][k]
      /\ \A t \in Tx : t # w => pend'[t] = pend[t]
  BY <1>1, <1>3 DEF RunInv, LoanInv, TypeOK
<1>5. \A v \in Worker : v # w => pend'[v] = pend[v]
  BY <1>4 DEF Tx
<1>6. /\ RunsStartClean'
      /\ \A k \in Loan : ~Ahead(w, k) => ~Ahead(w, k)'
      /\ \A k \in Loan : k = l => ~Ahead(w, k)'
  BY <1>1, <1>2, <1>5, SkipStep DEF RunInv
<1>7. job'[w].pc = "next" /\ \A v \in Worker : v # w => job'[v] = job[v]
  BY <1>1, <1>2 DEF RunInv, LoanInv, TypeOK
<1>8. sent[w][l] > 0
  BY <1>1 DEF RunInv, MarksWereSent
<1>9. MarksWereSent' /\ RemindedWasSent'
  BY <1>1, <1>4, <1>7, <1>8 DEF RunInv, MarksWereSent, RemindedWasSent, Current
<1>10. \A k \in Loan : ~MayNotify(w, k) => ~MayNotify(w, k)'
  BY <1>1, <1>3, <1>4, <1>6 DEF MayNotify, Settled, Notified
<1>11. CountedOnce'
  BY <1>1, <1>5, <1>7, <1>10, IdleWorker, CountStays DEF RunInv
<1> QED
  BY <1>6, <1>9, <1>11 DEF RunInv

\* What the run has marked is recorded as it ends.
LEMMA EndRunRuns ==
  ASSUME RunInv, LoanInv', SettledGrows, NEW w \in Worker, EndRun(w)
  PROVE  RunInv'
<1>1. /\ job[w].pc = "next" /\ job[w].queue = <<>>
      /\ job' = [job EXCEPT ![w] = Resting]
      /\ reminded' = reminded \cup {l \in Loan : pend[w][l] = "remind"}
      /\ pend' = [pend EXCEPT ![w] = NoWrites]
      /\ UNCHANGED <<sent, faulty>>
  BY DEF EndRun, Keep, Release, ghosts
<1>2. w \in Tx
  BY DEF Tx
<1>3. /\ job'[w].pc = "idle" /\ job'[w].queue = <<>>
      /\ \A v \in Worker : v # w => job'[v] = job[v]
  BY <1>1 DEF RunInv, LoanInv, TypeOK, Resting
<1>4. /\ \A l \in Loan : pend'[w][l] = "nothing"
      /\ \A t \in Tx : t # w => pend'[t] = pend[t]
  BY <1>1, <1>2 DEF RunInv, LoanInv, TypeOK, NoWrites
<1>5. \A v \in Worker : v # w => pend'[v] = pend[v]
  BY <1>4 DEF Tx
<1>6. MarksWereSent' /\ RemindedWasSent'
  BY <1>1, <1>2, <1>3, <1>4 DEF RunInv, MarksWereSent, RemindedWasSent, Current
<1>7. RunsStartClean'
  BY <1>3, <1>4, <1>5 DEF RunInv, RunsStartClean
<1>8. \A l \in Loan : ~MayNotify(w, l) => ~MayNotify(w, l)'
  <2> SUFFICES ASSUME NEW l \in Loan, Settled(l) \/ Notified(w, l)
               PROVE  ~Ahead(w, l)' /\ Settled(l)'
    BY DEF MayNotify
  <2>1. ~Ahead(w, l)'
    BY <1>3 DEF Ahead
  <2>2. Settled(l)'
    BY <1>1 DEF SettledGrows, Notified, Settled
  <2> QED
    BY <2>1, <2>2
<1>9. CountedOnce'
  BY <1>1, <1>3, <1>5, <1>8, IdleWorker, CountStays DEF RunInv
<1> QED
  BY <1>6, <1>7, <1>9 DEF RunInv

LEMMA RunFailsRuns ==
  ASSUME RunInv, LoanInv', SettledGrows, NEW w \in Worker, FlushFails(w) \/ Crash(w)
  PROVE  RunInv'
<1>1. /\ pend' = [pend EXCEPT ![w] = NoWrites]
      /\ faulty' = faulty \cup {w}
      /\ UNCHANGED <<reminded, sent>>
  BY DEF FlushFails, Crash, Rollback, Release, tables
<1>2. w \in Tx
  BY DEF Tx
<1>3. /\ \A l \in Loan : pend'[w][l] = "nothing"
      /\ \A t \in Tx : t # w => pend'[t] = pend[t]
  BY <1>1, <1>2 DEF RunInv, LoanInv, TypeOK, NoWrites
<1>4. \A v \in Worker : v # w => pend'[v] = pend[v]
  BY <1>3 DEF Tx
<1>5. /\ job'[w].pc \notin {"look", "mark"}
      /\ \A v \in Worker : v # w => job'[v] = job[v]
      /\ RunsStartClean'
  <2>1. CASE FlushFails(w)
    <3> DEFINE j == [Skip(w) EXCEPT !.poisoned = TRUE]
    <3>1. job' = [job EXCEPT ![w] = j] /\ job[w].queue # <<>>
      BY <2>1 DEF FlushFails, RunInv, LoanInv, QueuesOK
    <3>2. j.pc = "next" /\ j.queue = Tail(job[w].queue)
      BY DEF Skip, RunInv, LoanInv, TypeOK, JobType
    <3> HIDE DEF j
    <3>3. RunsStartClean'
      BY <1>4, <3>1, <3>2, SkipStep DEF RunInv
    <3> QED
      BY <3>1, <3>2, <3>3 DEF RunInv, LoanInv, TypeOK
  <2>2. CASE Crash(w)
    <3>1. /\ job'[w].pc = "idle" /\ job'[w].queue = <<>>
          /\ \A v \in Worker : v # w => job'[v] = job[v]
      BY <2>2 DEF Crash, RunInv, LoanInv, TypeOK, Resting
    <3>2. RunsStartClean'
      BY <1>3, <1>4, <3>1 DEF RunInv, RunsStartClean
    <3> QED
      BY <3>1, <3>2
  <2> QED
    BY <2>1, <2>2
<1>6. MarksWereSent' /\ RemindedWasSent'
  BY <1>1, <1>2, <1>3, <1>5 DEF RunInv, MarksWereSent, RemindedWasSent, Current
<1>7. CountedOnce'
  <2> SUFFICES ASSUME NEW v \in Worker \ faulty', NEW k \in Loan, sent[v][k] # 0
               PROVE  sent[v][k] = 1 /\ ~MayNotify(v, k)'
    BY <1>1 DEF CountedOnce
  <2>1. v # w /\ v \notin faulty
    BY <1>1
  <2> QED
    BY <1>4, <1>5, <2>1, IdleWorker DEF RunInv, CountedOnce
<1> QED
  BY <1>5, <1>6, <1>7 DEF RunInv

----------------------------------------------------------------------------
(* The steps of the others *)

LEMMA WritesNothing ==
  ASSUME RunInv, LoanInv', SettledGrows,
         UNCHANGED <<reminded, pend, job, sent, faulty>>
  PROVE  RunInv'
BY NoRunStep

LEMMA RequestRuns ==
  ASSUME RunInv, LoanInv', SettledGrows, NEW r \in Request, Proceed(r) \/ Abort(r)
  PROVE  RunInv'
<1>1. UNCHANGED <<job, sent, faulty>>
  BY DEF Proceed, Abort, InsertLoan, SetReturned, DeleteCopy, Commit, Refuse,
         RequestVictim, Fail, ghosts
<1>2. r \in Tx /\ r \notin Worker
  BY WorkersServeNoRequest DEF Tx
<1>3. /\ \A t \in Tx : t # r => pend'[t] = pend[t]
      /\ \A l \in Loan : pend'[r][l] = "remind" => pend[r][l] = "remind"
  <2>1. CASE InsertLoan(r) \/ SetReturned(r)
    <3>1. PICK x \in {"insert", "return"} :
            pend' = [pend EXCEPT ![r] = [@ EXCEPT ![req[r].loan] = x]]
      BY <2>1 DEF InsertLoan, SetReturned
    <3> QED
      BY <1>2, <3>1 DEF RunInv, LoanInv, TypeOK
  <2>2. CASE DeleteCopy(r)
    <3>1. pend' = [pend EXCEPT ![r] =
                     [l \in Loan |-> IF l \in Cascade(Head(req[r].todo))
                                     THEN "delete" ELSE @[l]]]
      BY <2>2 DEF DeleteCopy
    <3> QED
      BY <1>2, <3>1 DEF RunInv, LoanInv, TypeOK
  <2>3. CASE Release(r)
    BY <1>2, <2>3 DEF RunInv, LoanInv, TypeOK, Release, NoWrites
  <2>4. InsertLoan(r) \/ SetReturned(r) \/ DeleteCopy(r) \/ Release(r)
    BY DEF Proceed, Abort, Commit, Refuse, RequestVictim, Fail, Keep, Rollback
  <2> QED
    BY <2>1, <2>2, <2>3, <2>4
<1>4. \A l \in reminded' : l \in reminded \/ pend[r][l] = "remind"
  <2>1. UNCHANGED tables \/ Keep(r)
    BY DEF Proceed, Abort, InsertLoan, SetReturned, DeleteCopy, Commit, Refuse,
           RequestVictim, Fail, Rollback
  <2> QED
    BY <2>1 DEF tables, Keep
<1>5. \A w \in Worker : pend'[w] = pend[w]
  BY <1>2, <1>3 DEF Tx
<1>6. \A t \in Tx, l \in Loan : pend'[t][l] = "remind" => pend[t][l] = "remind"
  BY <1>3
<1> QED
  BY <1>1, <1>2, <1>4, <1>5, <1>6, NoRunStep

----------------------------------------------------------------------------
(* The theorems *)

LEMMA InitRuns == Init => RunInv
<1> SUFFICES ASSUME Init PROVE RunInv
  OBVIOUS
<1>1. MarksWereSent /\ RemindedWasSent /\ RunsStartClean
  BY DEF Init, MarksWereSent, RemindedWasSent, RunsStartClean, NoWrites, Resting, Tx
<1>2. CountedOnce
  BY DEF Init, CountedOnce
<1> QED
  BY <1>1, <1>2, InitHolds DEF RunInv

LEMMA StepRuns == RunInv /\ [Next]_vars => RunInv'
<1> SUFFICES ASSUME RunInv, [Next]_vars PROVE RunInv'
  OBVIOUS
<1>1. LoanInv'
  BY StepHolds DEF RunInv
<1>2. SettledGrows
  BY SettledStep DEF RunInv, SettledGrows, Settled
<1>3. ASSUME NEW r \in Request, NEW b \in Book, NEW l \in Loan, NEW d \in DueDate,
             Lend(r, b, l, d)
      PROVE  RunInv'
  BY <1>1, <1>2, <1>3, WritesNothing DEF Lend, tables, txs, ghosts
<1>4. ASSUME NEW r \in Request, NEW b \in Book, NEW l \in Loan, Return(r, b, l)
      PROVE  RunInv'
  BY <1>1, <1>2, <1>4, WritesNothing DEF Return, tables, txs, ghosts
<1>5. ASSUME NEW r \in Request, NEW S \in (SUBSET Book) \ {{}},
             NEW todo \in Orders(S), Delete(r, todo)
      PROVE  RunInv'
  BY <1>1, <1>2, <1>5, WritesNothing DEF Delete, tables, txs, ghosts
<1>6. ASSUME NEW r \in Request, Proceed(r) \/ Abort(r)
      PROVE  RunInv'
  BY <1>1, <1>2, <1>6, RequestRuns
<1>7. ASSUME NEW w \in Worker, Run(w) \/ Notify(w) \/ NotifyFails(w) \/ Crash(w)
      PROVE  RunInv'
  <2>1. CASE StartRun(w) \/ SkipLoan(w) \/ LookLoan(w) \/ Notify(w) \/ NotifyFails(w)
    BY <1>1, <1>2, <2>1, StartRunRuns, SkipLoanRuns, LookLoanRuns, NotifyRuns,
       NotifyFailsRuns
  <2>2. CASE MarkReminded(w) \/ EndRun(w)
    BY <1>1, <1>2, <2>2, MarkRemindedRuns, EndRunRuns
  <2>3. CASE FlushFails(w) \/ Crash(w)
    BY <1>1, <1>2, <2>3, RunFailsRuns
  <2> QED
    BY <1>7, <2>1, <2>2, <2>3 DEF Run
<1>8. ASSUME NEW l \in Loan, FallsDue(l)
      PROVE  RunInv'
  BY <1>1, <1>2, <1>8, WritesNothing DEF FallsDue, tables, txs, ghosts
<1>9. CASE UNCHANGED vars
  BY <1>1, <1>2, <1>9, WritesNothing DEF vars, tables, txs, ghosts
<1> QED
  BY <1>3, <1>4, <1>5, <1>6, <1>7, <1>8, <1>9 DEF Next

(* The invariant of the reminder job: marks follow notifications, and each *)
(* worker's count for.                                                     *)
THEOREM RunInvHolds == Spec => []RunInv
<1>1. RunInv /\ [Next]_vars => RunInv'
  BY StepRuns
<1> QED
  BY <1>1, InitRuns, PTL DEF Spec

(* However runs fail and whatever is deleted meanwhile, a loan is recorded *)
(* as reminded only after a notification for it.                           *)
(* (SendLoanRemindersUseCase.execute)                                      *)
THEOREM ReminderWasSent == Spec => []RemindedWasSent
<1>1. RunInv => RemindedWasSent
  BY DEF RunInv
<1> QED
  BY <1>1, RunInvHolds, PTL

(* As long as none of its runs fails, a worker notifies a loan at most once,*)
(* for any number of workers, loans, runs and requests.                    *)
(* (list_due_for_reminder, mark_reminder_sent)                             *)
THEOREM NotifiedOncePerWorker == Spec => []OncePerWorker
<1>1. RunInv => OncePerWorker
  <2> SUFFICES ASSUME RunInv, NEW w \in Worker \ faulty, NEW l \in Loan
               PROVE  sent[w][l] <= 1
    BY DEF OncePerWorker
  <2>1. sent[w][l] # 0 => sent[w][l] = 1
    BY DEF RunInv, CountedOnce
  <2> QED
    BY <2>1
<1> QED
  BY <1>1, RunInvHolds, PTL

=============================================================================
