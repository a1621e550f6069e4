---------------------------- MODULE Kids_proofs ----------------------------
(***************************************************************************)
(* Theorems about Kids, for any copies, members, days and requests.        *)
(*                                                                         *)
(* The inductive invariant says of every row that its copy is there and    *)
(* that the request it is named after has ended, so that a request adds    *)
(* its own rows under a fresh name; and of a request that waits for a quiz *)
(* that no question its copy has is older than the request.                *)
(***************************************************************************)
EXTENDS Kids, TLAPS

Done == {r \in Request : pc[r] = "done"}

Past == Done \cup {Earlier}

Hangs(T) == \A row \in T : row.book \in books /\ row.from \in Past

RowsHome ==
  /\ Hangs(sessions) /\ Hangs(questions) /\ Hangs(attempts)
  /\ Hangs(sets) /\ Hangs(entries) /\ Hangs(picks)

BegunAfter == \A r \in Request : before[r] \subseteq Done

OpenedDone == opened \subseteq Done

\* Who waits for a first quiz has found no question.
NoneFound(r) ==
  pc[r] = "asking" /\ ask[r].of = "quiz" /\ ~ask[r].more =>
    \A q \in QuestionsOf(ask[r].book) : q.from \notin before[r] \cup {Earlier}

NothingFound == \A r \in Request : NoneFound(r)

KidsInv ==
  /\ TypeOK
  /\ RowsHome
  /\ BegunAfter
  /\ OpenedDone
  /\ NothingFound
  /\ OneSetPerBook
  /\ ReviewsWhole
  /\ LinksHold
  /\ QuizGeneratedOnce

----------------------------------------------------------------------------
(* Requests *)

ReqTypes ==
  /\ pc \in [Request -> {"idle", "asking", "done"}]
  /\ ask \in [Request -> Ask \cup {NoAsk}]
  /\ \A r \in Request : pc[r] = "asking" <=> ask[r] # NoAsk
  /\ before \in [Request -> SUBSET Request] /\ opened \subseteq Request

\* What every step of a request does to the requests: it was not done, the
\* others stay as they were, and what was past is past.
Moved(r) ==
  /\ pc[r] # "done" /\ r \notin Past
  /\ \A s \in Request \ {r} : /\ pc'[s] = pc[s] /\ ask'[s] = ask[s]
                              /\ before'[s] = before[s]
  /\ Done \subseteq Done' /\ Past \subseteq Past'
  /\ ReqTypes' /\ BegunAfter'

LEMMA AsksAreNotNothing == NoAsk \notin Ask
<1>1. NoAsk.of = "nothing"
  BY DEF NoAsk
<1>2. \A a \in Ask : a.of \in {"quiz", "discussion"}
  BY DEF Ask
<1> QED
  BY <1>1, <1>2

LEMMA OnceMoves ==
  ASSUME KidsInv, NEW r \in Request, Once(r)
  PROVE  Moved(r) /\ pc'[r] = "done" /\ opened' = opened /\ r \in Past'
BY EarlierIsEarlier
   DEF KidsInv, TypeOK, ReqTypes, BegunAfter, Once, Began, Ends, Moved, Done, Past

LEMMA AsksMoves ==
  ASSUME KidsInv, NEW r \in Request, NEW a \in Ask, Asks(r, a)
  PROVE  /\ Moved(r) /\ pc'[r] = "asking" /\ ask'[r] = a
         /\ opened' = opened /\ before'[r] = Done
BY EarlierIsEarlier, AsksAreNotNothing
   DEF KidsInv, TypeOK, ReqTypes, BegunAfter, Asks, Began, Moved, Done, Past

LEMMA AnsweredMoves ==
  ASSUME KidsInv, NEW r \in Request, NEW of, Answered(r, of),
         opened' = opened \/ opened' = opened \cup {r}
  PROVE  /\ Moved(r) /\ pc'[r] = "done" /\ before' = before /\ r \in Past'
         /\ ask[r] \in Ask /\ ask[r].of = of /\ ask[r].book \in Book
         /\ ask[r].more \in BOOLEAN
<1>1. ask[r] \in Ask /\ ask[r].of = of
  BY DEF KidsInv, TypeOK, Answered
<1>2. ask[r].book \in Book /\ ask[r].more \in BOOLEAN
  BY <1>1 DEF Ask
<1>3. Moved(r) /\ pc'[r] = "done" /\ before' = before /\ r \in Past'
  BY EarlierIsEarlier
     DEF KidsInv, TypeOK, ReqTypes, BegunAfter, Answered, Ends, Moved, Done, Past
<1> QED
  BY <1>1, <1>2, <1>3

LEMMA GiveUpMoves ==
  ASSUME KidsInv, NEW r \in Request, GiveUp(r)
  PROVE  Moved(r) /\ pc'[r] = "done" /\ opened' = opened
BY EarlierIsEarlier
   DEF KidsInv, TypeOK, ReqTypes, BegunAfter, GiveUp, Began, Ends, Moved, Done, Past

----------------------------------------------------------------------------
(* Tables *)

RowTypes ==
  /\ books \subseteq Book
  /\ sessions \subseteq SessionRow /\ questions \subseteq QuestionRow
  /\ attempts \subseteq AttemptRow /\ sets \subseteq SetRow
  /\ entries \subseteq EntryRow /\ picks \subseteq PickRow
  /\ paths \subseteq PathRow /\ challenges \subseteq ChallengeRow

TablesOK == RowTypes /\ RowsHome /\ OneSetPerBook /\ ReviewsWhole /\ LinksHold

\* The questions a step adds are its own.
OwnQuestions(r) == \A q \in questions' \ questions : q.from = r

LEMMA InvParts == KidsInv => TablesOK /\ ReqTypes
BY DEF KidsInv, TypeOK, TablesOK, RowTypes, ReqTypes

\* Whoever waits has still found nothing.
LEMMA WaitersKeep ==
  ASSUME KidsInv, NEW r \in Request, Moved(r), OwnQuestions(r)
  PROVE  \A s \in Request \ {r} : NoneFound(s)'
<1> SUFFICES ASSUME NEW s \in Request \ {r} PROVE NoneFound(s)'
  OBVIOUS
<1>1. /\ pc'[s] = pc[s] /\ ask'[s] = ask[s] /\ before'[s] = before[s]
      /\ r \notin before[s] \cup {Earlier}
  BY DEF Moved, KidsInv, BegunAfter, Past
<1>2. NoneFound(s)
  BY DEF KidsInv, NothingFound
<1> QED
  BY <1>1, <1>2 DEF NoneFound, QuestionsOf, OwnQuestions

\* The quizzes that were opened answer nobody who came later.
LEMMA OpenedKeep ==
  ASSUME KidsInv, NEW r \in Request, Moved(r), OwnQuestions(r), opened' = opened
  PROVE  QuizGeneratedOnce'
<1> SUFFICES ASSUME NEW q \in questions', q.from \in opened,
                    NEW p \in questions', p.book = q.book
             PROVE  p.from \notin before'[q.from] \cup {Earlier}
  BY DEF QuizGeneratedOnce, QuestionsOf
<1>1. q.from \in Request \ {r} /\ q \in questions
  BY DEF KidsInv, OpenedDone, Done, Past, Moved, OwnQuestions
<1>2. before'[q.from] = before[q.from] /\ r \notin before[q.from] \cup {Earlier}
  BY <1>1 DEF Moved, KidsInv, BegunAfter, Past
<1>3. CASE p \in questions
  BY <1>1, <1>2, <1>3 DEF KidsInv, QuizGeneratedOnce, QuestionsOf
<1>4. CASE p \notin questions
  BY <1>2, <1>4 DEF OwnQuestions
<1> QED
  BY <1>3, <1>4

\* A step that ends a request, and leaves the quizzes to whom they belong.
LEMMA EndKeeps ==
  ASSUME KidsInv, NEW r \in Request, Moved(r), OwnQuestions(r),
         pc'[r] = "done", opened' = opened, TablesOK'
  PROVE  KidsInv'
<1>1. NothingFound'
  BY WaitersKeep DEF NothingFound, NoneFound
<1>2. OpenedDone'
  BY DEF KidsInv, OpenedDone, Moved
<1>3. TypeOK'
  BY DEF TablesOK, RowTypes, Moved, ReqTypes, TypeOK
<1> QED
  BY <1>1, <1>2, <1>3, OpenedKeep DEF KidsInv, Moved, TablesOK

\* Nothing hangs differently.
LEMMA LooseKeeps ==
  ASSUME KidsInv, NEW r \in Request, Moved(r), UNCHANGED <<books, hung>>,
         paths' \subseteq PathRow, challenges' \subseteq ChallengeRow
  PROVE  TablesOK' /\ OwnQuestions(r)
<1>1. TablesOK
  BY InvParts
<1>2. RowTypes' /\ OneSetPerBook' /\ ReviewsWhole' /\ LinksHold'
  BY <1>1 DEF TablesOK, RowTypes, hung, OneSetPerBook, ReviewsWhole, Reviewed,
              FindByIds, LinksHold
<1>3. RowsHome'
  BY <1>1 DEF TablesOK, RowsHome, Hangs, Moved, hung
<1> QED
  BY <1>2, <1>3 DEF TablesOK, OwnQuestions, hung

LEMMA SessionKeeps ==
  ASSUME KidsInv, NEW r \in Request, Moved(r), r \in Past',
         NEW s \in SessionRow, s.from = r, AddSession(s)
  PROVE  TablesOK' /\ OwnQuestions(r)
<1>1. TablesOK
  BY InvParts
<1>2. RowTypes' /\ OneSetPerBook' /\ ReviewsWhole'
  BY <1>1 DEF TablesOK, RowTypes, AddSession, loose, OneSetPerBook, ReviewsWhole,
              Reviewed, FindByIds
<1>3. LinksHold'
  BY <1>1 DEF TablesOK, LinksHold, AddSession
<1>4. RowsHome'
  BY <1>1 DEF TablesOK, RowsHome, Hangs, Moved, AddSession
<1> QED
  BY <1>2, <1>3, <1>4 DEF TablesOK, OwnQuestions, AddSession

LEMMA QuestionsKeep ==
  ASSUME KidsInv, NEW r \in Request, Moved(r), r \in Past',
         NEW Q \in SUBSET QuestionRow, \A q \in Q : q.from = r, AddQuestions(Q)
  PROVE  TablesOK' /\ OwnQuestions(r)
<1>1. TablesOK
  BY InvParts
<1>2. RowTypes' /\ OneSetPerBook' /\ LinksHold'
  BY <1>1 DEF TablesOK, RowTypes, AddQuestions, loose, OneSetPerBook, LinksHold
<1>3. ReviewsWhole'
  <2> SUFFICES ASSUME NEW a \in attempts
               PROVE  /\ Reviewed(a)' = a.asked
                      /\ \A q \in FindByIds(a.asked)' : q.book = a.book
    BY DEF ReviewsWhole, AddQuestions
  <2>1. Reviewed(a) = a.asked /\ \A q \in FindByIds(a.asked) : q.book = a.book
    BY <1>1 DEF TablesOK, ReviewsWhole
  <2>2. \A id \in a.asked : \E q \in questions : Name(q) = id
    BY <2>1 DEF Reviewed, FindByIds
  <2>3. \A q \in questions : q.from # r
    BY <1>1 DEF TablesOK, RowsHome, Hangs, Moved
  <2>4. \A id \in a.asked : id[1] # r
    BY <2>2, <2>3 DEF Name
  <2>5. \A q \in Q : Name(q) \notin a.asked
    BY <2>4 DEF Name
  <2>6. FindByIds(a.asked)' = FindByIds(a.asked)
    BY <2>5 DEF FindByIds, AddQuestions, Name
  <2> QED
    BY <2>1, <2>6 DEF Reviewed, Name
<1>4. RowsHome'
  BY <1>1 DEF TablesOK, RowsHome, Hangs, Moved, AddQuestions
<1> QED
  BY <1>2, <1>3, <1>4 DEF TablesOK, OwnQuestions, AddQuestions

LEMMA AttemptKeeps ==
  ASSUME KidsInv, NEW r \in Request, Moved(r), r \in Past',
         NEW a \in AttemptRow, a.from = r, Answerable(a.book, a.asked), AddAttempt(a)
  PROVE  TablesOK' /\ OwnQuestions(r)
<1>1. TablesOK
  BY InvParts
<1>2. RowTypes' /\ OneSetPerBook' /\ LinksHold'
  BY <1>1 DEF TablesOK, RowTypes, AddAttempt, loose, OneSetPerBook, LinksHold
<1>3. Reviewed(a) = a.asked /\ \A q \in FindByIds(a.asked) : q.book = a.book
  BY DEF Answerable, Reviewed
<1>4. ReviewsWhole'
  BY <1>1, <1>3 DEF TablesOK, ReviewsWhole, Reviewed, FindByIds, AddAttempt
<1>5. RowsHome'
  BY <1>1 DEF TablesOK, RowsHome, Hangs, Moved, AddAttempt
<1> QED
  BY <1>2, <1>4, <1>5 DEF TablesOK, OwnQuestions, AddAttempt

LEMMA SetKeeps ==
  ASSUME KidsInv, NEW r \in Request, Moved(r), r \in Past',
         NEW s \in SetRow, s.from = r, SaveSet(s)
  PROVE  TablesOK' /\ OwnQuestions(r)
<1>1. TablesOK
  BY InvParts
<1>2. RowTypes' /\ LinksHold' /\ ReviewsWhole'
  BY <1>1 DEF TablesOK, RowTypes, SaveSet, loose, LinksHold, ReviewsWhole, Reviewed,
              FindByIds
<1>3. OneSetPerBook'
  BY <1>1 DEF TablesOK, OneSetPerBook, SaveSet, SetOf
<1>4. RowsHome'
  BY <1>1 DEF TablesOK, RowsHome, Hangs, Moved, SaveSet
<1> QED
  BY <1>2, <1>3, <1>4 DEF TablesOK, OwnQuestions, SaveSet

LEMMA EntryKeeps ==
  ASSUME KidsInv, NEW r \in Request, Moved(r), r \in Past',
         NEW e \in EntryRow, e.from = r, AddEntry(e)
  PROVE  TablesOK' /\ OwnQuestions(r)
<1>1. TablesOK
  BY InvParts
<1>2. RowTypes' /\ OneSetPerBook' /\ ReviewsWhole'
  BY <1>1 DEF TablesOK, RowTypes, AddEntry, loose, OneSetPerBook, ReviewsWhole,
              Reviewed, FindByIds
<1>3. LinksHold'
  BY <1>1 DEF TablesOK, LinksHold, AddEntry
<1>4. RowsHome'
  BY <1>1 DEF TablesOK, RowsHome, Hangs, Moved, AddEntry
<1> QED
  BY <1>2, <1>3, <1>4 DEF TablesOK, OwnQuestions, AddEntry

\* Picks are added and accepted.
LEMMA PicksKeep ==
  ASSUME KidsInv, NEW r \in Request, Moved(r), picks' \subseteq PickRow,
         \A p \in picks' : p.book \in books /\ p.from \in Past',
         UNCHANGED <<books, sessions, questions, attempts, sets, entries, loose>>
  PROVE  TablesOK' /\ OwnQuestions(r)
<1>1. TablesOK
  BY InvParts
<1>2. RowTypes' /\ OneSetPerBook' /\ ReviewsWhole' /\ LinksHold'
  BY <1>1 DEF TablesOK, RowTypes, loose, OneSetPerBook, ReviewsWhole, Reviewed,
              FindByIds, LinksHold
<1>3. RowsHome'
  BY <1>1 DEF TablesOK, RowsHome, Hangs, Moved
<1> QED
  BY <1>2, <1>3 DEF TablesOK, OwnQuestions

\* The copy goes with all that hangs from it.
LEMMA DeleteKeeps ==
  ASSUME KidsInv, NEW r \in Request, Moved(r), NEW b \in Book, DeleteBook(r, b)
  PROVE  TablesOK' /\ OwnQuestions(r)
<1> DEFINE gone == {s.from : s \in sessions \ Kept(sessions, b)}
<1>1. TablesOK
  BY InvParts
<1>2. /\ books' = books \ {b} /\ sessions' = Kept(sessions, b)
      /\ questions' = Kept(questions, b) /\ attempts' = Kept(attempts, b)
      /\ sets' = Kept(sets, b) /\ entries' = Unlinked(Kept(entries, b), gone)
      /\ picks' = Kept(picks, b) /\ paths' = paths /\ challenges' = challenges
  BY DEF DeleteBook, loose
<1>3. \A e \in entries' : \E d \in entries :
         /\ d.book # b
         /\ e = [d EXCEPT !.session = IF @ \in gone THEN NoSession ELSE @]
  BY <1>2 DEF Unlinked, Kept
<1>4. \A e \in entries' : /\ e \in EntryRow /\ (e.session \notin gone \/ e.session = NoSession)
                          /\ \E d \in entries : /\ d.book # b /\ d.book = e.book
                                                /\ d.from = e.from
                                                /\ e.session # NoSession => e.session = d.session
  BY <1>1, <1>3 DEF TablesOK, RowTypes, EntryRow
<1>5. RowTypes'
  <2>1. /\ books' \subseteq Book /\ sessions' \subseteq SessionRow
        /\ questions' \subseteq QuestionRow /\ attempts' \subseteq AttemptRow
        /\ sets' \subseteq SetRow /\ picks' \subseteq PickRow
        /\ paths' \subseteq PathRow /\ challenges' \subseteq ChallengeRow
    BY <1>1, <1>2 DEF TablesOK, RowTypes, Kept
  <2>2. entries' \subseteq EntryRow
    BY <1>4
  <2> QED
    BY <2>1, <2>2 DEF RowTypes
<1>6. OneSetPerBook'
  BY <1>1, <1>2 DEF TablesOK, OneSetPerBook, Kept
<1>7. LinksHold'
  <2> SUFFICES ASSUME NEW e \in entries', e.session # NoSession
               PROVE  \E s \in sessions' : s.from = e.session
    BY DEF LinksHold
  <2>1. PICK s \in sessions : s.from = e.session
    BY <1>1, <1>4 DEF TablesOK, LinksHold
  <2> QED
    BY <1>2, <1>4, <2>1
<1>8. ReviewsWhole'
  <2> SUFFICES ASSUME NEW a \in attempts, a.book # b
               PROVE  /\ Reviewed(a)' = a.asked
                      /\ \A q \in FindByIds(a.asked)' : q.book = a.book
    BY <1>2 DEF ReviewsWhole, Kept
  <2>1. Reviewed(a) = a.asked /\ \A q \in FindByIds(a.asked) : q.book = a.book
    BY <1>1 DEF TablesOK, ReviewsWhole
  <2>2. FindByIds(a.asked)' = FindByIds(a.asked)
    BY <1>2, <2>1 DEF FindByIds, Kept, Name
  <2> QED
    BY <2>1, <2>2 DEF Reviewed, Name
<1>9. RowsHome'
  <2>1. Hangs(sessions)' /\ Hangs(questions)' /\ Hangs(attempts)' /\ Hangs(sets)' /\ Hangs(picks)'
    BY <1>1, <1>2 DEF TablesOK, RowsHome, Hangs, Moved, Kept
  <2>2. Hangs(entries)'
    BY <1>1, <1>2, <1>4 DEF TablesOK, RowsHome, Hangs, Moved
  <2> QED
    BY <2>1, <2>2 DEF RowsHome
<1> QED
  BY <1>2, <1>5, <1>6, <1>7, <1>8, <1>9 DEF TablesOK, OwnQuestions, Kept

\* Who stored a quiz without asking for more had found no question.
LEMMA StoreQuizKeeps ==
  ASSUME KidsInv, NEW r \in Request, NEW k \in Number, StoreQuiz(r, k)
  PROVE  KidsInv'
<1> DEFINE Q == {[from |-> r, n |-> n, book |-> ask[r].book, author |-> NoAuthor] : n \in 1..k}
<1>1. opened' = opened \/ opened' = opened \cup {r}
  BY DEF StoreQuiz
<1>2. /\ Moved(r) /\ pc'[r] = "done" /\ before' = before /\ r \in Past'
      /\ ask[r] \in Ask /\ ask[r].of = "quiz" /\ ask[r].book \in Book
      /\ ask[r].more \in BOOLEAN
  BY <1>1, AnsweredMoves DEF StoreQuiz
<1>3. Q \in SUBSET QuestionRow /\ \A q \in Q : q.from = r /\ q.book = ask[r].book
  BY <1>2 DEF QuestionRow, From, Number
<1>4. TablesOK' /\ OwnQuestions(r)
  BY <1>2, <1>3, QuestionsKeep DEF StoreQuiz
<1>5. NothingFound'
  BY <1>2, <1>4, WaitersKeep DEF NothingFound, NoneFound
<1>6. OpenedDone'
  BY <1>1, <1>2 DEF KidsInv, OpenedDone, Moved, Done, ReqTypes
<1>7. TypeOK'
  BY <1>2, <1>4 DEF TablesOK, RowTypes, Moved, ReqTypes, TypeOK
<1>8. QuizGeneratedOnce'
  <2>1. CASE ask[r].more
    BY <1>2, <1>4, <2>1, OpenedKeep DEF StoreQuiz
  <2>2. CASE ~ask[r].more
    <3> SUFFICES ASSUME NEW q \in questions', q.from \in opened \cup {r},
                        NEW p \in questions', p.book = q.book
                 PROVE  p.from \notin before[q.from] \cup {Earlier}
      BY <1>1, <1>2 DEF QuizGeneratedOnce, QuestionsOf
    <3>1. r \notin before[q.from] \cup {Earlier} /\ q.from \in Request
      BY <1>2 DEF Moved, KidsInv, TypeOK, BegunAfter, Past
    <3>2. CASE p \notin questions
      BY <1>4, <3>1, <3>2 DEF OwnQuestions
    <3>3. CASE p \in questions /\ q \in questions
      <4>1. q.from # r
        BY <1>2, <3>3 DEF KidsInv, RowsHome, Hangs, Moved
      <4> QED
        BY <3>3, <4>1 DEF KidsInv, QuizGeneratedOnce, QuestionsOf
    <3>4. CASE p \in questions /\ q \notin questions
      <4>1. q.from = r /\ q.book = ask[r].book
        BY <1>3, <3>4 DEF StoreQuiz, AddQuestions
      <4>2. NoneFound(r) /\ pc[r] = "asking"
        BY DEF KidsInv, NothingFound, StoreQuiz, Answered
      <4> QED
        BY <1>2, <2>2, <3>4, <4>1, <4>2 DEF NoneFound, QuestionsOf
    <3> QED
      BY <3>2, <3>3, <3>4
  <2> QED
    BY <1>2, <2>1, <2>2
<1> QED
  BY <1>2, <1>4, <1>5, <1>6, <1>7, <1>8 DEF KidsInv, TablesOK, Moved

\* A request that asks has read, and has written nothing.
LEMMA AskingKeeps ==
  ASSUME KidsInv, NEW r \in Request, NEW a \in Ask, Asks(r, a),
         a.of = "quiz" /\ ~a.more => QuestionsOf(a.book) = {}
  PROVE  KidsInv'
<1>1. Moved(r) /\ pc'[r] = "asking" /\ ask'[r] = a /\ opened' = opened /\ before'[r] = Done
  BY AsksMoves
<1>2. UNCHANGED <<books, hung, paths, challenges>>
  BY DEF Asks, loose
<1>3. TablesOK' /\ OwnQuestions(r)
  BY <1>1, <1>2, LooseKeeps DEF KidsInv, TypeOK
<1>4. NoneFound(r)'
  BY <1>1, <1>2 DEF NoneFound, QuestionsOf, hung
<1>5. NothingFound'
  BY <1>1, <1>3, <1>4, WaitersKeep DEF NothingFound
<1>6. OpenedDone'
  BY <1>1 DEF KidsInv, OpenedDone, Moved
<1>7. TypeOK'
  BY <1>1, <1>3 DEF TablesOK, RowTypes, Moved, ReqTypes, TypeOK
<1> QED
  BY <1>1, <1>3, <1>5, <1>6, <1>7, OpenedKeep DEF KidsInv, TablesOK, Moved

----------------------------------------------------------------------------
(* The invariant *)

LEMMA InitHolds == Init => KidsInv
<1> SUFFICES ASSUME Init PROVE KidsInv
  OBVIOUS
<1>1. /\ attempts = {} /\ sets = {} /\ entries = {} /\ paths = {} /\ challenges = {}
      /\ books = Book /\ opened = {} /\ \A r \in Request : pc[r] = "idle" /\ before[r] = {}
      /\ ask = [r \in Request |-> NoAsk] /\ before = [r \in Request |-> {}]
      /\ pc = [r \in Request |-> "idle"]
  BY DEF Init
<1>2. /\ sessions \subseteq SessionRow /\ picks \subseteq PickRow /\ questions \subseteq QuestionRow
      /\ \A row \in sessions \cup picks \cup questions : row.from = Earlier /\ row.book \in Book
  <2>1. CASE sessions = {} /\ picks = {} /\ questions = {}
    BY <2>1
  <2>2. ASSUME NEW b \in Book, NEW u \in Child, NEW d \in Day, NEW k \in Number,
               sessions = {[from |-> Earlier, book |-> b, user |-> u, day |-> d]},
               picks = {[from |-> Earlier, book |-> b, child |-> u, status |-> "proposed"]},
               questions = {[from |-> Earlier, n |-> n, book |-> b, author |-> NoAuthor] : n \in 1..k}
        PROVE  /\ sessions \subseteq SessionRow /\ picks \subseteq PickRow
               /\ questions \subseteq QuestionRow
               /\ \A row \in sessions \cup picks \cup questions :
                     row.from = Earlier /\ row.book \in Book
    BY <2>2 DEF SessionRow, PickRow, QuestionRow, From, Member, Number
  <2> QED
    BY <2>1, <2>2 DEF Init
<1>3. TypeOK
  BY <1>1, <1>2 DEF TypeOK
<1>4. RowsHome
  BY <1>1, <1>2 DEF RowsHome, Hangs, Past
<1>5. BegunAfter /\ OpenedDone /\ NothingFound
  BY <1>1 DEF BegunAfter, OpenedDone, NothingFound, NoneFound
<1>6. OneSetPerBook /\ ReviewsWhole /\ LinksHold /\ QuizGeneratedOnce
  BY <1>1 DEF OneSetPerBook, ReviewsWhole, LinksHold, QuizGeneratedOnce
<1> QED
  BY <1>3, <1>4, <1>5, <1>6 DEF KidsInv

LEMMA StepKeeps ==
  ASSUME KidsInv, NEW r \in Request, Step(r)
  PROVE  KidsInv'
<1> USE DEF KidsInv, TypeOK
<1>1. CASE log_reading_session(r)
  <2>1. PICK b \in Book, by \in Member, user \in Member, d \in Day :
          LogReadingSession(r, b, by, user, d)
    BY <1>1 DEF log_reading_session
  <2> DEFINE s == [from |-> r, book |-> b, user |-> user, day |-> d]
  <2>2. s \in SessionRow /\ s.from = r /\ AddSession(s) /\ Once(r)
    BY <2>1 DEF LogReadingSession, SessionRow, From
  <2> QED
    BY <2>2, OnceMoves, SessionKeeps, EndKeeps
<1>2. CASE generate_quiz(r)
  <2>1. PICK b \in Book, more \in BOOLEAN : GenerateQuiz(r, b, more)
    BY <1>2 DEF generate_quiz
  <2> DEFINE a == [of |-> "quiz", book |-> b, more |-> more]
  <2>2. a \in Ask /\ Asks(r, a) /\ (~a.more => QuestionsOf(a.book) = {})
    BY <2>1 DEF GenerateQuiz, Ask, Stored
  <2> QED
    BY <2>2, AskingKeeps
<1>3. ASSUME NEW k \in Number, StoreQuiz(r, k) PROVE KidsInv'
  BY <1>3, StoreQuizKeeps
<1>4. CASE create_manual_quiz_question(r)
  <2>1. PICK b \in Book, by \in Parent : CreateManualQuestion(r, b, by)
    BY <1>4 DEF create_manual_quiz_question
  <2> DEFINE Q == {[from |-> r, n |-> 1, book |-> b, author |-> by]}
  <2>2. /\ Q \in SUBSET QuestionRow /\ \A q \in Q : q.from = r
        /\ AddQuestions(Q) /\ Once(r)
    BY <2>1 DEF CreateManualQuestion, QuestionRow, From, Number
  <2> QED
    BY <2>2, OnceMoves, QuestionsKeep, EndKeeps
<1>5. CASE submit_quiz_attempt(r)
  <2>1. PICK b \in Book, by \in Child, ids \in SUBSET {Name(q) : q \in questions} :
          SubmitAttempt(r, b, by, ids)
    BY <1>5 DEF submit_quiz_attempt
  <2> DEFINE a == [from |-> r, book |-> b, user |-> by, asked |-> ids]
  <2>2. \A q \in questions : Name(q) \in From \X Number
    BY DEF Name, QuestionRow
  <2>3. /\ a \in AttemptRow /\ a.from = r /\ Answerable(a.book, a.asked)
        /\ AddAttempt(a) /\ Once(r)
    BY <2>1, <2>2 DEF SubmitAttempt, AttemptRow, From
  <2> QED
    BY <2>3, OnceMoves, AttemptKeeps, EndKeeps
<1>6. CASE get_discussion_questions(r)
  <2>1. PICK b \in Book : GetDiscussionQuestions(r, b)
    BY <1>6 DEF get_discussion_questions
  <2> DEFINE a == [of |-> "discussion", book |-> b, more |-> FALSE]
  <2>2. a \in Ask /\ Asks(r, a) /\ a.of # "quiz"
    BY <2>1 DEF GetDiscussionQuestions, Ask
  <2> QED
    BY <2>2, AskingKeeps
<1>7. CASE StoreDiscussion(r)
  <2> DEFINE s == [from |-> r, book |-> ask[r].book]
  <2>1. Answered(r, "discussion") /\ opened' = opened /\ SaveSet(s)
    BY <1>7 DEF StoreDiscussion
  <2>2. Moved(r) /\ pc'[r] = "done" /\ r \in Past' /\ ask[r].book \in Book
    BY <2>1, AnsweredMoves
  <2>3. s \in SetRow /\ s.from = r
    BY <2>2 DEF SetRow, From
  <2> QED
    BY <2>1, <2>2, <2>3, SetKeeps, EndKeeps
<1>8. CASE create_journal_entry(r)
  <2>1. PICK b \in Book, by \in Child, s \in {t.from : t \in sessions} \cup {NoSession} :
          CreateEntry(r, b, by, s)
    BY <1>8 DEF create_journal_entry
  <2> DEFINE e == [from |-> r, book |-> b, user |-> by, session |-> s]
  <2>2. s \in From \cup {NoSession}
    BY DEF SessionRow
  <2>3. e \in EntryRow /\ e.from = r /\ AddEntry(e) /\ Once(r)
    BY <2>1, <2>2 DEF CreateEntry, EntryRow, From
  <2> QED
    BY <2>3, OnceMoves, EntryKeeps, EndKeeps
<1>9. CASE create_reading_path(r)
  <2>1. PICK B \in SUBSET Book : CreatePath(r, B)
    BY <1>9 DEF create_reading_path
  <2>2. paths' \subseteq PathRow
    BY <2>1 DEF CreatePath, SetPaths, PathRow, From
  <2> QED
    BY <2>1, <2>2, OnceMoves, LooseKeeps, EndKeeps DEF CreatePath, SetPaths
<1>10. CASE delete_reading_path(r)
  BY <1>10, OnceMoves, LooseKeeps, EndKeeps DEF delete_reading_path, DeletePath, SetPaths
<1>11. CASE create_mystery_pick(r)
  <2>1. PICK b \in Book, u \in Child : CreatePick(r, b, u)
    BY <1>11 DEF create_mystery_pick
  <2> DEFINE p == [from |-> r, book |-> b, child |-> u, status |-> "proposed"]
  <2>2. p \in PickRow /\ AddPick(p) /\ Once(r)
    BY <2>1 DEF CreatePick, PickRow, From
  <2>3. picks' \subseteq PickRow /\ Moved(r) /\ pc'[r] = "done" /\ opened' = opened
    BY <2>2, OnceMoves DEF AddPick
  <2>4. \A x \in picks' : x.book \in books /\ x.from \in Past'
    BY <2>2, OnceMoves DEF AddPick, RowsHome, Hangs, Moved
  <2> QED
    BY <2>2, <2>3, <2>4, PicksKeep, EndKeeps DEF AddPick
<1>12. CASE accept_mystery_pick(r)
  <2>1. PICK p \in picks : SavePick(p, "accepted") /\ Once(r)
    BY <1>12 DEF accept_mystery_pick, AcceptPick
  <2>2. picks' \subseteq PickRow /\ Moved(r) /\ pc'[r] = "done" /\ opened' = opened
    BY <2>1, OnceMoves DEF SavePick, PickRow
  <2>3. \A x \in picks' : x.book \in books /\ x.from \in Past'
    BY <2>1, <2>2 DEF SavePick, RowsHome, Hangs, Moved, PickRow
  <2> QED
    BY <2>1, <2>2, <2>3, PicksKeep, EndKeeps DEF SavePick
<1>13. CASE create_family_challenge(r)
  <2>1. PICK s \in Day, e \in Day : CreateChallenge(r, s, e)
    BY <1>13 DEF create_family_challenge
  <2>2. challenges' \subseteq ChallengeRow
    BY <2>1 DEF CreateChallenge, SetChallenges, ChallengeRow, From
  <2> QED
    BY <2>1, <2>2, OnceMoves, LooseKeeps, EndKeeps DEF CreateChallenge, SetChallenges
<1>14. CASE delete_family_challenge(r)
  BY <1>14, OnceMoves, LooseKeeps, EndKeeps
     DEF delete_family_challenge, DeleteChallenge, SetChallenges
<1>15. ASSUME NEW b \in Book, DeleteBook(r, b) PROVE KidsInv'
  BY <1>15, OnceMoves, DeleteKeeps, EndKeeps DEF DeleteBook
<1>16. CASE GiveUp(r)
  BY <1>16, GiveUpMoves, LooseKeeps, EndKeeps DEF GiveUp, loose
<1> QED
  BY <1>1, <1>2, <1>3, <1>4, <1>5, <1>6, <1>7, <1>8, <1>9, <1>10, <1>11, <1>12,
     <1>13, <1>14, <1>15, <1>16 DEF Step

LEMMA StutterKeeps ==
  ASSUME KidsInv, UNCHANGED vars
  PROVE  KidsInv'
BY DEF KidsInv, vars, hung, loose, TypeOK, RowsHome, Hangs, Past, Done, BegunAfter,
       OpenedDone, NothingFound, NoneFound, QuestionsOf, OneSetPerBook, ReviewsWhole,
       Reviewed, FindByIds, LinksHold, QuizGeneratedOnce

\* Whatever requests overlap, rows are home, and who waits for a quiz has
\* found nothing.
THEOREM KidsInvHolds == Spec => []KidsInv
<1>1. KidsInv /\ [Next]_vars => KidsInv'
  BY StepKeeps, StutterKeeps DEF Next, Ended
<1> QED
  BY InitHolds, <1>1, PTL DEF Spec

----------------------------------------------------------------------------
(* Properties *)

\* Every table holds rows of its type, and requests wait for what they asked.
THEOREM KidsTypesHold == Spec => []TypeOK
BY KidsInvHolds, PTL DEF KidsInv

\* Requests that both found no questions for the dinner table leave one set.
THEOREM OneSetHolds == Spec => []OneSetPerBook
BY KidsInvHolds, PTL DEF KidsInv

\* The review of an attempt loses no question, although nothing but the copy
\* ties the two tables.
THEOREM ReviewsStayWhole == Spec => []ReviewsWhole
BY KidsInvHolds, PTL DEF KidsInv

\* The session of a journal entry is there, whose copy it may be.
THEOREM LinksStay == Spec => []LinksHold
BY KidsInvHolds, PTL DEF KidsInv

\* Only requests that overlap generate a quiz twice.
THEOREM QuizOnce == Spec => []QuizGeneratedOnce
BY KidsInvHolds, PTL DEF KidsInv

\* A step that takes a session takes its copy.
LEMMA SessionsStay ==
  ASSUME NEW r \in Request, Step(r), books' = books
  PROVE  sessions \subseteq sessions'
<1>1. CASE UNCHANGED sessions
  BY <1>1
<1>2. CASE log_reading_session(r)
  BY <1>2 DEF log_reading_session, LogReadingSession, AddSession
<1>3. ASSUME NEW b \in Book, DeleteBook(r, b) PROVE FALSE
  BY <1>3 DEF DeleteBook
<1> QED
  BY <1>1, <1>2, <1>3
     DEF Step, generate_quiz, GenerateQuiz, Asks, StoreQuiz, create_manual_quiz_question,
         CreateManualQuestion, AddQuestions, submit_quiz_attempt, SubmitAttempt, AddAttempt,
         get_discussion_questions, GetDiscussionQuestions, StoreDiscussion, SaveSet,
         create_journal_entry, CreateEntry, AddEntry, create_reading_path, CreatePath,
         delete_reading_path, DeletePath, create_mystery_pick, CreatePick, AddPick,
         accept_mystery_pick, AcceptPick, SavePick, create_family_challenge,
         CreateChallenge, delete_family_challenge, DeleteChallenge, SetPaths,
         SetChallenges, GiveUp, hung

\* A challenge keeps what was read for it, as long as the copies are kept.
THEOREM ProgressStays == Spec => ProgressKept
<1>1. ASSUME [Next]_vars
      PROVE  [\A c \in challenges \cap challenges' :
                books' = books => Progress(c) \subseteq Progress(c)']_vars
  <2> SUFFICES ASSUME NEW c \in challenges, books' = books
               PROVE  Progress(c) \subseteq Progress(c)'
    OBVIOUS
  <2>1. sessions \subseteq sessions'
    BY <1>1, SessionsStay DEF Next, Ended, vars, hung
  <2> QED
    BY <2>1 DEF Progress, SessionsIn
<1> QED
  BY <1>1, PTL DEF Spec, ProgressKept

----------------------------------------------------------------------------
(* Kids implements Hanging *)

\* The rows of a table that are new belong to a copy and a request.
Grows(T, U, b, r) ==
  \A row \in U : \/ \E t \in T : t.book = row.book /\ t.from = row.from
                 \/ row.book = b /\ row.from = r

LEMMA TableGrows ==
  ASSUME NEW T, NEW U, NEW table, NEW b, NEW r, Grows(T, U, b, r)
  PROVE  HungIn(table, U) \ HungIn(table, T) \subseteq {<<b, <<table, r, 1>>>>}
BY DEF Grows, HungIn

LEMMA SameGrows ==
  ASSUME NEW T, NEW b, NEW r
  PROVE  Grows(T, T, b, r)
BY DEF Grows

LEMMA OneGrows ==
  ASSUME NEW T, NEW row, NEW r, row.from = r
  PROVE  Grows(T, T \cup {row}, row.book, r)
BY DEF Grows

LEMMA SpentGrows ==
  ASSUME KidsInv, KidsInv', NEW r \in Request, Moved(r)
  PROVE  /\ Spent \subseteq Spent' /\ Spent' \subseteq RowName
         /\ Hooks!Ids(Hung)' \subseteq Spent'
<1>1. Spent = Tables \X Past \X Number
  BY DEF Spent, Past, Done
<1>2. Spent' = Tables \X Past' \X Number
  BY DEF Spent, Past, Done
<1>3. Past \subseteq Past' /\ Past' \subseteq From
  BY DEF Moved, Past, Done, From
<1>4. ASSUME NEW row \in Hung' PROVE row[2] \in Spent'
  BY <1>2 DEF Hung, HungIn, KidsInv, TypeOK, RowsHome, Hangs, Tables, Number, QuestionRow
<1> QED
  BY <1>1, <1>2, <1>3, <1>4 DEF RowName, Hooks!Ids

\* A request adds rows of its own to one copy.
LEMMA GrowsHang ==
  ASSUME KidsInv, KidsInv', NEW r \in Request, Moved(r), books' = books, NEW b \in books,
         Grows(sessions, sessions', b, r), Grows(questions, questions', b, r),
         \A q \in questions' : q \in questions \/ (q.book = b /\ q.from = r),
         Grows(attempts, attempts', b, r), Grows(sets, sets', b, r),
         Grows(entries, entries', b, r), Grows(picks, picks', b, r)
  PROVE  Hooks!Next
<1> DEFINE Own(x) == x[1] = b /\ x[2] \in Tables \X {r} \X Number
<1>1. \A x \in HungIn("session", sessions') \ HungIn("session", sessions) : Own(x)
  BY TableGrows DEF Tables, Number
<1>2. \A x \in HungIn("attempt", attempts') \ HungIn("attempt", attempts) : Own(x)
  BY TableGrows DEF Tables, Number
<1>3. \A x \in HungIn("set", sets') \ HungIn("set", sets) : Own(x)
  BY TableGrows DEF Tables, Number
<1>4. \A x \in HungIn("entry", entries') \ HungIn("entry", entries) : Own(x)
  BY TableGrows DEF Tables, Number
<1>5. \A x \in HungIn("pick", picks') \ HungIn("pick", picks) : Own(x)
  BY TableGrows DEF Tables, Number
<1>6. \A q \in questions' \ questions : Own(<<q.book, <<"question", q.from, q.n>>>>)
  BY DEF Tables, KidsInv, TypeOK, QuestionRow
<1>7. \A x \in Hung' \ Hung : \E y \in RowName : x = <<b, y>> /\ y \in Tables \X {r} \X Number
  <2> HIDE DEF Own
  <2>1. \A x \in Hung' \ Hung : Own(x)
    BY <1>1, <1>2, <1>3, <1>4, <1>5, <1>6 DEF Hung, HungIn
  <2>2. \A x \in Hung' : x = <<x[1], x[2]>>
    BY DEF Hung, HungIn
  <2> QED
    BY <2>1, <2>2 DEF Own, RowName, From
<1>8. Hung' \ Hung \subseteq {b} \X (RowName \ Spent)
  BY <1>7 DEF Moved, Past, Done, Spent
<1>9. books' \subseteq Book
  BY DEF KidsInv, TypeOK
<1> QED
  BY <1>8, <1>9, SpentGrows DEF Hooks!Next, Hooks!Change

LEMMA SameHangs ==
  ASSUME KidsInv, KidsInv', NEW r \in Request, Moved(r), UNCHANGED <<books, hung>>
  PROVE  Hooks!Next
BY SpentGrows DEF Hooks!Next, hung, Hung, HungIn

\* The rows of a copy go with it.
LEMMA DeleteHangs ==
  ASSUME KidsInv, KidsInv', NEW r \in Request, Moved(r), NEW b \in Book, DeleteBook(r, b)
  PROVE  Hooks!Next
<1> DEFINE Others(T) == {row \in T : row[1] # b}
<1>1. ASSUME NEW T, NEW table PROVE HungIn(table, Kept(T, b)) = Others(HungIn(table, T))
  BY DEF HungIn, Kept
<1>2. ASSUME NEW gone, entries' = Unlinked(Kept(entries, b), gone)
      PROVE  HungIn("entry", entries') = HungIn("entry", Kept(entries, b))
  <2> DEFINE Un(e) == [e EXCEPT !.session = IF @ \in gone THEN NoSession ELSE @]
  <2>1. \A e \in Kept(entries, b) : Un(e).book = e.book /\ Un(e).from = e.from
    BY DEF KidsInv, TypeOK, EntryRow, Kept
  <2>2. entries' = {Un(e) : e \in Kept(entries, b)}
    BY <1>2 DEF Unlinked
  <2> HIDE DEF Un
  <2> QED
    BY <2>1, <2>2 DEF HungIn
<1>3. {<<q.book, <<"question", q.from, q.n>>>> : q \in Kept(questions, b)}
        = Others({<<q.book, <<"question", q.from, q.n>>>> : q \in questions})
  BY DEF Kept
<1>4. Hung' = Others(Hung)
  BY <1>1, <1>2, <1>3 DEF Hung, DeleteBook
<1> QED
  BY <1>4, SpentGrows DEF Hooks!Next, Hooks!DropParent, DeleteBook

LEMMA StepHangs ==
  ASSUME KidsInv, KidsInv', NEW r \in Request, Step(r)
  PROVE  Hooks!Next
<1>1. CASE log_reading_session(r)
  <2>1. PICK s : s.from = r /\ AddSession(s) /\ Once(r)
    BY <1>1 DEF log_reading_session, LogReadingSession
  <2>2. Moved(r) /\ books' = books /\ s.book \in books
    BY <2>1, OnceMoves DEF AddSession
  <2>3. Grows(sessions, sessions', s.book, r)
    BY <2>1, OneGrows DEF AddSession
  <2> QED
    BY <2>1, <2>2, <2>3, SameGrows, GrowsHang DEF AddSession
<1>2. CASE generate_quiz(r) \/ get_discussion_questions(r)
  <2>1. PICK a \in Ask : Asks(r, a)
    BY <1>2 DEF generate_quiz, GenerateQuiz, get_discussion_questions,
                GetDiscussionQuestions, Ask
  <2> QED
    BY <2>1, AsksMoves, SameHangs DEF Asks
<1>3. ASSUME NEW k \in Number, StoreQuiz(r, k) PROVE Hooks!Next
  <2>1. Moved(r)
    BY <1>3, AnsweredMoves DEF StoreQuiz
  <2> DEFINE q1 == [from |-> r, n |-> 1, book |-> ask[r].book, author |-> NoAuthor]
  <2>2. ask[r].book \in books /\ books' = books
    <3>1. q1 \in {[from |-> r, n |-> n, book |-> ask[r].book, author |-> NoAuthor] : n \in 1..k}
      BY DEF Number
    <3>2. q1.book \in books /\ books' = books
      BY <1>3, <3>1 DEF StoreQuiz, AddQuestions
    <3> QED
      BY <3>2
  <2>3. \A q \in questions' : q \in questions \/ (q.book = ask[r].book /\ q.from = r)
    BY <1>3 DEF StoreQuiz, AddQuestions
  <2>4. Grows(questions, questions', ask[r].book, r)
    BY <2>3 DEF Grows
  <2> QED
    BY <1>3, <2>1, <2>2, <2>3, <2>4, SameGrows, GrowsHang DEF StoreQuiz, AddQuestions
<1>4. CASE create_manual_quiz_question(r)
  <2>1. PICK q : AddQuestions({q}) /\ q.from = r /\ Once(r)
    BY <1>4 DEF create_manual_quiz_question, CreateManualQuestion
  <2>2. Moved(r) /\ books' = books /\ q.book \in books
    BY <2>1, OnceMoves DEF AddQuestions
  <2>3. Grows(questions, questions', q.book, r)
    BY <2>1, OneGrows DEF AddQuestions
  <2>4. \A x \in questions' : x \in questions \/ (x.book = q.book /\ x.from = r)
    BY <2>1 DEF AddQuestions
  <2> QED
    BY <2>1, <2>2, <2>3, <2>4, SameGrows, GrowsHang DEF AddQuestions
<1>5. CASE submit_quiz_attempt(r)
  <2>1. PICK a : a.from = r /\ AddAttempt(a) /\ Once(r)
    BY <1>5 DEF submit_quiz_attempt, SubmitAttempt
  <2>2. Moved(r) /\ books' = books /\ a.book \in books
    BY <2>1, OnceMoves DEF AddAttempt
  <2>3. Grows(attempts, attempts', a.book, r)
    BY <2>1, OneGrows DEF AddAttempt
  <2> QED
    BY <2>1, <2>2, <2>3, SameGrows, GrowsHang DEF AddAttempt
<1>6. CASE StoreDiscussion(r)
  <2>1. Moved(r)
    BY <1>6, AnsweredMoves DEF StoreDiscussion
  <2>2. PICK s : s.from = r /\ SaveSet(s)
    BY <1>6 DEF StoreDiscussion
  <2>3. Grows(sets, sets', s.book, r)
    BY <2>2, OneGrows DEF SaveSet
  <2> QED
    BY <2>1, <2>2, <2>3, SameGrows, GrowsHang DEF SaveSet
<1>7. CASE create_journal_entry(r)
  <2>1. PICK e : e.from = r /\ AddEntry(e) /\ Once(r)
    BY <1>7 DEF create_journal_entry, CreateEntry
  <2>2. Moved(r) /\ books' = books /\ e.book \in books
    BY <2>1, OnceMoves DEF AddEntry
  <2>3. Grows(entries, entries', e.book, r)
    BY <2>1, OneGrows DEF AddEntry
  <2> QED
    BY <2>1, <2>2, <2>3, SameGrows, GrowsHang DEF AddEntry
<1>8. CASE \/ create_reading_path(r) \/ delete_reading_path(r)
           \/ create_family_challenge(r) \/ delete_family_challenge(r)
  BY <1>8, OnceMoves, SameHangs
     DEF create_reading_path, CreatePath, delete_reading_path, DeletePath, SetPaths,
         create_family_challenge, CreateChallenge, delete_family_challenge,
         DeleteChallenge, SetChallenges
<1>9. CASE create_mystery_pick(r)
  <2>1. PICK p : p.from = r /\ AddPick(p) /\ Once(r)
    BY <1>9 DEF create_mystery_pick, CreatePick
  <2>2. Moved(r) /\ books' = books /\ p.book \in books
    BY <2>1, OnceMoves DEF AddPick
  <2>3. Grows(picks, picks', p.book, r)
    BY <2>1, OneGrows DEF AddPick
  <2> QED
    BY <2>1, <2>2, <2>3, SameGrows, GrowsHang DEF AddPick
<1>10. CASE accept_mystery_pick(r)
  <2>1. PICK p \in picks : SavePick(p, "accepted") /\ Once(r)
    BY <1>10 DEF accept_mystery_pick, AcceptPick
  <2>2. p.book \in books
    BY DEF KidsInv, RowsHome, Hangs
  <2>3. Grows(picks, picks', p.book, r)
    BY <2>1 DEF SavePick, KidsInv, TypeOK, PickRow, Grows
  <2> QED
    BY <2>1, <2>2, <2>3, OnceMoves, SameGrows, GrowsHang DEF SavePick
<1>11. ASSUME NEW b \in Book, DeleteBook(r, b) PROVE Hooks!Next
  BY <1>11, OnceMoves, DeleteHangs DEF DeleteBook
<1>12. CASE GiveUp(r)
  BY <1>12, GiveUpMoves, SameHangs DEF GiveUp
<1> QED
  BY <1>1, <1>2, <1>3, <1>4, <1>5, <1>6, <1>7, <1>8, <1>9, <1>10, <1>11, <1>12 DEF Step

LEMMA InitHangs == Init => Hooks!Init
<1> SUFFICES ASSUME Init PROVE Hooks!Init
  OBVIOUS
<1>1. KidsInv /\ books = Book
  BY InitHolds DEF Init
<1>2. Hung \subseteq books \X Spent
  BY <1>1 DEF KidsInv, TypeOK, RowsHome, Hangs, Hung, HungIn, Spent, Past, Done, Tables,
              Number, QuestionRow
<1>3. Spent \subseteq RowName
  BY DEF Spent, RowName, From
<1> QED
  BY <1>1, <1>2, <1>3 DEF Hooks!Init, Hooks!Ids

\* The handlers, however they interleave, treat the rows of all six tables as
\* foreign keys promise.
THEOREM KidsRowsHang == Spec => RowsHang
<1>1. ASSUME KidsInv, KidsInv', [Next]_vars
      PROVE  [Hooks!Next]_(Hooks!vars)
  <2>1. CASE UNCHANGED vars
    BY <2>1 DEF vars, hung, Hooks!vars, Hung, HungIn, Spent
  <2> QED
    BY <1>1, <2>1, StepHangs DEF Next, Ended
<1> QED
  BY InitHangs, <1>1, KidsInvHolds, PTL DEF Spec, RowsHang, Hooks!Spec

=============================================================================
