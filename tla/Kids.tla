-------------------------------- MODULE Kids --------------------------------
(***************************************************************************)
(* What children and their parents do with the copies of their library:    *)
(* reading sessions, quizzes, questions for the dinner table, a journal,   *)
(* mystery picks, reading paths and family challenges.                     *)
(*                                                                         *)
(* A request that writes one row is one step: its copy is there at the     *)
(* commit, because of the foreign key, and a copy never comes back, so it  *)
(* was there when the use case looked for it. The two that ask a language  *)
(* model between what they read and what they write are two steps.         *)
(***************************************************************************)
EXTENDS Integers

CONSTANTS
  Book,           \* owned copies (UUIDs) of the library
  Child, Parent,  \* its members by role: CHILD, and ADMIN or EDITOR
  Request,        \* requests; each is made at most once, and names its rows
  Earlier,        \* the request that made the rows that are there at first
  Day,            \* the days of reading
  NoSession,      \* session_id is null
  NoAuthor        \* author_user_id is null: a question of the language model

ASSUME RolesAreDisjoint == Child \cap Parent = {}
ASSUME EarlierIsEarlier == Earlier \notin Request
ASSUME DaysAreNumbers == Day \subseteq Int
ASSUME NobodyIsNobody == NoAuthor \notin Child \cup Parent

VARIABLES
  books,       \* owned_books: the copies that are there
  sessions,    \* reading_sessions
  questions,   \* quiz_questions
  attempts,    \* quiz_attempts
  sets,        \* discussion_question_sets
  entries,     \* journal_entries
  picks,       \* mystery_picks
  paths,       \* reading_paths
  challenges,  \* family_challenges
  pc,          \* each request: "idle", waiting for the model, or "done"
  ask,         \* the copy it has asked the model about, and for what
  before,      \* history: the requests that had ended when it began
  opened       \* history: those that stored a quiz, and did not ask for more

hung == <<sessions, questions, attempts, sets, entries, picks>>
loose == <<paths, challenges>>
vars == <<books, hung, loose, pc, ask, before, opened>>

----------------------------------------------------------------------------
(* The rows *)

From == Request \cup {Earlier}
Member == Child \cup Parent

SessionRow == [from : From, book : Book, user : Member, day : Day]

\* A request makes one row, but the questions of a quiz are several.
Number == 1..2

QuestionRow == [from : From, n : Number, book : Book, author : Parent \cup {NoAuthor}]

\* The answers are abstracted to the questions they are given to.
AttemptRow == [from : From, book : Book, user : Child, asked : SUBSET (From \X Number)]

SetRow == [from : From, book : Book]

EntryRow == [from : From, book : Book, user : Child, session : From \cup {NoSession}]

PickRow == [from : From, book : Book, child : Child, status : {"proposed", "accepted"}]

PathRow == [from : From, books : SUBSET Book]

ChallengeRow == [from : From, starts : Day, ends : Day]

\* What a request waits for from the language model.
Ask == [of : {"quiz", "discussion"}, book : Book, more : BOOLEAN]

NoAsk == [of |-> "nothing"]

----------------------------------------------------------------------------
(* Requests *)

Began(r) == before' = [before EXCEPT ![r] = {s \in Request : pc[s] = "done"}]

\* Mutant of Ends: what the request has asked for is kept.
EndsAsking(r) == pc' = [pc EXCEPT ![r] = "done"] /\ UNCHANGED ask

Ends(r) ==
  /\ pc' = [pc EXCEPT ![r] = "done"]
  /\ ask' = [ask EXCEPT ![r] = NoAsk]

\* A request that is a single step.
Once(r) == pc[r] = "idle" /\ Began(r) /\ Ends(r) /\ UNCHANGED opened

\* The request waits for the language model; its transaction has only read.
Asks(r, a) ==
  /\ pc[r] = "idle" /\ Began(r)
  /\ pc' = [pc EXCEPT ![r] = "asking"]
  /\ ask' = [ask EXCEPT ![r] = a]
  /\ UNCHANGED <<books, hung, loose, opened>>

\* The model has answered, and the request goes on to its end.
Answered(r, of) == pc[r] = "asking" /\ ask[r].of = of /\ Ends(r) /\ UNCHANGED before

----------------------------------------------------------------------------
(* What the repositories find and add *)

QuestionsOf(b) == {q \in questions : q.book = b}

Name(q) == <<q.from, q.n>>

FindByIds(ids) == {q \in questions : Name(q) \in ids}

SetOf(b) == {s \in sets : s.book = b}

SessionsIn(days) == {s \in sessions : s.day \in days}

\* Mutant of AddSession: a member's next session with a copy changes the first.
AddSessionOver(s) ==
  LET same == {t \in sessions : t.book = s.book /\ t.user = s.user}
  IN  /\ s.book \in books
      /\ sessions' = IF same = {} THEN sessions \cup {s}
                     ELSE (sessions \ same) \cup {[t EXCEPT !.day = s.day] : t \in same}
      /\ UNCHANGED <<books, questions, attempts, sets, entries, picks, loose>>

AddSession(s) ==
  /\ s.book \in books
  /\ sessions' = sessions \cup {s}
  /\ UNCHANGED <<books, questions, attempts, sets, entries, picks, loose>>

\* Mutant of AddQuestions: no foreign key from the question to the copy.
AddQuestionsUnchecked(Q) ==
  /\ questions' = questions \cup Q
  /\ UNCHANGED <<books, sessions, attempts, sets, entries, picks, loose>>

AddQuestions(Q) ==
  /\ \A q \in Q : q.book \in books
  /\ questions' = questions \cup Q
  /\ UNCHANGED <<books, sessions, attempts, sets, entries, picks, loose>>

AddAttempt(a) ==
  /\ a.book \in books
  /\ attempts' = attempts \cup {a}
  /\ UNCHANGED <<books, sessions, questions, sets, entries, picks, loose>>

\* Mutant of SaveSet: owned_book_id is not unique.
SaveSetAlways(s) ==
  /\ s.book \in books
  /\ sets' = sets \cup {s}
  /\ UNCHANGED <<books, sessions, questions, attempts, entries, picks, loose>>

\* merge() of a row with a new identifier: a second set for a copy is a 409.
SaveSet(s) ==
  /\ s.book \in books /\ SetOf(s.book) = {}
  /\ sets' = sets \cup {s}
  /\ UNCHANGED <<books, sessions, questions, attempts, entries, picks, loose>>

\* The session an entry links to may be any that is there, also one of
\* another copy or another member.
AddEntry(e) ==
  /\ e.book \in books
  /\ e.session # NoSession => \E s \in sessions : s.from = e.session
  /\ entries' = entries \cup {e}
  /\ UNCHANGED <<books, sessions, questions, attempts, sets, picks, loose>>

AddPick(p) ==
  /\ p.book \in books
  /\ picks' = picks \cup {p}
  /\ UNCHANGED <<books, sessions, questions, attempts, sets, entries, loose>>

\* A pick that has gone is added anew, but its copy went with it and the
\* foreign key refuses that.
SavePick(p, status) ==
  /\ p \in picks
  /\ picks' = (picks \ {p}) \cup {[p EXCEPT !.status = status]}
  /\ UNCHANGED <<books, sessions, questions, attempts, sets, entries, loose>>

SetPaths(P) == paths' = P /\ UNCHANGED <<books, hung, challenges>>

SetChallenges(C) == challenges' = C /\ UNCHANGED <<books, hung, paths>>

----------------------------------------------------------------------------
(* The use cases *)

\* A child for itself, or a parent for a child. The claim of the copy that
\* goes with the second is a step of OwnedCopyTx.
LogReadingSession(r, b, by, user, d) ==
  /\ by = user \/ by \in Parent
  /\ Once(r)
  /\ AddSession([from |-> r, book |-> b, user |-> user, day |-> d])

\* Mutant of Stored: every quiz is asked for anew.
StoredNever(b, more) == FALSE

\* Questions that are there answer the request, unless it asks for more.
Stored(b, more) == QuestionsOf(b) # {} /\ ~more

GenerateQuiz(r, b, more) ==
  /\ b \in books /\ ~Stored(b, more)
  /\ Asks(r, [of |-> "quiz", book |-> b, more |-> more])

\* One question after another, in one transaction.
StoreQuiz(r, k) ==
  /\ Answered(r, "quiz")
  /\ opened' = IF ask[r].more THEN opened ELSE opened \cup {r}
  /\ AddQuestions({[from |-> r, n |-> n, book |-> ask[r].book, author |-> NoAuthor] : n \in 1..k})

CreateManualQuestion(r, b, by) ==
  /\ Once(r)
  /\ AddQuestions({[from |-> r, n |-> 1, book |-> b, author |-> by]})

\* Mutant of Answerable: the questions may be those of another copy.
AnswerableAnywhere(b, ids) == \A id \in ids : \E q \in FindByIds(ids) : Name(q) = id

\* As many questions as answers have been found, and they are about this copy.
Answerable(b, ids) ==
  /\ \A id \in ids : \E q \in FindByIds(ids) : Name(q) = id
  /\ \A q \in FindByIds(ids) : q.book = b

SubmitAttempt(r, b, child, ids) ==
  /\ ids # {} /\ Answerable(b, ids)
  /\ Once(r)
  /\ AddAttempt([from |-> r, book |-> b, user |-> child, asked |-> ids])

\* The review of an attempt leaves out the questions that are gone.
Reviewed(a) == {id \in a.asked : \E q \in FindByIds(a.asked) : Name(q) = id}

GetDiscussionQuestions(r, b) ==
  /\ b \in books /\ SetOf(b) = {}
  /\ Asks(r, [of |-> "discussion", book |-> b, more |-> FALSE])

StoreDiscussion(r) ==
  /\ Answered(r, "discussion") /\ UNCHANGED opened
  /\ SaveSet([from |-> r, book |-> ask[r].book])

CreateEntry(r, b, child, s) ==
  /\ Once(r)
  /\ AddEntry([from |-> r, book |-> b, user |-> child, session |-> s])

CreatePick(r, b, child) ==
  /\ Once(r)
  /\ AddPick([from |-> r, book |-> b, child |-> child, status |-> "proposed"])

\* Only the child a pick is for accepts it.
AcceptPick(r, p, by) == p.child = by /\ Once(r) /\ SavePick(p, "accepted")

\* A path may name any copies, and book_ids has no foreign key.
CreatePath(r, B) ==
  /\ B # {}
  /\ Once(r)
  /\ SetPaths(paths \cup {[from |-> r, books |-> B]})

DeletePath(r, p) == p \in paths /\ Once(r) /\ SetPaths(paths \ {p})

CreateChallenge(r, s, e) ==
  /\ e >= s
  /\ Once(r)
  /\ SetChallenges(challenges \cup {[from |-> r, starts |-> s, ends |-> e]})

DeleteChallenge(r, c) == c \in challenges /\ Once(r) /\ SetChallenges(challenges \ {c})

\* The sessions of all members that count for a challenge whose metric is
\* sessions or minutes; of books, it counts the reads of OwnedCopyTx.
Progress(c) == SessionsIn({d \in Day : c.starts <= d /\ d <= c.ends})

----------------------------------------------------------------------------
(* A copy is deleted, with what hangs from it: ON DELETE CASCADE *)

Kept(table, b) == {row \in table : row.book # b}

\* Mutant of Unlinked: session_id keeps its value.
UnlinkedNever(table, gone) == table

\* ON DELETE SET NULL
Unlinked(table, gone) ==
  {[e EXCEPT !.session = IF @ \in gone THEN NoSession ELSE @] : e \in table}

DeleteBook(r, b) ==
  /\ b \in books
  /\ Once(r)
  /\ books' = books \ {b}
  /\ sessions' = Kept(sessions, b)
  /\ questions' = Kept(questions, b)
  /\ attempts' = Kept(attempts, b)
  /\ sets' = Kept(sets, b)
  /\ entries' = Unlinked(Kept(entries, b), {s.from : s \in sessions \ Kept(sessions, b)})
  /\ picks' = Kept(picks, b)
  /\ UNCHANGED loose

----------------------------------------------------------------------------
(* The endpoints, and who may call them *)

log_reading_session(r) ==
  \E b \in Book, by, user \in Member, d \in Day : LogReadingSession(r, b, by, user, d)

generate_quiz(r) == \E b \in Book, more \in BOOLEAN : GenerateQuiz(r, b, more)

create_manual_quiz_question(r) ==
  \E b \in Book, by \in Parent : CreateManualQuestion(r, b, by)

submit_quiz_attempt(r) ==
  \E b \in Book, by \in Child, ids \in SUBSET {Name(q) : q \in questions} :
    SubmitAttempt(r, b, by, ids)

get_discussion_questions(r) == \E b \in Book : GetDiscussionQuestions(r, b)

create_journal_entry(r) ==
  \E b \in Book, by \in Child, s \in {t.from : t \in sessions} \cup {NoSession} :
    CreateEntry(r, b, by, s)

create_reading_path(r) == \E B \in SUBSET Book : CreatePath(r, B)

delete_reading_path(r) == \E p \in paths : DeletePath(r, p)

create_mystery_pick(r) == \E b \in Book, u \in Child : CreatePick(r, b, u)

accept_mystery_pick(r) == \E p \in picks, by \in Child : AcceptPick(r, p, by)

create_family_challenge(r) == \E s, e \in Day : CreateChallenge(r, s, e)

delete_family_challenge(r) == \E c \in challenges : DeleteChallenge(r, c)

\* 403, 404, 409, a model that is off or has nothing to say, or a server
\* that stops before the commit.
GiveUp(r) ==
  /\ pc[r] # "done" /\ Ends(r)
  /\ IF pc[r] = "idle" THEN Began(r) ELSE UNCHANGED before
  /\ UNCHANGED <<books, hung, loose, opened>>

----------------------------------------------------------------------------
\* A library as earlier requests left it.
Init ==
  /\ books = Book
  /\ \/ sessions = {} /\ picks = {} /\ questions = {}
     \/ \E b \in Book, u \in Child, d \in Day, k \in Number :
          /\ sessions = {[from |-> Earlier, book |-> b, user |-> u, day |-> d]}
          /\ picks = {[from |-> Earlier, book |-> b, child |-> u, status |-> "proposed"]}
          /\ questions = {[from |-> Earlier, n |-> n, book |-> b, author |-> NoAuthor] : n \in 1..k}
  /\ attempts = {} /\ sets = {} /\ entries = {} /\ paths = {} /\ challenges = {}
  /\ pc = [r \in Request |-> "idle"]
  /\ ask = [r \in Request |-> NoAsk]
  /\ before = [r \in Request |-> {}]
  /\ opened = {}

Step(r) ==
  \/ log_reading_session(r)
  \/ generate_quiz(r) \/ \E k \in Number : StoreQuiz(r, k)
  \/ create_manual_quiz_question(r) \/ submit_quiz_attempt(r)
  \/ get_discussion_questions(r) \/ StoreDiscussion(r)
  \/ create_journal_entry(r)
  \/ create_reading_path(r) \/ delete_reading_path(r)
  \/ create_mystery_pick(r) \/ accept_mystery_pick(r)
  \/ create_family_challenge(r) \/ delete_family_challenge(r)
  \/ \E b \in Book : DeleteBook(r, b)
  \/ GiveUp(r)

Ended == (\A r \in Request : pc[r] = "done") /\ UNCHANGED vars

Next == Ended \/ \E r \in Request : Step(r)

Spec == Init /\ [][Next]_vars

----------------------------------------------------------------------------
(* Properties *)

TypeOK ==
  /\ books \subseteq Book
  /\ sessions \subseteq SessionRow /\ questions \subseteq QuestionRow
  /\ attempts \subseteq AttemptRow /\ sets \subseteq SetRow
  /\ entries \subseteq EntryRow /\ picks \subseteq PickRow
  /\ paths \subseteq PathRow /\ challenges \subseteq ChallengeRow
  /\ pc \in [Request -> {"idle", "asking", "done"}]
  /\ ask \in [Request -> Ask \cup {NoAsk}]
  /\ \A r \in Request : pc[r] = "asking" <=> ask[r] # NoAsk
  /\ before \in [Request -> SUBSET Request] /\ opened \subseteq Request

(* A copy has one set of questions for the dinner table, although two       *)
(* requests may both find none and both ask the model. ("Cached one set per *)
(* book", get_discussion_questions; DiscussionQuestionSetModel)             *)
OneSetPerBook == \A s, t \in sets : s.book = t.book => s = t

(* The review of an attempt shows every question it answered, and only      *)
(* questions about its copy: question_ids has no foreign key, and what      *)
(* keeps them is that questions and attempts go with one copy only.         *)
(* (QuizAttemptModel.question_ids, GetQuizAttemptDetailUseCase)             *)
ReviewsWhole ==
  \A a \in attempts : /\ Reviewed(a) = a.asked
                       /\ \A q \in FindByIds(a.asked) : q.book = a.book

(* An entry links to a session that is there, or to none, also when the     *)
(* session belongs to another copy, which is deleted.                       *)
(* (JournalEntryModel.session_id)                                           *)
LinksHold ==
  \A e \in entries : e.session # NoSession => \E s \in sessions : s.from = e.session

(* A quiz is generated for a copy that has none: a question that was stored *)
(* before a request began, by the model or by a parent, answers that        *)
(* request, and only requests that overlap generate twice. ("returns them   *)
(* as-is rather than regenerating on every call", and "pre-empts AI         *)
(* generation the same way", GenerateQuizQuestionsUseCase)                  *)
QuizGeneratedOnce ==
  \A q \in questions : q.from \in opened =>
    \A p \in QuestionsOf(q.book) : p.from \notin before[q.from] \cup {Earlier}

(* The progress of a family challenge, of sessions or minutes, is never     *)
(* lost but with a copy: it is one number for everyone, whoever reads or    *)
(* deletes something else.                                                  *)
(* (GetFamilyChallengeProgressUseCase)                                      *)
ProgressKept ==
  [][\A c \in challenges \cap challenges' :
       books' = books => Progress(c) \subseteq Progress(c)']_vars

HungIn(table, T) == {<<row.book, <<table, row.from, 1>>>> : row \in T}

\* Every row that hangs from a copy, under its table and its name.
Hung ==
  HungIn("session", sessions) \cup HungIn("attempt", attempts) \cup HungIn("set", sets)
    \cup HungIn("entry", entries) \cup HungIn("pick", picks)
    \cup {<<q.book, <<"question", q.from, q.n>>>> : q \in questions}

Tables == {"session", "question", "attempt", "set", "entry", "pick"}

RowName == Tables \X From \X Number

Spent == Tables \X ({r \in Request : pc[r] = "done"} \cup {Earlier}) \X Number

Hooks == INSTANCE Hanging WITH
  Parent <- Book, Id <- RowName, parents <- books, rows <- Hung, spent <- Spent

(* Rows of six tables hang from the copies, and every interleaving of the   *)
(* requests treats them as foreign keys promise: no row without its copy,   *)
(* no row moved, no name used twice. (owned_book_id of the models)          *)
RowsHang == Hooks!Spec

=============================================================================
