------------------------- MODULE OwnedCopyTx_proofs -------------------------
(***************************************************************************)
(* Theorems about OwnedCopyTx, for any set of copies, members, places and  *)
(* requests.                                                               *)
(*                                                                         *)
(* The first part holds however the requests overlap. Its invariant says   *)
(* of each request what its transaction has still to do and why what it    *)
(* has written fits the tables: a row it wrote is locked, so that nobody   *)
(* else has committed a change to it since; a mark it inserted has kept    *)
(* its copy from being deleted.                                            *)
(***************************************************************************)
EXTENDS OwnedCopyTx, OwnedCopy_proofs

Asked == Reqs \cup AddReqs

\* What save() and Add write: an INSERT has every column, a DELETE is a
\* deletion's.
Sound(w, q) ==
  /\ w \in Write
  /\ w.op = "delete" => w = Delete
  /\ w.op = "delete" <=> q.kind = "delete"
  /\ w.op = "insert" => /\ w.reader \in Member \cup {NoOne}
                        /\ w.status \in Column /\ w.place \in Place

\* What is left to do at each statement.
StageOK(r) ==
  /\ IF InFlight(r) THEN tx[r].req \in Asked ELSE tx[r] = Blank
  /\ pc[r] \in {"mark", "write"} <=> tx[r].ops # <<>>
  /\ pc[r] \in {"save", "flush"} => tx[r].queue # <<>>
  /\ pc[r] = "flush" => Sound(tx[r].plan, tx[r].req)
  /\ pc[r] = "commit" => tx[r].queue = <<>>

\* The rows left to save are rows the request has loaded.
QueueOK(r) ==
  /\ tx[r].queue # <<>> => tx[r].req.kind # "add"
  /\ \A i \in 1 .. Len(tx[r].queue) :
       tx[r].queue[i] \in About(tx[r].req) /\ tx[r].mem[tx[r].queue[i]] \in Row

\* A row the request has written is its own until it ends, and the write fits
\* what is committed.
WritesOK(r) ==
  \A b \in Book : tx[r].rows[b] # NoWrite =>
    /\ lock[b] = r
    /\ b \in About(tx[r].req)
    /\ Sound(tx[r].rows[b], tx[r].req)
    /\ tx[r].rows[b].op = "insert" <=> ~Present(b)

\* A request is about copies that have been created, or creates its copy.
CreatedOK(r) ==
  InFlight(r) =>
    /\ \A b \in About(tx[r].req) :
         Recorded("created", b) \/ (tx[r].req.kind = "add" /\ Inserting(r, b))
    /\ tx[r].req.kind = "add" => \A b \in About(tx[r].req) : <<"created", b>> \in tx[r].log

\* The mark statements: each is about a mark the request was asked to set or
\* to remove, and no two are about the same.
OpsOK(r) ==
  LET t == tx[r]
  IN  /\ \A i \in 1 .. Len(t.ops) :
           <<t.ops[i][2], t.req.targets[1], t.req.by>> \in
             (IF t.ops[i][1] = "remove" THEN Withdrawn(t.req) ELSE Promised(t.req))
      /\ \A i, j \in 1 .. Len(t.ops) : t.ops[i][2] = t.ops[j][2] => i = j
      /\ \A i \in 1 .. Len(t.ops), k \in t.ins \cup t.del : k[1] # t.ops[i][2]
      /\ t.ins \subseteq Promised(t.req)
      /\ t.del \subseteq Withdrawn(t.req)

\* The marks as the request sees them.
Effective(r) == (marks \ tx[r].del) \cup tx[r].ins

\* What an undisturbed request found is still so, and a mark it was asked for
\* is set, or a statement is left to set it.
DueOK(r) ==
  LET t == tx[r]
  IN  InFlight(r) /\ ~t.rival =>
        /\ pc[r] = "write" =>
             (t.found <=> t.ops[1][1] # "log" /\ CurrentMark(t) \in marks)
        /\ \A k \in Promised(t.req) :
             \/ k \in Effective(r)
             \/ \E i \in 1 .. Len(t.ops) : t.ops[i][2] = k[1] /\ t.ops[i][1] # "remove"
        /\ \A k \in Withdrawn(t.req) :
             \/ k \notin Effective(r)
             \/ \E i \in 1 .. Len(t.ops) : t.ops[i][2] = k[1] /\ t.ops[i][1] = "remove"

OwnOK(r) ==
  /\ StageOK(r)
  /\ QueueOK(r)
  /\ WritesOK(r)
  /\ CreatedOK(r)
  /\ OpsOK(r)
  /\ DueOK(r)

\* The copy of a mark that is inserted stays until the request ends.
InsSafe ==
  \A r \in Request : \A k \in tx[r].ins :
    /\ Referable(r, k[2])
    /\ \A s \in Request : s # r => ~Deleting(s, k[2])

RivalsKnown ==
  \A r, s \in Request :
    r # s /\ InFlight(r) /\ InFlight(s) /\ Rivals(tx[r].req, tx[s].req) => tx[r].rival

PresentWasCreated == \A b \in Book : Present(b) => Recorded("created", b)

TxInv ==
  /\ TypeOK
  /\ \A r \in Request : OwnOK(r)
  /\ InsSafe
  /\ RivalsKnown
  /\ PresentWasCreated
  /\ MarksHaveBook

----------------------------------------------------------------------------
(* Requests *)

\* A bulk request names some copies, in some order, each once.
LEMMA OrdersAreOfBooks ==
  ASSUME NEW o \in Orders
  PROVE  /\ o \in Seq(Book) /\ o # <<>> /\ 1 \in DOMAIN o
         /\ \A i, j \in 1 .. Len(o) : o[i] = o[j] => i = j
<1>1. PICK n \in 1 .. Cardinality(Book) :
        /\ o \in [1 .. n -> Book]
        /\ \A i, j \in 1 .. n : o[i] = o[j] => i = j
  BY DEF Orders
<1>2. n \in Nat /\ n >= 1
  OBVIOUS
<1>3. o \in Seq(Book) /\ Len(o) = n
  BY <1>1, <1>2
<1> QED
  BY <1>1, <1>2, <1>3

Single == Kind \ {"move", "delete"}

\* What is known of a request about one copy of one member, and of a bulk one.
IsSingle(q, kind, S) ==
  /\ q \in Req /\ q.kind = kind /\ q.asks \in S /\ q.by \in Member
  /\ \E b \in Book : q.targets = <<b>>

LEMMA SingleReq ==
  ASSUME NEW kind \in Kind, NEW b \in Book, NEW m \in Member, NEW s \in Asks,
         NEW p \in Place, NEW g \in ReadingSessionMode,
         NEW q, q = R(kind, <<b>>, m, s, p, g)
  PROVE  \A S : s \in S => IsSingle(q, kind, S)
<1>1. <<b>> \in Seq(Book)
  OBVIOUS
<1> QED
  BY <1>1 DEF R, Req, IsSingle

LEMMA StatusReqFacts ==
  ASSUME NEW kind \in Single, NEW S \in SUBSET Asks, NEW q \in StatusReqs(kind, S)
  PROVE  IsSingle(q, kind, S)
<1>1. PICK b \in Book, m \in Member, s \in S :
        q = R(kind, <<b>>, m, s, Unplaced, "independent")
  BY DEF StatusReqs
<1> QED
  BY <1>1, SingleReq, UnplacedIsPlace DEF Single, ReadingSessionMode

LEMMA SessionReqFacts ==
  ASSUME NEW q \in SessionReqs
  PROVE  IsSingle(q, "session", {"none"})
<1>1. PICK b \in Book, m \in Member, g \in ReadingSessionMode :
        q = R("session", <<b>>, m, "none", Unplaced, g)
  BY SMTT(30) DEF SessionReqs
<1> QED
  BY <1>1, SingleReq, UnplacedIsPlace DEF Kind, Asks

LEMMA AddReqFacts ==
  ASSUME NEW q \in AddReqs
  PROVE  IsSingle(q, "add", Status)
<1>1. PICK b \in Book, m \in Member, s \in Status, p \in Place :
        q = R("add", <<b>>, m, s, p, "independent")
  BY SMTT(30) DEF AddReqs
<1> QED
  BY <1>1, SingleReq DEF Kind, Asks, ReadingSessionMode

LEMMA BulkReqFacts ==
  ASSUME NEW q \in MoveReqs \cup DeleteReqs
  PROVE  /\ q \in Req /\ q.kind \in {"move", "delete"} /\ q.targets \in Orders
         /\ q.asks = "none"
<1>1. PICK kind \in {"move", "delete"}, o \in Orders, p \in Place :
        q = R(kind, o, NoOne, "none", p, "independent")
  <2>1. CASE q \in MoveReqs
    BY <2>1 DEF MoveReqs
  <2>2. CASE q \in DeleteReqs
    BY <2>2, UnplacedIsPlace DEF DeleteReqs
  <2> QED
    BY <2>1, <2>2
<1>2. o \in Seq(Book)
  BY OrdersAreOfBooks
<1> QED
  BY <1>1, <1>2 DEF R, Req, Kind, Asks, ReadingSessionMode

LEMMA ReqKinds ==
  ASSUME NEW q \in Asked
  PROVE  \/ IsSingle(q, "status", Status) \/ IsSingle(q, "metadata", Asks)
         \/ \E k \in {"read", "unread", "session"} : IsSingle(q, k, {"none"})
         \/ IsSingle(q, "add", Status)
         \/ /\ q \in Req /\ q.kind \in {"move", "delete"} /\ q.targets \in Orders
            /\ q.asks = "none"
<1>1. {"status", "metadata", "read", "unread"} \subseteq Single
  BY DEF Single, Kind
<1>2. Status \subseteq Asks /\ {"none"} \subseteq Asks
  BY DEF Asks
<1>3. /\ q \in StatusReqs("status", Status) => IsSingle(q, "status", Status)
      /\ q \in StatusReqs("metadata", Asks) => IsSingle(q, "metadata", Asks)
      /\ q \in StatusReqs("read", {"none"}) => IsSingle(q, "read", {"none"})
      /\ q \in StatusReqs("unread", {"none"}) => IsSingle(q, "unread", {"none"})
  BY <1>1, <1>2, StatusReqFacts
<1>4. \/ q \in StatusReqs("status", Status) \/ q \in StatusReqs("metadata", Asks)
      \/ q \in StatusReqs("read", {"none"}) \/ q \in StatusReqs("unread", {"none"})
      \/ q \in SessionReqs \/ q \in AddReqs \/ q \in MoveReqs \cup DeleteReqs
  BY DEF Asked, Reqs
<1> QED
  BY <1>3, <1>4, SessionReqFacts, AddReqFacts, BulkReqFacts

LEMMA ReqFacts ==
  ASSUME NEW q \in Asked
  PROVE  /\ q \in Req
         /\ q.targets[1] \in About(q) /\ About(q) \subseteq Book
         /\ q.kind \in Single =>
              /\ q.by \in Member /\ q.targets = <<q.targets[1]>>
              /\ About(q) = {q.targets[1]}
         /\ q.kind \notin Single => q.targets \in Orders
         /\ q.kind \in {"add", "status"} => q.asks \in Status
<1>1. ASSUME NEW kind \in Single, NEW S, IsSingle(q, kind, S)
      PROVE  /\ q \in Req
             /\ q.targets[1] \in About(q) /\ About(q) \subseteq Book
             /\ q.kind = kind /\ q.by \in Member /\ q.targets = <<q.targets[1]>>
             /\ About(q) = {q.targets[1]}
             /\ q.asks \in S
  BY <1>1 DEF IsSingle, About
<1>2. ASSUME q \in Req, q.targets \in Orders
      PROVE  q.targets[1] \in About(q) /\ About(q) \subseteq Book
  <2>1. /\ q.targets \in Seq(Book) /\ 1 \in DOMAIN q.targets
    BY <1>2, OrdersAreOfBooks
  <2> QED
    BY <2>1 DEF About
<1>3. /\ {"status", "metadata", "read", "unread", "session", "add"} \subseteq Single
      /\ "move" \notin Single /\ "delete" \notin Single
  BY DEF Single, Kind
<1>4. CASE IsSingle(q, "status", Status) \/ IsSingle(q, "add", Status)
  BY <1>1, <1>3, <1>4
<1>5. CASE IsSingle(q, "metadata", Asks)
           \/ \E k \in {"read", "unread", "session"} : IsSingle(q, k, {"none"})
  BY <1>1, <1>3, <1>5
<1>6. CASE /\ q \in Req /\ q.kind \in {"move", "delete"} /\ q.targets \in Orders
           /\ q.asks = "none"
  BY <1>2, <1>3, <1>6
<1> QED
  BY <1>4, <1>5, <1>6, ReqKinds

LEMMA AddIsAdd ==
  /\ \A q \in AddReqs : q.kind = "add"
  /\ \A q \in Reqs : q.kind # "add"
BY DEF Reqs, AddReqs, StatusReqs, SessionReqs, MoveReqs, DeleteReqs, R

\* The statements that give m the marks of P on copy b and take those of T.
Op == {"add", "remove", "log"} \X MarkKind

OpsFor(ops, P, T, b, m) ==
  /\ ops \in Seq(Op)
  /\ \A i, j \in 1 .. Len(ops) : ops[i][2] = ops[j][2] => i = j
  /\ \A i \in 1 .. Len(ops) :
       <<ops[i][2], b, m>> \in (IF ops[i][1] = "remove" THEN T ELSE P)
  /\ \A k \in P : \E i \in 1 .. Len(ops) : ops[i][2] = k[1] /\ ops[i][1] # "remove"
  /\ \A k \in T : \E i \in 1 .. Len(ops) : ops[i][2] = k[1] /\ ops[i][1] = "remove"

LEMMA NoOps == ASSUME NEW b, NEW m PROVE OpsFor(<<>>, {}, {}, b, m)
BY DEF OpsFor

LEMMA OneOp ==
  ASSUME NEW b, NEW m, NEW k \in MarkKind
  PROVE  /\ \A o \in {"add", "log"} : OpsFor(<<<<o, k>>>>, {<<k, b, m>>}, {}, b, m)
         /\ OpsFor(<<<<"remove", k>>>>, {}, {<<k, b, m>>}, b, m)
<1>1. ASSUME NEW o \in {"add", "remove", "log"}
      PROVE  /\ <<<<o, k>>>> \in Seq(Op) /\ Len(<<<<o, k>>>>) = 1
             /\ <<<<o, k>>>>[1] = <<o, k>>
  BY DEF Op
<1> QED
  BY <1>1 DEF OpsFor

LEMMA TwoOps ==
  ASSUME NEW b, NEW m, NEW k \in MarkKind, NEW j \in MarkKind, k # j
  PROVE  /\ OpsFor(<<<<"add", k>>, <<"remove", j>>>>, {<<k, b, m>>}, {<<j, b, m>>}, b, m)
         /\ OpsFor(<<<<"remove", k>>, <<"remove", j>>>>, {},
                   {<<k, b, m>>, <<j, b, m>>}, b, m)
<1>1. ASSUME NEW o \in {"add", "remove", "log"}
      PROVE  LET ops == <<<<o, k>>, <<"remove", j>>>>
             IN  /\ ops \in Seq(Op) /\ Len(ops) = 2
                 /\ ops[1] = <<o, k>> /\ ops[2] = <<"remove", j>>
  BY DEF Op
<1>2. ASSUME NEW o \in {"add", "remove"}
      PROVE  LET ops == <<<<o, k>>, <<"remove", j>>>>
                 P == IF o = "remove" THEN {} ELSE {<<k, b, m>>}
                 T == IF o = "remove" THEN {<<k, b, m>>, <<j, b, m>>} ELSE {<<j, b, m>>}
             IN  OpsFor(ops, P, T, b, m)
  <2> DEFINE ops == <<<<o, k>>, <<"remove", j>>>>
  <2>1. /\ ops \in Seq(Op) /\ Len(ops) = 2
        /\ ops[1] = <<o, k>> /\ ops[2] = <<"remove", j>>
    BY <1>1
  <2> HIDE DEF ops
  <2>2. \A i \in 1 .. Len(ops) : i = 1 \/ i = 2
    BY <2>1
  <2>3. 1 \in 1 .. Len(ops) /\ 2 \in 1 .. Len(ops)
    BY <2>1
  <2>4. OpsFor(ops, IF o = "remove" THEN {} ELSE {<<k, b, m>>},
               IF o = "remove" THEN {<<k, b, m>>, <<j, b, m>>} ELSE {<<j, b, m>>}, b, m)
    BY <2>1, <2>2, <2>3 DEF OpsFor
  <2> QED
    BY <2>4 DEF ops
<1> QED
  BY <1>2

\* A request for status s, by m about b.
LEMMA StatusOpsFor ==
  ASSUME NEW b, NEW m, NEW s \in Asks
  PROVE  IF s = "none" THEN OpsFor(StatusOps(s), {}, {}, b, m)
         ELSE OpsFor(StatusOps(s), Gained(b, m, s), Lost(b, m, s), b, m)
<1>1. {"read", "abandoned"} \subseteq MarkKind
  BY DEF MarkKind
<1>2. CASE s = "none"
  BY <1>2, NoOps DEF StatusOps
<1>3. CASE s = "reading"
  <2>1. Gained(b, m, s) = {} /\ Lost(b, m, s) = {<<"abandoned", b, m>>}
    BY <1>3 DEF Gained, Lost
  <2>2. StatusOps(s) = <<<<"remove", "abandoned">>>>
    BY <1>3 DEF StatusOps
  <2>3. OpsFor(<<<<"remove", "abandoned">>>>, {}, {<<"abandoned", b, m>>}, b, m)
    BY <1>1, OneOp
  <2> QED
    BY <1>3, <2>1, <2>2, <2>3
<1>4. CASE s = "read"
  <2>1. Gained(b, m, s) = {<<"read", b, m>>} /\ Lost(b, m, s) = {<<"abandoned", b, m>>}
    BY <1>4 DEF Gained, Lost
  <2>2. StatusOps(s) = <<<<"add", "read">>, <<"remove", "abandoned">>>>
    BY <1>4 DEF StatusOps
  <2>3. OpsFor(<<<<"add", "read">>, <<"remove", "abandoned">>>>,
               {<<"read", b, m>>}, {<<"abandoned", b, m>>}, b, m)
    BY <1>1, TwoOps
  <2> QED
    BY <1>4, <2>1, <2>2, <2>3
<1>5. CASE s = "abandoned"
  <2>1. Gained(b, m, s) = {<<"abandoned", b, m>>} /\ Lost(b, m, s) = {<<"read", b, m>>}
    BY <1>5 DEF Gained, Lost
  <2>2. StatusOps(s) = <<<<"add", "abandoned">>, <<"remove", "read">>>>
    BY <1>5 DEF StatusOps
  <2>3. OpsFor(<<<<"add", "abandoned">>, <<"remove", "read">>>>,
               {<<"abandoned", b, m>>}, {<<"read", b, m>>}, b, m)
    BY <1>1, TwoOps
  <2> QED
    BY <1>5, <2>1, <2>2, <2>3
<1>6. CASE s = "to_read"
  <2>1. Gained(b, m, s) = {} /\ Lost(b, m, s) = {<<"read", b, m>>, <<"abandoned", b, m>>}
    BY <1>6 DEF Gained, Lost
  <2>2. StatusOps(s) = <<<<"remove", "read">>, <<"remove", "abandoned">>>>
    BY <1>6 DEF StatusOps
  <2>3. OpsFor(<<<<"remove", "read">>, <<"remove", "abandoned">>>>,
               {}, {<<"read", b, m>>, <<"abandoned", b, m>>}, b, m)
    BY <1>1, TwoOps
  <2> QED
    BY <1>6, <2>1, <2>2, <2>3
<1> QED
  BY <1>2, <1>3, <1>4, <1>5, <1>6 DEF Asks, Status

LEMMA MarkOpsFor ==
  ASSUME NEW q \in Asked
  PROVE  /\ OpsFor(MarkOps(q), Promised(q), Withdrawn(q), q.targets[1], q.by)
         /\ q.kind \in {"move", "delete"} =>
              MarkOps(q) = <<>> /\ Promised(q) = {} /\ Withdrawn(q) = {}
         /\ Promised(q) \cup Withdrawn(q) \subseteq {<<k, q.targets[1], q.by>> : k \in MarkKind}
<1> DEFINE b == q.targets[1]
           m == q.by
<1>1. {"read", "session", "abandoned"} \subseteq MarkKind
  BY DEF MarkKind
<1>2. CASE q.kind \in {"status", "metadata"}
  <2>1. q.asks \in Asks
    BY ReqFacts DEF Req
  <2>2. MarkOps(q) = StatusOps(q.asks)
    BY <1>2 DEF MarkOps
  <2>3. IF q.asks = "none" THEN Promised(q) = {} /\ Withdrawn(q) = {}
        ELSE Promised(q) = Gained(b, m, q.asks) /\ Withdrawn(q) = Lost(b, m, q.asks)
    BY <1>2 DEF Promised, Withdrawn
  <2>4. Gained(b, m, q.asks) \cup Lost(b, m, q.asks) \subseteq {<<k, b, m>> : k \in MarkKind}
    BY <1>1 DEF Gained, Lost
  <2> QED
    BY <1>2, <2>1, <2>2, <2>3, <2>4, StatusOpsFor
<1>3. CASE q.kind \in {"read", "session"}
  <2>1. \E o \in {"add", "log"} : MarkOps(q) = <<<<o, q.kind>>>>
    BY <1>3 DEF MarkOps
  <2>2. Promised(q) = {<<q.kind, b, m>>} /\ Withdrawn(q) = {}
    BY <1>3 DEF Promised, Withdrawn
  <2>3. q.kind \in MarkKind
    BY <1>1, <1>3
  <2>4. PICK o \in {"add", "log"} : MarkOps(q) = <<<<o, q.kind>>>>
    BY <2>1
  <2>5. OpsFor(<<<<o, q.kind>>>>, {<<q.kind, b, m>>}, {}, b, m)
    BY <2>3, OneOp
  <2> QED
    BY <1>3, <2>2, <2>3, <2>4, <2>5
<1>4. CASE q.kind = "unread"
  <2>1. /\ MarkOps(q) = <<<<"remove", "read">>>>
        /\ Promised(q) = {} /\ Withdrawn(q) = {<<"read", b, m>>}
    BY <1>4 DEF MarkOps, Promised, Withdrawn
  <2> QED
    BY <1>1, <1>4, <2>1, OneOp
<1>5. CASE q.kind = "add" /\ q.asks = "read"
  <2>1. /\ MarkOps(q) = <<<<"add", "read">>>>
        /\ Promised(q) = {<<"read", b, m>>} /\ Withdrawn(q) = {}
    BY <1>5 DEF MarkOps, Promised, Withdrawn
  <2> QED
    BY <1>1, <1>5, <2>1, OneOp
<1>6. CASE q.kind \in {"move", "delete"} \/ (q.kind = "add" /\ q.asks # "read")
  <2>1. MarkOps(q) = <<>> /\ Promised(q) = {} /\ Withdrawn(q) = {}
    BY <1>6 DEF MarkOps, Promised, Withdrawn
  <2> QED
    BY <2>1, NoOps
<1>7. q.kind \in Kind
  BY ReqFacts DEF Req
<1> QED
  BY <1>2, <1>3, <1>4, <1>5, <1>6, <1>7 DEF Kind

----------------------------------------------------------------------------
(* What a step may touch *)

PcSet == {"idle", "mark", "write", "save", "flush", "commit", "done", "failed"}

\* A step sets its own request's state and leaves the others'.
LEMMA SetTx ==
  ASSUME TypeOK, NEW r \in Request, NEW t \in TxState, NEW p \in PcSet,
         tx' = [tx EXCEPT ![r] = t], pc' = [pc EXCEPT ![r] = p]
  PROVE  /\ tx' \in [Request -> TxState] /\ pc' \in [Request -> PcSet]
         /\ tx'[r] = t /\ pc'[r] = p
         /\ \A s \in Request : s # r => tx'[s] = tx[s] /\ pc'[s] = pc[s]
BY DEF TypeOK, PcSet

LEMMA BlankFacts ==
  /\ Blank \in TxState
  /\ Blank.ops = <<>> /\ Blank.queue = <<>> /\ Blank.ins = {} /\ Blank.del = {}
  /\ \A b \in Book : Blank.rows[b] = NoWrite
<1> DEFINE q == R("move", <<>>, NoOne, "none", Unplaced, "independent")
<1>1. q \in Req
  BY UnplacedIsPlace DEF R, Req, Kind, Asks, ReadingSessionMode
<1>2. MarkOps(q) = <<>>
  BY DEF MarkOps, R
<1>3. NoMem \in [Book -> Row \cup {NoBook}] /\ NoRows \in [Book -> Write \cup {NoWrite}]
  BY DEF NoMem, NoRows
<1>4. <<>> \in Seq(Book) /\ <<>> \in Seq({"add", "remove", "log"} \X MarkKind)
  OBVIOUS
<1> HIDE DEF q
<1>5. Begun(q, NoMem, <<>>, {}) \in TxState
  BY <1>1, <1>2, <1>3, <1>4 DEF Begun, TxState
<1>6. Blank = Begun(q, NoMem, <<>>, {})
  BY DEF Blank, q
<1> QED
  BY <1>2, <1>5, <1>6 DEF Begun, NoRows

\* A request that has not begun or has ended has nothing to keep.
LEMMA BlankOK ==
  ASSUME NEW r \in Request, tx'[r] = Blank, ~InFlight(r)'
  PROVE  OwnOK(r)'
<1>1. /\ tx'[r].ops = <<>> /\ tx'[r].queue = <<>>
      /\ tx'[r].ins = {} /\ tx'[r].del = {}
      /\ \A b \in Book : tx'[r].rows[b] = NoWrite
  BY BlankFacts
<1>2. pc'[r] \in {"idle", "done", "failed"}
  BY DEF InFlight
<1>3. StageOK(r)'
  BY <1>1, <1>2 DEF StageOK, InFlight
<1>4. QueueOK(r)' /\ WritesOK(r)'
  BY <1>1 DEF QueueOK, WritesOK
<1>5. OpsOK(r)'
  BY <1>1 DEF OpsOK
<1>6. CreatedOK(r)' /\ DueOK(r)'
  BY DEF CreatedOK, DueOK
<1> QED
  BY <1>3, <1>4, <1>5, <1>6 DEF OwnOK

\* While the tables stand still, the others keep what they have.
LEMMA OtherOK ==
  ASSUME TxInv, UNCHANGED copyVars, NEW s \in Request, pc'[s] = pc[s],
         tx'[s] = tx[s] \/ (InFlight(s) /\ tx'[s] = [tx[s] EXCEPT !.rival = TRUE]),
         \A b \in Book : lock[b] = s => lock'[b] = s
  PROVE  OwnOK(s)'
<1>1. UNCHANGED <<books, marks, history>>
  BY DEF copyVars
<1>2. /\ tx'[s].req = tx[s].req /\ tx'[s].mem = tx[s].mem /\ tx'[s].ops = tx[s].ops
      /\ tx'[s].found = tx[s].found /\ tx'[s].queue = tx[s].queue
      /\ tx'[s].plan = tx[s].plan /\ tx'[s].rows = tx[s].rows
      /\ tx'[s].ins = tx[s].ins /\ tx'[s].del = tx[s].del /\ tx'[s].log = tx[s].log
      /\ tx'[s] = tx[s] \/ tx'[s].rival
  BY DEF TxInv, TypeOK, TxState
<1>3. InFlight(s)' <=> InFlight(s)
  BY DEF InFlight
<1>4. StageOK(s)' /\ QueueOK(s)'
  BY <1>2, <1>3 DEF TxInv, OwnOK, StageOK, QueueOK
<1>5. WritesOK(s)'
  BY <1>1, <1>2 DEF TxInv, OwnOK, WritesOK, Present
<1>6. CreatedOK(s)'
  BY <1>1, <1>2, <1>3 DEF TxInv, OwnOK, CreatedOK, Inserting, Recorded
<1>7. OpsOK(s)'
  BY <1>2 DEF TxInv, OwnOK, OpsOK
<1>8. DueOK(s)'
  BY <1>1, <1>2, <1>3 DEF TxInv, OwnOK, DueOK, Effective, CurrentMark
<1> QED
  BY <1>4, <1>5, <1>6, <1>7, <1>8 DEF OwnOK

LEMMA StepKeeps ==
  ASSUME TxInv, TypeOK', UNCHANGED copyVars, NEW r \in Request,
         \A s \in Request : s # r =>
           /\ pc'[s] = pc[s]
           /\ tx'[s] = tx[s] \/ (InFlight(s) /\ tx'[s] = [tx[s] EXCEPT !.rival = TRUE])
           /\ \A b \in Book : lock[b] = s => lock'[b] = s,
         OwnOK(r)',
         InFlight(r)' => \A s \in Request :
           s # r /\ InFlight(s) /\ Rivals(tx'[r].req, tx[s].req) =>
             tx'[r].rival /\ tx'[s].rival,
         \A k \in tx'[r].ins :
           /\ Referable(r, k[2])'
           /\ \A s \in Request : s # r => ~Deleting(s, k[2]),
         \A b : Deleting(r, b)' =>
           \A s \in Request : s # r => \A k \in tx[s].ins : k[2] # b
  PROVE  TxInv'
<1>1. UNCHANGED <<books, marks, history>>
  BY DEF copyVars
<1>2. \A s \in Request : s # r =>
        /\ tx'[s].req = tx[s].req /\ tx'[s].rows = tx[s].rows /\ tx'[s].ins = tx[s].ins
        /\ tx[s].rival => tx'[s].rival
        /\ InFlight(s)' <=> InFlight(s)
  BY DEF TxInv, TypeOK, TxState, InFlight
<1>3. \A s \in Request : OwnOK(s)'
  BY OtherOK
<1>4. InsSafe'
  <2> SUFFICES ASSUME NEW u \in Request, NEW k \in tx'[u].ins
               PROVE  /\ Referable(u, k[2])'
                      /\ \A s \in Request : s # u => ~Deleting(s, k[2])'
    BY DEF InsSafe
  <2>1. \A s \in Request : s # r => \A b : Deleting(s, b)' <=> Deleting(s, b)
    BY <1>2 DEF Deleting
  <2>2. CASE u = r
    BY <2>1, <2>2
  <2>3. CASE u # r
    <3>1. k \in tx[u].ins
      BY <1>2, <2>3
    <3>2. Referable(u, k[2])'
      BY <1>1, <1>2, <2>3, <3>1 DEF TxInv, InsSafe, Referable, Present, Inserting
    <3>3. \A s \in Request : s # u => ~Deleting(s, k[2])'
      BY <2>1, <2>3, <3>1 DEF TxInv, InsSafe
    <3> QED
      BY <3>2, <3>3
  <2> QED
    BY <2>2, <2>3
<1>5. RivalsKnown'
  <2> SUFFICES ASSUME NEW u \in Request, NEW s \in Request, u # s,
                      InFlight(u)', InFlight(s)', Rivals(tx'[u].req, tx'[s].req)
               PROVE  tx'[u].rival
    BY DEF RivalsKnown
  <2>1. \A p, q : Rivals(p, q) <=> Rivals(q, p)
    BY DEF Rivals
  <2>2. CASE u = r
    BY <1>2, <2>2
  <2>3. CASE s = r
    BY <1>2, <2>1, <2>3
  <2>4. CASE u # r /\ s # r
    BY <1>2, <2>4 DEF TxInv, RivalsKnown
  <2> QED
    BY <2>2, <2>3, <2>4
<1>6. PresentWasCreated' /\ MarksHaveBook'
  BY <1>1 DEF TxInv, PresentWasCreated, MarksHaveBook, Present, Recorded
<1> QED
  BY <1>3, <1>4, <1>5, <1>6 DEF TxInv

\* A request goes on with its transaction.
LEMMA GoesOn ==
  ASSUME TxInv, NEW r \in Request, InFlight(r), tx'[r].req = tx[r].req,
         tx'[r].rival = tx[r].rival,
         \A s \in Request : s # r => tx'[s] = tx[s]
  PROVE  \A s \in Request :
           s # r /\ InFlight(s) /\ Rivals(tx'[r].req, tx[s].req) =>
             tx'[r].rival /\ tx'[s].rival
<1>1. \A p, q : Rivals(p, q) <=> Rivals(q, p)
  BY DEF Rivals
<1> QED
  BY <1>1 DEF TxInv, RivalsKnown

----------------------------------------------------------------------------
(* The steps, one lemma for each kind of statement *)

LEMMA EndTypes ==
  ASSUME TypeOK, NEW r \in Request, NEW outcome \in {"done", "failed"}, End(r, outcome)
  PROVE  /\ tx' \in [Request -> TxState] /\ pc' \in [Request -> PcSet]
         /\ lock' \in [Book -> Request \cup {Free}]
         /\ tx'[r] = Blank /\ ~InFlight(r)' /\ pc'[r] = outcome
         /\ \A s \in Request : s # r =>
              /\ tx'[s] = tx[s] /\ pc'[s] = pc[s]
              /\ \A b \in Book : lock[b] = s => lock'[b] = s
<1>1. tx' = [tx EXCEPT ![r] = Blank] /\ pc' = [pc EXCEPT ![r] = outcome]
  BY DEF End
<1>2. /\ tx' \in [Request -> TxState] /\ pc' \in [Request -> PcSet]
      /\ tx'[r] = Blank /\ pc'[r] = outcome
      /\ \A s \in Request : s # r => tx'[s] = tx[s] /\ pc'[s] = pc[s]
  BY <1>1, BlankFacts, SetTx DEF PcSet
<1>3. lock' = [b \in Book |-> IF lock[b] = r THEN Free ELSE lock[b]]
  BY DEF End
<1> QED
  BY <1>2, <1>3 DEF TypeOK, InFlight

LEMMA FailKeeps ==
  ASSUME TxInv, NEW r \in Request, Fail(r)
  PROVE  TxInv'
<1>1. End(r, "failed") /\ UNCHANGED copyVars
  BY DEF Fail
<1>2. /\ tx' \in [Request -> TxState] /\ pc' \in [Request -> PcSet]
      /\ lock' \in [Book -> Request \cup {Free}]
      /\ tx'[r] = Blank /\ ~InFlight(r)'
      /\ \A s \in Request : s # r =>
           /\ tx'[s] = tx[s] /\ pc'[s] = pc[s]
           /\ \A b \in Book : lock[b] = s => lock'[b] = s
  BY <1>1, EndTypes DEF TxInv
<1>3. TypeOK'
  BY <1>1, <1>2 DEF TxInv, TypeOK, CopyTypeOK, copyVars, PcSet
<1>4. OwnOK(r)'
  BY <1>2, BlankOK
<1>5. tx'[r].ins = {} /\ \A b \in Book : tx'[r].rows[b] = NoWrite
  BY <1>2, BlankFacts
<1>6. \A b : Deleting(r, b)' => \A s \in Request : s # r => \A k \in tx[s].ins : k[2] # b
  <2> SUFFICES ASSUME NEW b, Deleting(r, b)', NEW s \in Request, s # r,
                      NEW k \in tx[s].ins
               PROVE  k[2] # b
    OBVIOUS
  <2>1. k \in Mark
    BY DEF TxInv, TypeOK, TxState
  <2>2. k[2] \in Book
    BY <2>1 DEF Mark
  <2> QED
    BY <1>5, <2>2 DEF Deleting
<1> QED
  BY <1>1, <1>2, <1>3, <1>4, <1>5, <1>6, StepKeeps

LEMMA OnwardFacts ==
  ASSUME NEW ops, NEW queue
  PROVE  /\ Onward(ops, queue) \in {"mark", "save", "commit"}
         /\ Onward(ops, queue) = "mark" <=> ops # <<>>
         /\ Onward(ops, queue) = "save" => queue # <<>>
         /\ Onward(ops, queue) = "commit" => queue = <<>>
BY DEF Onward

\* A request's own step that writes no row.
LEMMA MarkStepKeeps ==
  ASSUME TxInv, NEW r \in Request, InFlight(r), UNCHANGED <<copyVars, lock>>,
         NEW t \in TxState, NEW p \in PcSet,
         tx' = [tx EXCEPT ![r] = t], pc' = [pc EXCEPT ![r] = p],
         p \in {"mark", "write", "save", "flush", "commit"},
         t.req = tx[r].req, t.mem = tx[r].mem, t.queue = tx[r].queue,
         t.rows = tx[r].rows, t.log = tx[r].log, t.rival = tx[r].rival,
         StageOK(r)', OpsOK(r)', DueOK(r)',
         \A k \in t.ins :
           /\ Referable(r, k[2])
           /\ \A s \in Request : s # r => ~Deleting(s, k[2])
  PROVE  TxInv'
<1>1. /\ tx' \in [Request -> TxState] /\ pc' \in [Request -> PcSet]
      /\ tx'[r] = t /\ pc'[r] = p
      /\ \A s \in Request : s # r => tx'[s] = tx[s] /\ pc'[s] = pc[s]
  BY SetTx DEF TxInv
<1>2. UNCHANGED <<books, marks, history, lock>>
  BY DEF copyVars
<1>3. TypeOK'
  BY <1>1, <1>2 DEF TxInv, TypeOK, CopyTypeOK, PcSet
<1>4. InFlight(r)'
  BY <1>1 DEF InFlight
<1>5. QueueOK(r)' /\ WritesOK(r)' /\ CreatedOK(r)'
  BY <1>1, <1>2 DEF TxInv, OwnOK, QueueOK, WritesOK, CreatedOK, Present, Recorded,
                    Inserting
<1>6. OwnOK(r)'
  BY <1>5 DEF OwnOK
<1>7. \A s \in Request : s # r /\ InFlight(s) /\ Rivals(tx'[r].req, tx[s].req) =>
        tx'[r].rival /\ tx'[s].rival
  BY <1>1, GoesOn
<1>8. \A k \in tx'[r].ins :
        /\ Referable(r, k[2])'
        /\ \A s \in Request : s # r => ~Deleting(s, k[2])
  BY <1>1, <1>2 DEF Referable, Present, Inserting
<1>9. \A b : Deleting(r, b)' => \A s \in Request : s # r => \A k \in tx[s].ins : k[2] # b
  <2>1. \A b : Deleting(r, b)' <=> Deleting(r, b)
    BY <1>1 DEF Deleting
  <2> QED
    BY <2>1 DEF TxInv, InsSafe
<1> QED
  BY <1>1, <1>2, <1>3, <1>6, <1>7, <1>8, <1>9, StepKeeps

LEMMA LookMarkKeeps ==
  ASSUME TxInv, NEW r \in Request, LookMark(r)
  PROVE  TxInv'
<1> DEFINE found == /\ tx[r].ops[1][1] # "log"
                    /\ CurrentMark(tx[r]) \in (marks \ tx[r].del) \cup tx[r].ins
           t == [tx[r] EXCEPT !.found = found]
<1>1. /\ pc[r] = "mark"
      /\ tx' = [tx EXCEPT ![r].found = found]
      /\ pc' = [pc EXCEPT ![r] = "write"]
      /\ UNCHANGED <<copyVars, lock>>
  BY DEF LookMark
<1>2. tx' = [tx EXCEPT ![r] = t]
  BY <1>1
<1>3. found \in BOOLEAN
  OBVIOUS
<1>4. (found => tx[r].ops[1][1] # "log") /\ (found <=> tx[r].ops[1][1] # "log" /\ CurrentMark(tx[r]) \in Effective(r))
  BY DEF Effective
<1> HIDE DEF found
<1>5. /\ t \in TxState
      /\ t.req = tx[r].req /\ t.mem = tx[r].mem /\ t.queue = tx[r].queue
      /\ t.rows = tx[r].rows /\ t.log = tx[r].log /\ t.rival = tx[r].rival
      /\ t.ops = tx[r].ops /\ t.ins = tx[r].ins /\ t.del = tx[r].del
      /\ t.found = found
  <2>1. tx[r] \in TxState
    BY DEF TxInv, TypeOK
  <2> QED
    BY <1>3, <2>1 DEF TxState
<1> HIDE DEF t
<1>6. tx'[r] = t /\ pc'[r] = "write"
  BY <1>1, <1>2 DEF TxInv, TypeOK
<1>7. InFlight(r)
  BY <1>1 DEF InFlight
<1>8. StageOK(r)'
  BY <1>1, <1>5, <1>6, <1>7 DEF TxInv, OwnOK, StageOK, InFlight
<1>9. OpsOK(r)'
  BY <1>5, <1>6 DEF TxInv, OwnOK, OpsOK
<1>10. CurrentMark(tx[r]) \notin tx[r].ins \cup tx[r].del
  <2>1. tx[r].ops \in Seq({"add", "remove", "log"} \X MarkKind) /\ tx[r].ops # <<>>
    BY <1>1 DEF TxInv, TypeOK, TxState, OwnOK, StageOK
  <2>2. 1 \in 1 .. Len(tx[r].ops)
    BY <2>1
  <2>3. \A k \in tx[r].ins \cup tx[r].del : k[1] # tx[r].ops[1][2]
    BY <2>2 DEF TxInv, OwnOK, OpsOK
  <2>4. CurrentMark(tx[r])[1] = tx[r].ops[1][2]
    BY DEF CurrentMark
  <2> QED
    BY <2>3, <2>4
<1>11. DueOK(r)'
  <2>1. UNCHANGED marks
    BY <1>1 DEF copyVars
  <2>2. found <=> tx[r].ops[1][1] # "log" /\ CurrentMark(tx[r]) \in marks
    BY <1>4, <1>10 DEF Effective
  <2>3. CurrentMark(t) = CurrentMark(tx[r])
    BY <1>5 DEF CurrentMark
  <2> QED
    BY <1>5, <1>6, <1>7, <2>1, <2>2, <2>3 DEF TxInv, OwnOK, DueOK, Effective
<1>12. \A k \in t.ins :
         /\ Referable(r, k[2])
         /\ \A s \in Request : s # r => ~Deleting(s, k[2])
  BY <1>5 DEF TxInv, InsSafe
<1> QED
  BY <1>1, <1>2, <1>5, <1>7, <1>8, <1>9, <1>11, <1>12, MarkStepKeeps DEF PcSet

LEMMA TailFacts ==
  ASSUME NEW S, NEW q \in Seq(S), q # <<>>
  PROVE  /\ Tail(q) \in Seq(S) /\ 1 \in 1 .. Len(q) /\ q[1] \in S
         /\ \A i \in 1 .. Len(Tail(q)) : i + 1 \in 1 .. Len(q) /\ Tail(q)[i] = q[i + 1]
         /\ \A i \in 1 .. Len(q) :
              i = 1 \/ (i - 1 \in 1 .. Len(Tail(q)) /\ Tail(q)[i - 1] = q[i])
OBVIOUS

\* What is left of the mark statements after the first.
LEMMA RestOps ==
  ASSUME NEW ops \in Seq(Op), ops # <<>>,
         \A i, j \in 1 .. Len(ops) : ops[i][2] = ops[j][2] => i = j
  PROVE  /\ Tail(ops) \in Seq(Op) /\ 1 \in 1 .. Len(ops) /\ ops[1] \in Op
         /\ \A i \in 1 .. Len(Tail(ops)) :
              /\ Tail(ops)[i][2] # ops[1][2]
              /\ \E j \in 1 .. Len(ops) : Tail(ops)[i] = ops[j]
         /\ \A i \in 1 .. Len(ops) :
              i = 1 \/ \E j \in 1 .. Len(Tail(ops)) : Tail(ops)[j] = ops[i]
         /\ \A i, j \in 1 .. Len(Tail(ops)) :
              Tail(ops)[i][2] = Tail(ops)[j][2] => i = j
<1> DEFINE rest == Tail(ops)
<1>1. /\ rest \in Seq(Op) /\ 1 \in 1 .. Len(ops) /\ ops[1] \in Op
      /\ \A i \in 1 .. Len(rest) : i + 1 \in 1 .. Len(ops) /\ rest[i] = ops[i + 1]
      /\ \A i \in 1 .. Len(ops) :
           i = 1 \/ (i - 1 \in 1 .. Len(rest) /\ rest[i - 1] = ops[i])
  BY TailFacts
<1> HIDE DEF rest
<1>2. \A i \in 1 .. Len(rest) : i + 1 # 1
  OBVIOUS
<1>3. ASSUME NEW i \in 1 .. Len(rest), NEW j \in 1 .. Len(rest), rest[i][2] = rest[j][2]
      PROVE  i = j
  <2>1. i + 1 = j + 1
    BY <1>1, <1>3
  <2> QED
    BY <2>1
<1>4. \A i \in 1 .. Len(rest) :
        /\ rest[i][2] # ops[1][2]
        /\ \E j \in 1 .. Len(ops) : rest[i] = ops[j]
  BY <1>1, <1>2
<1>5. \A i \in 1 .. Len(ops) : i = 1 \/ \E j \in 1 .. Len(rest) : rest[j] = ops[i]
  BY <1>1
<1> QED
  BY <1>1, <1>3, <1>4, <1>5 DEF rest

\* No request promises a mark and withdraws it.
LEMMA PromisesApart == ASSUME NEW q PROVE Promised(q) \cap Withdrawn(q) = {}
BY DEF Promised, Withdrawn, Gained, Lost

\* A statement on a mark table that did not fail.
LEMMA WroteMarkKeeps ==
  ASSUME TxInv, NEW r \in Request, pc[r] = "write",
         NEW k, k = CurrentMark(tx[r]), NEW op, op = tx[r].ops[1][1],
         NEW ins, NEW del,
         MarkDone(r, ins, del),
         ins = tx[r].ins \/ (op # "remove" /\ ins = tx[r].ins \cup {k}),
         del = tx[r].del \/ (op = "remove" /\ del = tx[r].del \cup {k}),
         k \in ins => /\ Referable(r, k[2])
                      /\ \A s \in Request : s # r => ~Deleting(s, k[2]),
         ~tx[r].rival => (k \in (marks \ del) \cup ins <=> op # "remove")
  PROVE  TxInv'
<1> DEFINE rest == Tail(tx[r].ops)
           t == [tx[r] EXCEPT !.ops = rest, !.found = FALSE, !.ins = ins, !.del = del]
           q == tx[r].req
           p == Onward(rest, tx[r].queue)
<1>0. /\ tx' = [tx EXCEPT ![r] = t] /\ pc' = [pc EXCEPT ![r] = p]
      /\ UNCHANGED <<copyVars, lock>>
  BY DEF MarkDone
<1>1. /\ InFlight(r) /\ q \in Asked /\ OpsOK(r) /\ DueOK(r)
      /\ tx[r].ops # <<>> /\ tx[r].ops \in Seq(Op)
      /\ tx[r].ins \in SUBSET Mark /\ tx[r].del \in SUBSET Mark
  BY DEF TxInv, TypeOK, TxState, OwnOK, StageOK, InFlight, Op
<1>2. /\ rest \in Seq(Op) /\ 1 \in 1 .. Len(tx[r].ops) /\ tx[r].ops[1] \in Op
      /\ \A i \in 1 .. Len(rest) :
           /\ rest[i][2] # tx[r].ops[1][2]
           /\ \E j \in 1 .. Len(tx[r].ops) : rest[i] = tx[r].ops[j]
      /\ \A i \in 1 .. Len(tx[r].ops) :
           i = 1 \/ \E j \in 1 .. Len(rest) : rest[j] = tx[r].ops[i]
      /\ \A i, j \in 1 .. Len(rest) : rest[i][2] = rest[j][2] => i = j
  <2>1. \A i, j \in 1 .. Len(tx[r].ops) : tx[r].ops[i][2] = tx[r].ops[j][2] => i = j
    BY <1>1 DEF OpsOK
  <2> HIDE DEF rest
  <2> QED
    BY <1>1, <2>1, RestOps DEF rest
<1>3. /\ k[1] = tx[r].ops[1][2] /\ k = <<k[1], q.targets[1], q.by>>
      /\ k \in (IF op = "remove" THEN Withdrawn(q) ELSE Promised(q))
  BY <1>1, <1>2 DEF OpsOK, CurrentMark
<1>4. k \in Mark
  <2>1. /\ q.targets[1] \in Book /\ k[1] \in MarkKind
    BY <1>1, <1>2, <1>3, ReqFacts DEF Op
  <2>2. q.by \in Member
    <3>1. Promised(q) # {} \/ Withdrawn(q) # {}
      BY <1>3
    <3>2. q.kind \notin {"move", "delete"} /\ q.kind \in Kind
      BY <1>1, <3>1, MarkOpsFor, ReqFacts DEF Req
    <3> QED
      BY <1>1, <3>2, ReqFacts DEF Single
  <2> QED
    BY <1>3, <2>1, <2>2 DEF Mark
<1>5. /\ ins \in SUBSET Mark /\ del \in SUBSET Mark
      /\ ins \subseteq tx[r].ins \cup {k} /\ tx[r].ins \subseteq ins
      /\ del \subseteq tx[r].del \cup {k} /\ tx[r].del \subseteq del
      /\ ins \subseteq Promised(q) /\ del \subseteq Withdrawn(q)
  BY <1>1, <1>3, <1>4 DEF OpsOK
<1>6. \A i \in 1 .. Len(rest) : rest[i][2] # k[1]
  BY <1>2, <1>3
<1>7. /\ p \in {"mark", "save", "commit"}
      /\ p = "mark" <=> rest # <<>>
      /\ p = "save" => tx[r].queue # <<>>
      /\ p = "commit" => tx[r].queue = <<>>
  BY OnwardFacts
<1> HIDE DEF rest, p
<1>8. /\ t \in TxState
      /\ t.req = q /\ t.mem = tx[r].mem /\ t.queue = tx[r].queue
      /\ t.rows = tx[r].rows /\ t.log = tx[r].log /\ t.rival = tx[r].rival
      /\ t.ops = rest /\ t.ins = ins /\ t.del = del /\ t.found = FALSE
  <2>1. tx[r] \in TxState
    BY DEF TxInv, TypeOK
  <2> QED
    BY <1>2, <1>5, <2>1 DEF TxState, Op
<1> HIDE DEF t
<1>9. tx' = [tx EXCEPT ![r] = t] /\ pc' = [pc EXCEPT ![r] = p]
  BY <1>0
<1>10. tx'[r] = t /\ pc'[r] = p
  BY <1>7, <1>9 DEF TxInv, TypeOK
<1>11. StageOK(r)'
  BY <1>1, <1>7, <1>8, <1>10 DEF StageOK, InFlight
<1>12. OpsOK(r)'
  <2>1. \A i \in 1 .. Len(tx[r].ops) :
          /\ <<tx[r].ops[i][2], q.targets[1], q.by>> \in
               (IF tx[r].ops[i][1] = "remove" THEN Withdrawn(q) ELSE Promised(q))
          /\ \A j \in tx[r].ins \cup tx[r].del : j[1] # tx[r].ops[i][2]
    BY <1>1 DEF OpsOK
  <2>2. ASSUME NEW i \in 1 .. Len(rest)
        PROVE  /\ <<rest[i][2], q.targets[1], q.by>> \in
                    (IF rest[i][1] = "remove" THEN Withdrawn(q) ELSE Promised(q))
               /\ \A j \in ins \cup del : j[1] # rest[i][2]
    <3>1. PICK j \in 1 .. Len(tx[r].ops) : rest[i] = tx[r].ops[j]
      BY <1>2
    <3> QED
      BY <1>5, <1>6, <2>1, <3>1
  <2>3. /\ tx'[r].req = q /\ tx'[r].ops = rest /\ tx'[r].ins = ins /\ tx'[r].del = del
    BY <1>8, <1>10
  <2>4. ins \subseteq Promised(q) /\ del \subseteq Withdrawn(q)
    BY <1>5
  <2>5. \A i, j \in 1 .. Len(rest) : rest[i][2] = rest[j][2] => i = j
    BY <1>2
  <2> QED
    BY <2>2, <2>3, <2>4, <2>5 DEF OpsOK
<1>13. DueOK(r)'
  <2> SUFFICES ASSUME ~tx[r].rival
               PROVE  DueOK(r)'
    BY <1>8, <1>10 DEF DueOK
  <2> DEFINE eff == (marks \ del) \cup ins
  <2>1. /\ \A j \in Promised(q) :
             \/ j \in Effective(r)
             \/ \E i \in 1 .. Len(tx[r].ops) : tx[r].ops[i][2] = j[1] /\ tx[r].ops[i][1] # "remove"
        /\ \A j \in Withdrawn(q) :
             \/ j \notin Effective(r)
             \/ \E i \in 1 .. Len(tx[r].ops) : tx[r].ops[i][2] = j[1] /\ tx[r].ops[i][1] = "remove"
    BY <1>1 DEF DueOK
  <2>2. \A j : j # k => (j \in eff <=> j \in Effective(r))
    BY <1>5 DEF Effective
  <2>3. \A j \in Promised(q) \cup Withdrawn(q) : j # k => j[1] # k[1]
    BY <1>1, <1>3, MarkOpsFor
  <2>4. k \in eff <=> op # "remove"
    OBVIOUS
  <2> HIDE DEF eff
  <2>5. \A j \in Promised(q) :
          \/ j \in eff
          \/ \E i \in 1 .. Len(rest) : rest[i][2] = j[1] /\ rest[i][1] # "remove"
    <3> SUFFICES ASSUME NEW j \in Promised(q), j \notin eff
                 PROVE  \E i \in 1 .. Len(rest) : rest[i][2] = j[1] /\ rest[i][1] # "remove"
      OBVIOUS
    <3>1. j # k
      BY <1>3, <2>4, PromisesApart
    <3>2. PICK i \in 1 .. Len(tx[r].ops) : tx[r].ops[i][2] = j[1] /\ tx[r].ops[i][1] # "remove"
      BY <2>1, <2>2, <3>1
    <3>3. i # 1
      BY <1>3, <2>3, <3>1, <3>2
    <3>4. PICK l \in 1 .. Len(rest) : rest[l] = tx[r].ops[i]
      BY <1>2, <3>3
    <3> QED
      BY <3>2, <3>4
  <2>6. \A j \in Withdrawn(q) :
          \/ j \notin eff
          \/ \E i \in 1 .. Len(rest) : rest[i][2] = j[1] /\ rest[i][1] = "remove"
    <3> SUFFICES ASSUME NEW j \in Withdrawn(q), j \in eff
                 PROVE  \E i \in 1 .. Len(rest) : rest[i][2] = j[1] /\ rest[i][1] = "remove"
      OBVIOUS
    <3>1. j # k
      BY <1>3, <2>4, PromisesApart
    <3>2. PICK i \in 1 .. Len(tx[r].ops) : tx[r].ops[i][2] = j[1] /\ tx[r].ops[i][1] = "remove"
      BY <2>1, <2>2, <3>1
    <3>3. i # 1
      BY <1>3, <2>3, <3>1, <3>2
    <3>4. PICK l \in 1 .. Len(rest) : rest[l] = tx[r].ops[i]
      BY <1>2, <3>3
    <3> QED
      BY <3>2, <3>4
  <2>7. UNCHANGED marks
    BY <1>0 DEF copyVars
  <2>8. Effective(r)' = eff
    BY <1>8, <1>10, <2>7 DEF Effective, eff
  <2> QED
    BY <1>7, <1>8, <1>10, <2>5, <2>6, <2>8 DEF DueOK
<1>14. \A j \in t.ins :
         /\ Referable(r, j[2])
         /\ \A s \in Request : s # r => ~Deleting(s, j[2])
  BY <1>5, <1>8 DEF TxInv, InsSafe
<1>15. p \in PcSet /\ p \in {"mark", "write", "save", "flush", "commit"}
  BY <1>7 DEF PcSet
<1> QED
  BY <1>0, <1>1, <1>8, <1>9, <1>11, <1>12, <1>13, <1>14, <1>15, MarkStepKeeps

LEMMA WriteMarkKeeps ==
  ASSUME TxInv, NEW r \in Request, WriteMark(r)
  PROVE  TxInv'
<1> DEFINE t == tx[r]
           k == CurrentMark(t)
           op == t.ops[1][1]
<1>1. pc[r] = "write" /\ ~Blocked(r)
  BY DEF WriteMark
<1>2. \/ op # "remove" /\ ~t.found /\ InsertFails(r, op, k) /\ Fail(r)
      \/ \E ins, del :
           /\ \/ op = "remove" /\ t.found /\ k \in marks
                /\ ins = t.ins /\ del = t.del \cup {k}
              \/ op # "remove" /\ ~t.found /\ ~InsertFails(r, op, k)
                /\ ins = t.ins \cup {k} /\ del = t.del
              \/ /\ op = "remove" => ~t.found \/ k \notin marks
                 /\ op # "remove" => t.found
                 /\ ins = t.ins /\ del = t.del
           /\ MarkDone(r, ins, del)
  BY DEF WriteMark
<1>3. k \notin t.ins \cup t.del
  <2>1. t.ops # <<>> /\ t.ops \in Seq(Op)
    BY <1>1 DEF TxInv, TypeOK, TxState, OwnOK, StageOK, Op
  <2>2. 1 \in 1 .. Len(t.ops)
    BY <2>1
  <2>3. k[1] = t.ops[1][2]
    BY DEF CurrentMark
  <2> QED
    BY <2>2, <2>3 DEF TxInv, OwnOK, OpsOK
<1>4. ~t.rival => (t.found <=> op # "log" /\ k \in marks)
  BY <1>1 DEF TxInv, OwnOK, DueOK, InFlight
<1>5. op \in {"add", "remove", "log"}
  <2>1. t.ops # <<>> /\ t.ops \in Seq(Op)
    BY <1>1 DEF TxInv, TypeOK, TxState, OwnOK, StageOK, Op
  <2> QED
    BY <2>1, TailFacts DEF Op
<1>6. op # "remove" /\ ~t.found => \A s \in Request : s # r => ~Deleting(s, k[2])
  BY <1>1, <1>5 DEF Blocked, BlockedBy
<1>7. ~InsertFails(r, op, k) => Referable(r, k[2])
  BY DEF InsertFails
<1>8. CASE op # "remove" /\ ~t.found /\ InsertFails(r, op, k) /\ Fail(r)
  BY <1>8, FailKeeps
<1>9. ASSUME NEW ins, NEW del,
             \/ op = "remove" /\ t.found /\ k \in marks
               /\ ins = t.ins /\ del = t.del \cup {k}
             \/ op # "remove" /\ ~t.found /\ ~InsertFails(r, op, k)
               /\ ins = t.ins \cup {k} /\ del = t.del
             \/ /\ op = "remove" => ~t.found \/ k \notin marks
                /\ op # "remove" => t.found
                /\ ins = t.ins /\ del = t.del,
             MarkDone(r, ins, del)
      PROVE  TxInv'
  <2>2. k \in ins => /\ Referable(r, k[2])
                     /\ \A s \in Request : s # r => ~Deleting(s, k[2])
    BY <1>3, <1>6, <1>7, <1>9
  <2>3. ~t.rival => (k \in (marks \ del) \cup ins <=> op # "remove")
    BY <1>3, <1>4, <1>9
  <2> QED
    BY <1>1, <1>9, <2>2, <2>3, WroteMarkKeeps
<1> QED
  BY <1>2, <1>8, <1>9

----------------------------------------------------------------------------
(* Saving rows *)

\* What save() decides on fits the request.
LEMMA PlansAreSound ==
  ASSUME NEW q, NEW new \in Row, NEW old \in Row
  PROVE  /\ q.kind = "delete" => Sound(Delete, q)
         /\ q.kind # "delete" => Sound(Update(new, old), q) /\ Sound(Insert(new), q)
<1>1. \A op \in {"insert", "update", "delete"}, m \in Member \cup {NoOne, Keep},
         s \in Column \cup {Keep}, p \in Place \cup {Keep} :
        /\ W(op, m, s, p) \in Write
        /\ W(op, m, s, p).op = op /\ W(op, m, s, p).reader = m
        /\ W(op, m, s, p).status = s /\ W(op, m, s, p).place = p
  BY DEF W, Write
<1>2. /\ new.reader \in Member \cup {NoOne} /\ old.reader \in Member \cup {NoOne}
      /\ new.status \in Column /\ old.status \in Column
      /\ new.place \in Place /\ old.place \in Place
  BY DEF Row
<1>3. Delete \in Write /\ Delete.op = "delete"
  BY <1>1 DEF Delete
<1>4. /\ Insert(new) \in Write /\ Insert(new).op = "insert"
      /\ Insert(new).reader = new.reader /\ Insert(new).status = new.status
      /\ Insert(new).place = new.place
  BY <1>1, <1>2 DEF Insert
<1>5. Update(new, old) \in Write /\ Update(new, old).op = "update"
  <2>1. \A x, y : Diff(x, y) \in {x, Keep}
    BY DEF Diff
  <2>2. PICK m, s, p : /\ m = Diff(new.reader, old.reader)
                       /\ s = Diff(new.status, old.status)
                       /\ p = Diff(new.place, old.place)
    OBVIOUS
  <2>3. m \in Member \cup {NoOne, Keep} /\ s \in Column \cup {Keep} /\ p \in Place \cup {Keep}
    BY <1>2, <2>1, <2>2
  <2>4. Update(new, old) = W("update", m, s, p)
    BY <2>2 DEF Update
  <2> QED
    BY <1>1, <2>3, <2>4
<1> QED
  BY <1>2, <1>3, <1>4, <1>5 DEF Sound

\* The row at the head of the queue.
LEMMA QueueHead ==
  ASSUME TxInv, NEW r \in Request, tx[r].queue # <<>>
  PROVE  /\ tx[r].queue[1] \in Book /\ tx[r].queue[1] \in About(tx[r].req)
         /\ tx[r].mem[tx[r].queue[1]] \in Row
         /\ tx[r].req.kind # "add"
         /\ Tail(tx[r].queue) \in Seq(Book)
         /\ \A i \in 1 .. Len(Tail(tx[r].queue)) :
              /\ Tail(tx[r].queue)[i] \in About(tx[r].req)
              /\ tx[r].mem[Tail(tx[r].queue)[i]] \in Row
<1> DEFINE queue == tx[r].queue
           rest == Tail(queue)
<1>1. queue \in Seq(Book) /\ queue # <<>>
  BY DEF TxInv, TypeOK, TxState
<1>2. QueueOK(r)
  BY DEF TxInv, OwnOK
<1>3. /\ rest \in Seq(Book) /\ 1 \in 1 .. Len(queue) /\ queue[1] \in Book
      /\ \A i \in 1 .. Len(rest) : i + 1 \in 1 .. Len(queue) /\ rest[i] = queue[i + 1]
  BY <1>1, TailFacts
<1> HIDE DEF rest
<1>4. \A i \in 1 .. Len(queue) : queue[i] \in About(tx[r].req) /\ tx[r].mem[queue[i]] \in Row
  BY <1>2 DEF QueueOK
<1> QED
  BY <1>1, <1>2, <1>3, <1>4 DEF QueueOK, rest

LEMMA RereadKeeps ==
  ASSUME TxInv, NEW r \in Request, Reread(r)
  PROVE  TxInv'
<1> DEFINE b == tx[r].queue[1]
           plan == CASE tx[r].req.kind = "delete" -> Delete
                     [] tx[r].req.kind # "delete" /\ Present(b) ->
                          Update(tx[r].mem[b], books[b])
                     [] OTHER -> Insert(tx[r].mem[b])
           t == [tx[r] EXCEPT !.plan = plan]
<1>1. /\ pc[r] = "save"
      /\ tx' = [tx EXCEPT ![r].plan = plan]
      /\ pc' = [pc EXCEPT ![r] = "flush"]
      /\ UNCHANGED <<copyVars, lock>>
  BY DEF Reread
<1>2. /\ InFlight(r) /\ tx[r] \in TxState /\ tx[r].queue # <<>>
  BY <1>1 DEF TxInv, TypeOK, OwnOK, StageOK, InFlight
<1>3. Sound(plan, tx[r].req)
  <2>1. b \in Book /\ tx[r].mem[b] \in Row
    BY <1>2, QueueHead
  <2>2. Present(b) => books[b] \in Row
    BY <2>1 DEF TxInv, TypeOK, CopyTypeOK, Present
  <2> QED
    BY <2>1, <2>2, PlansAreSound
<1>4. tx' = [tx EXCEPT ![r] = t]
  BY <1>1
<1> HIDE DEF plan
<1>5. /\ t \in TxState
      /\ t.req = tx[r].req /\ t.mem = tx[r].mem /\ t.queue = tx[r].queue
      /\ t.rows = tx[r].rows /\ t.log = tx[r].log /\ t.rival = tx[r].rival
      /\ t.ops = tx[r].ops /\ t.ins = tx[r].ins /\ t.del = tx[r].del
      /\ t.plan = plan
  <2>1. plan \in Write
    BY <1>3 DEF Sound
  <2> QED
    BY <1>2, <2>1 DEF TxState
<1> HIDE DEF t
<1>6. tx'[r] = t /\ pc'[r] = "flush"
  BY <1>1, <1>4 DEF TxInv, TypeOK
<1>7. StageOK(r)'
  BY <1>1, <1>2, <1>3, <1>5, <1>6 DEF TxInv, OwnOK, StageOK, InFlight
<1>8. OpsOK(r)'
  BY SMTT(20), <1>5, <1>6 DEF TxInv, OwnOK, OpsOK
<1>9. DueOK(r)'
  <2>1. UNCHANGED marks
    BY <1>1 DEF copyVars
  <2> QED
    BY <1>2, <1>5, <1>6, <2>1 DEF TxInv, OwnOK, DueOK, Effective
<1>10. \A k \in t.ins :
         /\ Referable(r, k[2])
         /\ \A s \in Request : s # r => ~Deleting(s, k[2])
  BY <1>5 DEF TxInv, InsSafe
<1> QED
  BY <1>1, <1>2, <1>4, <1>5, <1>7, <1>8, <1>9, <1>10, MarkStepKeeps DEF PcSet

LEMMA EventsAreEvents == \A kind : EventOf(kind) \subseteq Event
BY DEF EventOf, Event

\* The transaction once it has written a row.
LEMMA WroteFacts ==
  ASSUME TxInv, NEW r \in Request, pc[r] = "flush",
         NEW w \in {NoWrite, tx[r].plan}
  PROVE  \E t, b :
           /\ t = Wrote(tx[r], w) /\ b = tx[r].queue[1]
           /\ t \in TxState /\ b \in Book
           /\ t.req = tx[r].req /\ t.mem = tx[r].mem /\ t.ops = <<>>
           /\ t.queue = Tail(tx[r].queue)
           /\ t.ins = tx[r].ins /\ t.del = tx[r].del /\ t.rival = tx[r].rival
           /\ t.rows[b] = w /\ \A a \in Book : a # b => t.rows[a] = tx[r].rows[a]
           /\ t.log = tx[r].log \cup (EventOf(tx[r].req.kind) \X {b})
<1>0. PICK t, b : t = Wrote(tx[r], w) /\ b = tx[r].queue[1]
  OBVIOUS
<1> DEFINE q == tx[r].req
           rest == Tail(tx[r].queue)
           rows == [tx[r].rows EXCEPT ![b] = w]
           log == tx[r].log \cup (EventOf(q.kind) \X {b})
<1>1. /\ InFlight(r) /\ tx[r] \in TxState /\ tx[r].queue # <<>>
      /\ Sound(tx[r].plan, q) /\ tx[r].ops = <<>>
  BY DEF TxInv, TypeOK, OwnOK, StageOK, InFlight
<1>2. b \in Book /\ rest \in Seq(Book)
  BY <1>0, <1>1, QueueHead
<1>3. /\ tx[r].plan \in Write
      /\ tx[r].rows \in [Book -> Write \cup {NoWrite}]
      /\ tx[r].log \in SUBSET (Event \X Book)
  BY <1>1 DEF Sound, TxState
<1>4. log \in SUBSET (Event \X Book)
  BY <1>2, <1>3, EventsAreEvents
<1>5. /\ rows \in [Book -> Write \cup {NoWrite}]
      /\ rows[b] = w /\ \A a \in Book : a # b => rows[a] = tx[r].rows[a]
  BY <1>2, <1>3
<1>6. t = [tx[r] EXCEPT !.queue = rest, !.plan = NoWrite, !.rows = rows, !.log = log]
  BY <1>0, <1>1 DEF Wrote, TxState
<1>7. PICK L : L = log
  OBVIOUS
<1> HIDE DEF rows, log, rest
<1>8. /\ t \in TxState
      /\ t.req = tx[r].req /\ t.mem = tx[r].mem /\ t.ops = <<>> /\ t.queue = rest
      /\ t.ins = tx[r].ins /\ t.del = tx[r].del /\ t.rival = tx[r].rival
      /\ t.rows = rows /\ t.log = L
  BY <1>1, <1>2, <1>4, <1>5, <1>6, <1>7 DEF TxState
<1> QED
  BY <1>0, <1>2, <1>5, <1>7, <1>8 DEF log, rest

\* A row has been written, or a deletion found none.
LEMMA WroteKeeps ==
  ASSUME TxInv, NEW r \in Request, pc[r] = "flush", UNCHANGED copyVars,
         NEW b, b = tx[r].queue[1],
         NEW w, w \in {NoWrite, tx[r].plan},
         tx' = [tx EXCEPT ![r] = Wrote(tx[r], w)],
         pc' = [pc EXCEPT ![r] = Onward(<<>>, Tail(tx[r].queue))],
         lock' \in [Book -> Request \cup {Free}],
         \A a \in Book, s \in Request : lock[a] = s => lock'[a] = s,
         w = NoWrite => tx[r].plan.op = "delete",
         w # NoWrite =>
           /\ lock'[b] = r
           /\ w.op = "insert" <=> ~Present(b)
           /\ w.op = "delete" =>
                \A s \in Request : s # r => \A k \in tx[s].ins : k[2] # b
  PROVE  TxInv'
<1> DEFINE t == Wrote(tx[r], w)
           q == tx[r].req
           rest == Tail(tx[r].queue)
           p == Onward(<<>>, rest)
<1>1. /\ InFlight(r) /\ tx[r] \in TxState /\ tx[r].queue # <<>> /\ q \in Asked
      /\ Sound(tx[r].plan, q) /\ tx[r].ops = <<>>
  BY DEF TxInv, TypeOK, OwnOK, StageOK, InFlight
<1>2. /\ b \in Book /\ b \in About(q) /\ q.kind # "add" /\ rest \in Seq(Book)
      /\ \A i \in 1 .. Len(rest) : rest[i] \in About(q) /\ tx[r].mem[rest[i]] \in Row
  BY <1>1, QueueHead
<1>3. /\ p \in {"mark", "save", "commit"} /\ p # "mark"
      /\ p = "save" => rest # <<>>
      /\ p = "commit" => rest = <<>>
  <2> HIDE DEF rest
  <2> QED
    BY OnwardFacts
<1> HIDE DEF rest, p
<1>4. /\ t \in TxState
      /\ t.req = q /\ t.mem = tx[r].mem /\ t.ops = <<>> /\ t.queue = rest
      /\ t.ins = tx[r].ins /\ t.del = tx[r].del /\ t.rival = tx[r].rival
      /\ t.rows[b] = w /\ \A a \in Book : a # b => t.rows[a] = tx[r].rows[a]
  <2> HIDE DEF t
  <2>1. t = Wrote(tx[r], w)
    BY DEF t
  <2>2. \E u, a :
          /\ u = Wrote(tx[r], w) /\ a = tx[r].queue[1]
          /\ u \in TxState
          /\ u.req = q /\ u.mem = tx[r].mem /\ u.ops = <<>>
          /\ u.queue = Tail(tx[r].queue)
          /\ u.ins = tx[r].ins /\ u.del = tx[r].del /\ u.rival = tx[r].rival
          /\ u.rows[a] = w /\ \A c \in Book : c # a => u.rows[c] = tx[r].rows[c]
    BY WroteFacts
  <2> QED
    BY <2>1, <2>2 DEF rest
<1>5. tx' = [tx EXCEPT ![r] = t] /\ pc' = [pc EXCEPT ![r] = p]
  BY DEF rest, p
<1> HIDE DEF t
<1>6. /\ tx' \in [Request -> TxState] /\ pc' \in [Request -> PcSet]
      /\ tx'[r] = t /\ pc'[r] = p
      /\ \A s \in Request : s # r => tx'[s] = tx[s] /\ pc'[s] = pc[s]
  <2>1. p \in PcSet
    BY <1>3 DEF PcSet
  <2>2. t \in TxState
    BY <1>4
  <2>3. tx \in [Request -> TxState] /\ pc \in [Request -> PcSet]
    BY DEF TxInv, TypeOK, PcSet
  <2> QED
    BY <1>5, <2>1, <2>2, <2>3
<1>7. UNCHANGED <<books, marks, history>>
  BY DEF copyVars
<1>8. TypeOK'
  BY <1>6, <1>7 DEF TxInv, TypeOK, CopyTypeOK, PcSet
<1>9. InFlight(r)'
  BY <1>3, <1>6 DEF InFlight
<1>10. StageOK(r)'
  BY <1>1, <1>3, <1>4, <1>6 DEF StageOK, InFlight
<1>11. QueueOK(r)'
  BY <1>2, <1>4, <1>6 DEF QueueOK
<1>12. WritesOK(r)'
  <2> SUFFICES ASSUME NEW a \in Book, t.rows[a] # NoWrite
               PROVE  /\ lock'[a] = r
                      /\ a \in About(q)
                      /\ Sound(t.rows[a], q)
                      /\ t.rows[a].op = "insert" <=> ~Present(a)
    BY <1>4, <1>6, <1>7 DEF WritesOK, Present
  <2>1. CASE a = b
    BY <1>1, <1>2, <1>4, <2>1
  <2>2. CASE a # b
    BY <1>4, <2>2 DEF TxInv, OwnOK, WritesOK
  <2> QED
    BY <2>1, <2>2
<1>13. CreatedOK(r)'
  BY <1>1, <1>2, <1>4, <1>6, <1>7 DEF TxInv, OwnOK, CreatedOK, Recorded
<1>14. OpsOK(r)'
  BY <1>1, <1>4, <1>6 DEF TxInv, OwnOK, OpsOK
<1>15. DueOK(r)'
  BY <1>1, <1>3, <1>4, <1>6, <1>7 DEF TxInv, OwnOK, DueOK, Effective
<1>16. OwnOK(r)'
  BY <1>10, <1>11, <1>12, <1>13, <1>14, <1>15 DEF OwnOK
<1>17. \A s \in Request : s # r /\ InFlight(s) /\ Rivals(tx'[r].req, tx[s].req) =>
         tx'[r].rival /\ tx'[s].rival
  BY <1>1, <1>4, <1>6, GoesOn
<1>18. \A k \in tx'[r].ins :
         /\ Referable(r, k[2])'
         /\ \A s \in Request : s # r => ~Deleting(s, k[2])
  <2> SUFFICES ASSUME NEW k \in tx[r].ins
               PROVE  /\ Referable(r, k[2])'
                      /\ \A s \in Request : s # r => ~Deleting(s, k[2])
    BY <1>4, <1>6
  <2>1. Referable(r, k[2]) /\ \A s \in Request : s # r => ~Deleting(s, k[2])
    BY DEF TxInv, InsSafe
  <2>2. k[2] \in Book
    <3>1. k \in Mark
      BY <1>1 DEF TxState
    <3> QED
      BY <3>1 DEF Mark
  <2>3. CASE Present(k[2])
    BY <1>7, <2>1, <2>3 DEF Referable, Present
  <2>4. CASE Inserting(r, k[2]) /\ ~Present(k[2])
    <3>1. tx[r].rows[k[2]] # NoWrite /\ tx[r].rows[k[2]].op = "insert"
      BY <2>4 DEF Inserting
    <3>2. Sound(tx[r].rows[k[2]], q)
      BY <2>2, <3>1 DEF TxInv, OwnOK, WritesOK
    <3>3. q.kind # "delete"
      BY <3>1, <3>2 DEF Sound
    <3>4. w # NoWrite
      BY <1>1, <3>3 DEF Sound
    <3>5. t.rows[k[2]] # NoWrite /\ t.rows[k[2]].op = "insert"
      BY <1>4, <2>2, <2>4, <3>1, <3>4
    <3> QED
      BY <1>6, <2>1, <3>5 DEF Referable, Inserting
  <2> QED
    BY <2>1, <2>3, <2>4 DEF Referable
<1>19. \A a : Deleting(r, a)' =>
         \A s \in Request : s # r => \A k \in tx[s].ins : k[2] # a
  <2> SUFFICES ASSUME NEW a, Deleting(r, a)', NEW s \in Request, s # r,
                      NEW k \in tx[s].ins, k[2] = a
               PROVE  FALSE
    OBVIOUS
  <2>1. t.rows[a] # NoWrite /\ t.rows[a].op = "delete"
    BY <1>6 DEF Deleting
  <2>2. a \in Book
    <3>1. k \in Mark
      BY DEF TxInv, TypeOK, TxState
    <3> QED
      BY <3>1 DEF Mark
  <2>3. CASE a = b
    BY <1>4, <2>1, <2>3
  <2>4. CASE a # b
    <3>1. Deleting(r, a)
      BY <1>4, <2>1, <2>2, <2>4 DEF Deleting
    <3> QED
      BY <3>1 DEF TxInv, InsSafe
  <2> QED
    BY <2>3, <2>4
<1>20. \A s \in Request : s # r =>
         /\ pc'[s] = pc[s]
         /\ tx'[s] = tx[s]
         /\ \A a \in Book : lock[a] = s => lock'[a] = s
  BY <1>6
<1> QED
  BY <1>8, <1>16, <1>17, <1>18, <1>19, <1>20, StepKeeps

LEMMA FlushKeeps ==
  ASSUME TxInv, NEW r \in Request, Flush(r)
  PROVE  TxInv'
<1> DEFINE b == tx[r].queue[1]
           w == tx[r].plan
<1>1. pc[r] = "flush" /\ ~Blocked(r)
  BY DEF Flush
<1>2. /\ tx[r].queue # <<>> /\ Sound(w, tx[r].req)
  BY <1>1 DEF TxInv, OwnOK, StageOK
<1>3. b \in Book
  BY <1>2, QueueHead
<1>4. \A s \in Request : s # r =>
        /\ lock[b] # s
        /\ w = Delete => \A k \in tx[s].ins : k[2] # b
  BY <1>1 DEF Blocked, BlockedBy
<1>5. w # NoWrite
  BY <1>2, NoWriteIsNoWrite DEF Sound
<1>6. lock \in [Book -> Request \cup {Free}]
  BY DEF TxInv, TypeOK
<1>7. CASE Fail(r)
  BY <1>7, FailKeeps
<1>8. CASE /\ w.op = "delete" /\ ~Present(b)
           /\ tx' = [tx EXCEPT ![r] = Wrote(tx[r], NoWrite)]
           /\ pc' = [pc EXCEPT ![r] = Onward(<<>>, Tail(tx[r].queue))]
           /\ UNCHANGED <<copyVars, lock>>
  BY <1>1, <1>6, <1>8, WroteKeeps
<1>9. CASE /\ w.op # "insert" <=> Present(b)
           /\ tx' = [tx EXCEPT ![r] = Wrote(tx[r], w)]
           /\ lock' = [lock EXCEPT ![b] = r]
           /\ pc' = [pc EXCEPT ![r] = Onward(<<>>, Tail(tx[r].queue))]
           /\ UNCHANGED copyVars
  <2>1. /\ lock' \in [Book -> Request \cup {Free}] /\ lock'[b] = r
        /\ \A a \in Book, s \in Request : lock[a] = s => lock'[a] = s
    BY <1>3, <1>4, <1>6, <1>9
  <2>2. w.op = "delete" => \A s \in Request : s # r => \A k \in tx[s].ins : k[2] # b
    BY <1>2, <1>4 DEF Sound
  <2> QED
    BY <1>1, <1>5, <1>9, <2>1, <2>2, WroteKeeps
<1> QED
  BY <1>7, <1>8, <1>9 DEF Flush

----------------------------------------------------------------------------
(* Requests that begin *)

LEMMA BegunFacts ==
  ASSUME NEW q \in Asked, NEW copy \in [Book -> Row \cup {NoBook}],
         NEW todo \in Seq(Book), NEW S, NEW t, t = Begun(q, copy, todo, S)
  PROVE  /\ t \in TxState
         /\ t.req = q /\ t.mem = copy /\ t.ops = MarkOps(q) /\ t.queue = todo
         /\ t.rows = NoRows /\ t.ins = {} /\ t.del = {} /\ t.log = {}
         /\ t.rival <=> S # {}
<1>1. q \in Req /\ MarkOps(q) \in Seq({"add", "remove", "log"} \X MarkKind)
  BY ReqFacts, MarkOpsFor DEF OpsFor, Op
<1>2. NoRows \in [Book -> Write \cup {NoWrite}]
  BY DEF NoRows
<1> QED
  BY <1>1, <1>2 DEF Begun, TxState

LEMMA ChangedIsRow ==
  ASSUME NEW q \in Asked, NEW row \in Row
  PROVE  Changed(q, row) \in Row
<1>1. q \in Req /\ (q.kind \in Single => q.by \in Member)
  BY ReqFacts
<1>2. CASE q.kind \in {"status", "metadata"} /\ q.asks # "none"
  <2>1. q.by \in Member /\ q.asks \in Status
    BY <1>1, <1>2 DEF Single, Kind, Req, Asks
  <2>2. Changed(q, row) = RowAfter(row, q.by, q.asks)
    BY <1>2 DEF Changed, Claims
  <2> QED
    BY <2>1, <2>2, RowAfterIsRow
<1>3. CASE q.kind = "move"
  <2>1. q.place \in Place
    BY <1>1 DEF Req
  <2>2. [row EXCEPT !.place = q.place] \in Row
    BY <2>1, MovedIsRow
  <2>3. Changed(q, row) = [row EXCEPT !.place = q.place]
    BY <1>3 DEF Changed, Claims
  <2> QED
    BY <2>2, <2>3
<1>4. CASE Claims(q, row)
  <2>1. q.kind = "session"
    BY <1>4 DEF Claims
  <2>2. q.by \in Member /\ "reading" \in Status
    BY <1>1, <2>1 DEF Single, Kind, Status
  <2>3. Changed(q, row) = RowAfter(row, q.by, "reading")
    BY <1>4, <2>1 DEF Changed
  <2> QED
    BY <2>2, <2>3, RowAfterIsRow
<1>5. CASE /\ ~(q.kind \in {"status", "metadata"} /\ q.asks # "none")
           /\ q.kind # "move" /\ ~Claims(q, row)
  <2>1. Changed(q, row) = row
    BY <1>5 DEF Changed
  <2> QED
    BY <2>1
<1> QED
  BY <1>2, <1>3, <1>4, <1>5

LEMMA BeginKeeps ==
  ASSUME TxInv, TypeOK', UNCHANGED copyVars, NEW r \in Request,
         NEW q \in Asked,
         tx'[r].req = q, tx'[r].ops = MarkOps(q),
         tx'[r].ins = {}, tx'[r].del = {},
         pc'[r] = Onward(MarkOps(q), tx'[r].queue),
         \A s \in Request : s # r =>
           /\ pc'[s] = pc[s]
           /\ tx'[s] = tx[s] \/ (InFlight(s) /\ tx'[s] = [tx[s] EXCEPT !.rival = TRUE])
           /\ \A b \in Book : lock[b] = s => lock'[b] = s,
         QueueOK(r)', WritesOK(r)', CreatedOK(r)',
         \A s \in Request : s # r /\ InFlight(s) /\ Rivals(q, tx[s].req) =>
           tx'[r].rival /\ tx'[s].rival,
         \A b \in Book : ~Deleting(r, b)'
  PROVE  TxInv'
<1>1. OpsFor(MarkOps(q), Promised(q), Withdrawn(q), q.targets[1], q.by)
  BY MarkOpsFor
<1>2. /\ pc'[r] \in {"mark", "save", "commit"}
      /\ pc'[r] = "mark" <=> MarkOps(q) # <<>>
      /\ pc'[r] = "save" => tx'[r].queue # <<>>
      /\ pc'[r] = "commit" => tx'[r].queue = <<>>
  BY OnwardFacts
<1>3. StageOK(r)'
  BY <1>2 DEF StageOK, InFlight
<1>4. OpsOK(r)'
  BY <1>1 DEF OpsOK, OpsFor
<1>5. DueOK(r)'
  BY <1>1, <1>2 DEF DueOK, OpsFor
<1>6. OwnOK(r)'
  BY <1>3, <1>4, <1>5 DEF OwnOK
<1>7. \A s \in Request : \A k \in tx[s].ins : k[2] \in Book
  <2>1. \A s \in Request : \A k \in tx[s].ins : k \in Mark
    BY DEF TxInv, TypeOK, TxState
  <2> QED
    BY <2>1 DEF Mark
<1>8. \A s \in Request : s # r /\ InFlight(s) /\ Rivals(tx'[r].req, tx[s].req) =>
        tx'[r].rival /\ tx'[s].rival
  OBVIOUS
<1>9. \A k \in tx'[r].ins :
        /\ Referable(r, k[2])'
        /\ \A s \in Request : s # r => ~Deleting(s, k[2])
  OBVIOUS
<1>10. \A b : Deleting(r, b)' =>
         \A s \in Request : s # r => \A k \in tx[s].ins : k[2] # b
  BY <1>7
<1> QED
  BY <1>6, <1>8, <1>9, <1>10, StepKeeps

LEMMA LoadFacts ==
  ASSUME TxInv, NEW r \in Request, NEW q \in Reqs, Load(r, q)
  PROVE  /\ \A b \in About(q) : Present(b)
         /\ UNCHANGED <<books, marks, history, lock>>
         /\ q \in Asked /\ q.kind # "add"
         /\ tx' \in [Request -> TxState] /\ pc' \in [Request -> PcSet]
         /\ pc'[r] = Onward(MarkOps(q), Saved(q))
         /\ tx'[r].req = q /\ tx'[r].ops = MarkOps(q) /\ tx'[r].queue = Saved(q)
         /\ tx'[r].rows = NoRows /\ tx'[r].ins = {} /\ tx'[r].del = {} /\ tx'[r].log = {}
         /\ \A b \in About(q) :
              b \in Book /\ tx'[r].mem[b] = Changed(q, books[b]) /\ tx'[r].mem[b] \in Row
         /\ tx'[r].rival <=> \E s \in Request : InFlight(s) /\ Rivals(q, tx[s].req)
         /\ \A s \in Request : s # r =>
              /\ pc'[s] = pc[s]
              /\ tx'[s] = tx[s] \/ (InFlight(s) /\ tx'[s] = [tx[s] EXCEPT !.rival = TRUE])
              /\ InFlight(s) /\ Rivals(q, tx[s].req) => tx'[s].rival
<1> DEFINE rivals == {s \in Request : InFlight(s) /\ Rivals(q, tx[s].req)}
           copy == [b \in Book |->
                      IF b \in About(q) THEN Changed(q, books[b]) ELSE NoBook]
           todo == Saved(q)
<1>1. /\ pc[r] = "idle"
      /\ \A b \in About(q) : Present(b)
      /\ pc' = [pc EXCEPT ![r] = Onward(MarkOps(q), todo)]
      /\ UNCHANGED <<copyVars, lock>>
  BY DEF Load
<1>2. tx' = [s \in Request |->
               IF s = r THEN Begun(q, copy, todo, rivals)
               ELSE IF s \in rivals THEN [tx[s] EXCEPT !.rival = TRUE]
               ELSE tx[s]]
  BY DEF Load
<1>16. rivals \subseteq Request /\ \A s \in Request : s \in rivals <=> InFlight(s) /\ Rivals(q, tx[s].req)
  OBVIOUS
<1>3. q \in Asked /\ q.kind # "add"
  BY AddIsAdd DEF Asked
<1>4. /\ q.targets \in Seq(Book) /\ About(q) \subseteq Book
      /\ todo \in Seq(Book) /\ todo \in {q.targets, <<>>}
  BY <1>3, ReqFacts DEF Req, Saved
<1>5. \A b \in About(q) : copy[b] \in Row
  BY <1>1, <1>3, <1>4, ChangedIsRow DEF TxInv, TypeOK, CopyTypeOK, Present
<1>15. \A b \in About(q) : copy[b] = Changed(q, books[b])
  BY <1>4
<1>6. copy \in [Book -> Row \cup {NoBook}]
  BY <1>5
<1> HIDE DEF copy, todo, rivals
<1>7. PICK t : t = Begun(q, copy, todo, rivals)
  OBVIOUS
<1>8. /\ t \in TxState
      /\ t.req = q /\ t.mem = copy /\ t.ops = MarkOps(q) /\ t.queue = todo
      /\ t.rows = NoRows /\ t.ins = {} /\ t.del = {} /\ t.log = {}
      /\ t.rival <=> rivals # {}
  BY <1>3, <1>4, <1>6, <1>7, BegunFacts
<1>9. /\ tx \in [Request -> TxState] /\ pc \in [Request -> PcSet]
      /\ lock \in [Book -> Request \cup {Free}]
  BY DEF TxInv, TypeOK, PcSet
<1>10. /\ tx'[r] = t
       /\ \A s \in Request : s # r =>
            tx'[s] = IF s \in rivals THEN [tx[s] EXCEPT !.rival = TRUE] ELSE tx[s]
  BY <1>2, <1>7
<1>11. ASSUME NEW s \in Request, s # r
       PROVE  /\ tx'[s] \in TxState
              /\ s \in rivals => tx'[s].rival
  <2>1. tx[s] \in TxState
    BY <1>9
  <2>2. [tx[s] EXCEPT !.rival = TRUE] \in TxState /\ [tx[s] EXCEPT !.rival = TRUE].rival
    BY <2>1 DEF TxState
  <2> QED
    BY <1>10, <1>11, <2>1, <2>2
<1>12. tx' \in [Request -> TxState]
  BY <1>2, <1>8, <1>10, <1>11
<1>13. /\ Onward(MarkOps(q), todo) \in PcSet
       /\ pc' \in [Request -> PcSet] /\ pc'[r] = Onward(MarkOps(q), todo)
       /\ \A s \in Request : s # r => pc'[s] = pc[s]
  <2>1. Onward(MarkOps(q), todo) \in PcSet
    BY OnwardFacts DEF PcSet
  <2> QED
    BY <1>1, <1>9, <2>1
<1>14. UNCHANGED <<books, marks, history, lock>>
  BY <1>1 DEF copyVars
<1>17. tx'[r].rival <=> \E s \in Request : InFlight(s) /\ Rivals(q, tx[s].req)
  BY <1>8, <1>10, <1>16
<1>18. \A s \in Request : s # r =>
         /\ tx'[s] = tx[s] \/ (InFlight(s) /\ tx'[s] = [tx[s] EXCEPT !.rival = TRUE])
         /\ InFlight(s) /\ Rivals(q, tx[s].req) => tx'[s].rival
  BY <1>10, <1>11, <1>16
<1>19. /\ tx'[r].req = q /\ tx'[r].ops = MarkOps(q) /\ tx'[r].queue = todo
       /\ tx'[r].rows = NoRows /\ tx'[r].ins = {} /\ tx'[r].del = {} /\ tx'[r].log = {}
       /\ \A b \in About(q) :
            b \in Book /\ tx'[r].mem[b] = Changed(q, books[b]) /\ tx'[r].mem[b] \in Row
  BY <1>4, <1>5, <1>8, <1>10, <1>15
<1> QED
  BY <1>1, <1>3, <1>12, <1>13, <1>14, <1>17, <1>18, <1>19 DEF todo

LEMMA LoadKeeps ==
  ASSUME TxInv, NEW r \in Request, NEW q \in Reqs, Load(r, q)
  PROVE  TxInv'
<1>1. TypeOK'
  <2>1. tx' \in [Request -> TxState] /\ pc' \in [Request -> PcSet]
    BY LoadFacts
  <2>2. UNCHANGED <<books, marks, history, lock>>
    BY LoadFacts
  <2> QED
    BY <2>1, <2>2 DEF TxInv, TypeOK, CopyTypeOK, PcSet
<1>2. q \in Asked /\ q.kind # "add" /\ UNCHANGED <<books, marks, history, lock>>
  BY LoadFacts
<1>3. QueueOK(r)'
  <2>1. \A i \in 1 .. Len(Saved(q)) : Saved(q)[i] \in About(q)
    BY DEF About, Saved
  <2> QED
    BY <1>2, <2>1, LoadFacts DEF QueueOK
<1>4. WritesOK(r)' /\ \A b \in Book : ~Deleting(r, b)'
  <2>1. \A b \in Book : tx'[r].rows[b] = NoWrite
    BY LoadFacts DEF NoRows
  <2> QED
    BY <2>1 DEF WritesOK, Deleting
<1>5. CreatedOK(r)'
  <2>1. \A b \in About(q) : Recorded("created", b)
    BY LoadFacts DEF TxInv, PresentWasCreated
  <2>2. tx'[r].req = q
    BY LoadFacts
  <2> QED
    BY <1>2, <2>1, <2>2 DEF CreatedOK, Recorded
<1>6. \A s \in Request : s # r /\ InFlight(s) /\ Rivals(q, tx[s].req) =>
        tx'[r].rival /\ tx'[s].rival
  BY LoadFacts
<1>7. \A s \in Request : s # r =>
        /\ pc'[s] = pc[s]
        /\ tx'[s] = tx[s] \/ (InFlight(s) /\ tx'[s] = [tx[s] EXCEPT !.rival = TRUE])
        /\ \A b \in Book : lock[b] = s => lock'[b] = s
  <2>1. \A s \in Request : s # r =>
          /\ pc'[s] = pc[s]
          /\ tx'[s] = tx[s] \/ (InFlight(s) /\ tx'[s] = [tx[s] EXCEPT !.rival = TRUE])
          /\ InFlight(s) /\ Rivals(q, tx[s].req) => tx'[s].rival
    BY ONLY TxInv, r \in Request, q \in Reqs, Load(r, q), LoadFacts
  <2> QED
    BY <1>2, <2>1
<1>8. /\ tx'[r].req = q /\ tx'[r].ops = MarkOps(q)
      /\ tx'[r].ins = {} /\ tx'[r].del = {}
      /\ pc'[r] = Onward(MarkOps(q), tx'[r].queue)
  BY LoadFacts
<1>9. UNCHANGED copyVars
  BY <1>2 DEF copyVars
<1>10. q \in Asked
  BY <1>2
<1> QED
  BY <1>1, <1>3, <1>4, <1>5, <1>6, <1>7, <1>8, <1>9, <1>10, BeginKeeps

LEMMA AddFacts ==
  ASSUME TxInv, NEW r \in Request, NEW q \in AddReqs, Add(r, q),
         NEW b, b = q.targets[1],
         NEW row, row = NewRow(q.by, q.asks, q.place)
  PROVE  /\ Fresh(b) /\ lock[b] = Free /\ b \in Book /\ About(q) = {b} /\ row \in Row
         /\ q \in Asked /\ q.kind = "add"
         /\ UNCHANGED <<books, marks, history>>
         /\ tx' \in [Request -> TxState] /\ pc' \in [Request -> PcSet]
         /\ lock' \in [Book -> Request \cup {Free}] /\ lock'[b] = r
         /\ pc'[r] = Onward(MarkOps(q), <<>>)
         /\ tx'[r].req = q /\ tx'[r].ops = MarkOps(q) /\ tx'[r].queue = <<>>
         /\ tx'[r].ins = {} /\ tx'[r].del = {} /\ ~tx'[r].rival
         /\ tx'[r].log = {"created"} \X {b}
         /\ tx'[r].rows[b] = Insert(row)
         /\ \A a \in Book : a # b => tx'[r].rows[a] = NoWrite
         /\ Sound(Insert(row), q) /\ Insert(row).op = "insert" /\ Insert(row) \in Write
         /\ \A s \in Request : s # r =>
              /\ pc'[s] = pc[s] /\ tx'[s] = tx[s]
              /\ \A a \in Book : lock[a] = s => lock'[a] = s
<1> DEFINE t0 == Begun(q, NoMem, <<>>, {})
           t == [t0 EXCEPT !.rows[b] = Insert(row), !.log = EventOf(q.kind) \X {b}]
<1>1. /\ pc[r] = "idle"
      /\ Fresh(b) /\ lock[b] = Free
      /\ tx' = [tx EXCEPT ![r] = t]
      /\ lock' = [lock EXCEPT ![b] = r]
      /\ pc' = [pc EXCEPT ![r] = Onward(MarkOps(q), <<>>)]
      /\ UNCHANGED copyVars
  BY DEF Add
<1>2. q \in Asked /\ q.kind = "add"
  BY AddIsAdd DEF Asked
<1>3. /\ b \in Book /\ About(q) = {b} /\ q.by \in Member /\ q.asks \in Status
      /\ q.place \in Place
  BY <1>2, ReqFacts DEF Single, Kind, Req
<1>4. row \in Row
  BY <1>3, NewRowIsRow
<1>5. Sound(Insert(row), q)
  BY <1>2, <1>4, PlansAreSound
<1>6. Insert(row).op = "insert" /\ Insert(row) \in Write
  BY <1>5 DEF Sound, Insert, W
<1>7. EventOf(q.kind) = {"created"}
  BY <1>2 DEF EventOf
<1>8. /\ t \in TxState
      /\ t.req = q /\ t.ops = MarkOps(q) /\ t.queue = <<>> /\ t.ins = {} /\ t.del = {}
      /\ t.rows[b] = Insert(row) /\ \A a \in Book : a # b => t.rows[a] = NoWrite
      /\ t.log = {"created"} \X {b} /\ ~t.rival
  <2>1. NoMem \in [Book -> Row \cup {NoBook}]
    BY DEF NoMem
  <2>2. PICK S, todo : S = {} /\ todo = <<>>
    OBVIOUS
  <2>3. PICK u : u = Begun(q, NoMem, todo, S)
    OBVIOUS
  <2>4. /\ u \in TxState
        /\ u.req = q /\ u.ops = MarkOps(q) /\ u.queue = todo
        /\ u.rows = NoRows /\ u.ins = {} /\ u.del = {}
        /\ u.rival <=> S # {}
    <3>1. todo \in Seq(Book)
      BY <2>2
    <3> QED
      BY <1>2, <2>1, <2>3, <3>1, BegunFacts
  <2>5. t = [u EXCEPT !.rows[b] = Insert(row), !.log = {"created"} \X {b}]
    <3>1. t = [u EXCEPT !.rows[b] = Insert(row), !.log = EventOf(q.kind) \X {b}]
      BY <2>2, <2>3
    <3> QED
      BY <1>7, <3>1
  <2>6. PICK L : L = {"created"} \X {b}
    OBVIOUS
  <2>7. L \in SUBSET (Event \X Book)
    BY <1>3, <2>6 DEF Event
  <2>8. t = [u EXCEPT !.rows[b] = Insert(row), !.log = L]
    BY <2>5, <2>6
  <2> HIDE DEF t
  <2>9. PICK w : w = Insert(row)
    OBVIOUS
  <2>10. /\ t \in TxState
         /\ t.req = q /\ t.ops = MarkOps(q) /\ t.queue = todo /\ t.ins = {} /\ t.del = {}
         /\ t.rows[b] = w /\ \A a \in Book : a # b => t.rows[a] = NoWrite
         /\ t.log = L /\ (t.rival <=> S # {})
    <3>1. PICK rows : rows = [u.rows EXCEPT ![b] = Insert(row)]
      OBVIOUS
    <3>2. /\ rows \in [Book -> Write \cup {NoWrite}]
          /\ rows[b] = w /\ \A a \in Book : a # b => rows[a] = NoWrite
      BY <1>3, <1>6, <2>4, <2>9, <3>1 DEF NoRows
    <3>3. t = [u EXCEPT !.rows = rows, !.log = L]
      BY <2>8, <3>1
    <3>4. /\ t \in TxState
          /\ t.req = u.req /\ t.ops = u.ops /\ t.queue = u.queue
          /\ t.ins = u.ins /\ t.del = u.del /\ t.rival = u.rival
          /\ t.log = L /\ t.rows = rows
      BY <2>4, <2>7, <3>2, <3>3 DEF TxState
    <3> QED
      BY <2>4, <3>2, <3>4
  <2>11. ~t.rival /\ t.queue = <<>>
    BY <2>2, <2>10
  <2> QED
    BY <2>6, <2>9, <2>10, <2>11
<1> HIDE DEF t
<1>9. /\ tx \in [Request -> TxState] /\ pc \in [Request -> PcSet]
      /\ lock \in [Book -> Request \cup {Free}]
  BY DEF TxInv, TypeOK, PcSet
<1>10. /\ tx' \in [Request -> TxState] /\ tx'[r] = t
       /\ \A s \in Request : s # r => tx'[s] = tx[s]
       /\ lock' \in [Book -> Request \cup {Free}] /\ lock'[b] = r
       /\ \A s \in Request, a \in Book : lock[a] = s => lock'[a] = s
  BY <1>1, <1>3, <1>8, <1>9, FreeIsNoRequest
<1>11. /\ pc' \in [Request -> PcSet] /\ pc'[r] = Onward(MarkOps(q), <<>>)
       /\ \A s \in Request : s # r => pc'[s] = pc[s]
  <2>1. Onward(MarkOps(q), <<>>) \in PcSet
    BY OnwardFacts DEF PcSet
  <2> QED
    BY <1>1, <1>9, <2>1
<1>12. UNCHANGED <<books, marks, history>>
  BY <1>1 DEF copyVars
<1> QED
  BY <1>1, <1>2, <1>3, <1>4, <1>5, <1>6, <1>8, <1>10, <1>11, <1>12

LEMMA AddKeeps ==
  ASSUME TxInv, NEW r \in Request, NEW q \in AddReqs, Add(r, q)
  PROVE  TxInv'
<1>1. PICK b, row : b = q.targets[1] /\ row = NewRow(q.by, q.asks, q.place)
  OBVIOUS
<1>2. /\ Fresh(b) /\ lock[b] = Free /\ b \in Book /\ About(q) = {b}
      /\ q \in Asked /\ q.kind = "add"
      /\ UNCHANGED <<books, marks, history>>
  BY <1>1, AddFacts
<1>3. TypeOK'
  <2>1. /\ tx' \in [Request -> TxState] /\ pc' \in [Request -> PcSet]
        /\ lock' \in [Book -> Request \cup {Free}]
    BY <1>1, AddFacts
  <2> QED
    BY <1>2, <2>1 DEF TxInv, TypeOK, CopyTypeOK, PcSet
<1>4. /\ tx'[r].req = q /\ tx'[r].ops = MarkOps(q) /\ tx'[r].queue = <<>>
      /\ tx'[r].ins = {} /\ tx'[r].del = {}
      /\ pc'[r] = Onward(MarkOps(q), tx'[r].queue)
  BY <1>1, AddFacts
<1>5. /\ tx'[r].rows[b] = Insert(row) /\ <<"created", b>> \in tx'[r].log
      /\ \A a \in Book : a # b => tx'[r].rows[a] = NoWrite
      /\ Sound(Insert(row), q) /\ Insert(row).op = "insert" /\ Insert(row) \in Write
      /\ lock'[b] = r
  BY <1>1, AddFacts
<1>6. \A s \in Request : s # r =>
        /\ pc'[s] = pc[s] /\ tx'[s] = tx[s]
        /\ \A a \in Book : lock[a] = s => lock'[a] = s
  BY <1>1, AddFacts
<1>7. QueueOK(r)'
  BY <1>4 DEF QueueOK
<1>8. WritesOK(r)'
  BY <1>2, <1>4, <1>5 DEF WritesOK, Fresh, Present
<1>9. CreatedOK(r)'
  BY <1>2, <1>4, <1>5, NoWriteIsNoWrite DEF CreatedOK, Inserting
<1>10. ASSUME NEW s \in Request, s # r, InFlight(s), Rivals(q, tx[s].req)
       PROVE  FALSE
  <2>1. b \in About(tx[s].req)
    BY <1>2, <1>10 DEF Rivals
  <2>2. CASE Recorded("created", b)
    BY <1>2, <2>2 DEF Fresh, Event
  <2>3. CASE Inserting(s, b)
    <3>1. lock[b] = s
      BY <1>2, <2>3 DEF TxInv, OwnOK, WritesOK, Inserting
    <3> QED
      BY <1>2, <3>1, FreeIsNoRequest
  <2> QED
    BY <1>10, <2>1, <2>2, <2>3 DEF TxInv, OwnOK, CreatedOK
<1>11. ASSUME NEW a \in Book, Deleting(r, a)'
       PROVE  FALSE
  <2>1. tx'[r].rows[a] # NoWrite /\ tx'[r].rows[a].op = "delete"
    BY <1>11 DEF Deleting
  <2> QED
    BY <1>5, <2>1
<1>12. UNCHANGED copyVars
  BY <1>2 DEF copyVars
<1>13. \A s \in Request : s # r /\ InFlight(s) /\ Rivals(q, tx[s].req) =>
         tx'[r].rival /\ tx'[s].rival
  BY <1>10
<1>14. \A a \in Book : ~Deleting(r, a)'
  BY <1>11
<1>15. q \in Asked
  BY <1>2
<1> QED
  BY <1>3, <1>4, <1>6, <1>7, <1>8, <1>9, <1>12, <1>13, <1>14, <1>15, BeginKeeps

----------------------------------------------------------------------------
(* Commits *)

LEMMA AppliedFacts ==
  ASSUME NEW q, NEW w, w = NoWrite \/ Sound(w, q), NEW row \in Row \cup {NoBook},
         w # NoWrite => (w.op = "insert" <=> row = NoBook)
  PROVE  /\ Applied(w, row) \in Row \cup {NoBook}
         /\ w = NoWrite => Applied(w, row) = row
         /\ w # NoWrite => (Applied(w, row) = NoBook <=> w.op = "delete")
<1>1. CASE w = NoWrite
  BY <1>1 DEF Applied
<1>2. CASE w # NoWrite /\ w.op = "delete"
  BY <1>2 DEF Applied
<1>3. CASE w # NoWrite /\ w.op = "insert"
  <2>1. Applied(w, row) = [reader |-> w.reader, status |-> w.status, place |-> w.place]
    BY <1>3 DEF Applied
  <2>2. Applied(w, row) \in Row
    BY <1>3, <2>1 DEF Sound, Row
  <2> QED
    BY <1>3, <2>2, NoBookIsNoRow
<1>4. CASE w # NoWrite /\ w.op = "update"
  <2>1. w \in Write /\ row \in Row
    BY <1>4 DEF Sound
  <2>2. Applied(w, row) = [reader |-> Set(w.reader, row.reader),
                           status |-> Set(w.status, row.status),
                           place  |-> Set(w.place, row.place)]
    BY <1>4 DEF Applied
  <2>3. /\ Set(w.reader, row.reader) \in Member \cup {NoOne}
        /\ Set(w.status, row.status) \in Column
        /\ Set(w.place, row.place) \in Place
    BY <2>1 DEF Set, Write, Row
  <2>4. Applied(w, row) \in Row
    BY <2>2, <2>3 DEF Row
  <2> QED
    BY <1>4, <2>4, NoBookIsNoRow
<1>5. w # NoWrite => w.op \in {"insert", "update", "delete"}
  BY DEF Sound, Write
<1> QED
  BY <1>1, <1>2, <1>3, <1>4, <1>5

\* What a commit makes of the tables.
LEMMA CommitFacts ==
  ASSUME TxInv, NEW r \in Request, Commit(r)
  PROVE  /\ books' \in [Book -> Row \cup {NoBook}]
         /\ \A b \in Book :
              /\ Present(b)' <=> Referable(r, b) /\ ~Deleting(r, b)
              /\ tx[r].rows[b] = NoWrite => books'[b] = books[b]
              /\ Deleting(r, b) => b \in About(tx[r].req) /\ tx[r].req.kind = "delete"
         /\ \A k : k \in marks' <=> k \in Effective(r) /\ ~Deleting(r, k[2])
         /\ Effective(r) \subseteq Mark
         /\ \A k \in Promised(tx[r].req) \cup Withdrawn(tx[r].req) :
              k[3] = tx[r].req.by /\ k[2] \in About(tx[r].req)
         /\ tx[r].ins \subseteq Promised(tx[r].req)
         /\ tx[r].del \subseteq Withdrawn(tx[r].req)
<1> DEFINE q == tx[r].req
<1>1. /\ pc[r] = "commit"
      /\ books' = [b \in Book |-> Applied(tx[r].rows[b], books[b])]
      /\ marks' = Kept((marks \ tx[r].del) \cup tx[r].ins, r)
  BY DEF Commit
<1>2. InFlight(r) /\ q \in Asked /\ tx[r] \in TxState
  BY <1>1 DEF TxInv, TypeOK, OwnOK, StageOK, InFlight
<1>3. \A b \in Book : books[b] \in Row \cup {NoBook}
  BY DEF TxInv, TypeOK, CopyTypeOK
<1>4. \A b \in Book : tx[r].rows[b] # NoWrite =>
        /\ Sound(tx[r].rows[b], q)
        /\ tx[r].rows[b].op = "insert" <=> books[b] = NoBook
        /\ b \in About(q)
  BY DEF TxInv, OwnOK, WritesOK, Present
<1>5. ASSUME NEW b \in Book
      PROVE  /\ books'[b] \in Row \cup {NoBook}
             /\ Present(b)' <=> Referable(r, b) /\ ~Deleting(r, b)
             /\ tx[r].rows[b] = NoWrite => books'[b] = books[b]
             /\ Deleting(r, b) => b \in About(q) /\ q.kind = "delete"
  <2> DEFINE w == tx[r].rows[b]
  <2>1. books'[b] = Applied(w, books[b])
    BY <1>1
  <2>2. /\ Applied(w, books[b]) \in Row \cup {NoBook}
        /\ w = NoWrite => Applied(w, books[b]) = books[b]
        /\ w # NoWrite => (Applied(w, books[b]) = NoBook <=> w.op = "delete")
    BY <1>3, <1>4, AppliedFacts
  <2>3. Deleting(r, b) => b \in About(q) /\ q.kind = "delete"
    BY <1>4 DEF Deleting, Sound
  <2>4. Referable(r, b) <=> books[b] # NoBook \/ (w # NoWrite /\ w.op = "insert")
    BY DEF Referable, Present, Inserting
  <2>5. Deleting(r, b) <=> w # NoWrite /\ w.op = "delete"
    BY DEF Deleting
  <2>6. Present(b)' <=> books'[b] # NoBook
    BY DEF Present
  <2> HIDE DEF w
  <2> QED
    BY <1>4, <2>1, <2>2, <2>3, <2>4, <2>5, <2>6 DEF w
<1>6. books' \in [Book -> Row \cup {NoBook}]
  BY <1>1, <1>5
<1>7. \A k : k \in marks' <=> k \in Effective(r) /\ ~Deleting(r, k[2])
  BY <1>1 DEF Kept, Effective
<1>8. Effective(r) \subseteq Mark
  BY <1>2 DEF TxInv, TypeOK, CopyTypeOK, TxState, Effective
<1>9. \A k \in Promised(q) \cup Withdrawn(q) : k[3] = q.by /\ k[2] \in About(q)
  <2>1. Promised(q) \cup Withdrawn(q) \subseteq {<<k, q.targets[1], q.by>> : k \in MarkKind}
    BY <1>2, MarkOpsFor
  <2>2. q.targets[1] \in About(q)
    BY <1>2, ReqFacts
  <2> QED
    BY <2>1, <2>2
<1>10. tx[r].ins \subseteq Promised(q) /\ tx[r].del \subseteq Withdrawn(q)
  BY DEF TxInv, OwnOK, OpsOK
<1> QED
  BY <1>5, <1>6, <1>7, <1>8, <1>9, <1>10

\* The marks of a request that met no rival are out of the others' reach.
LEMMA MarksApart ==
  ASSUME TxInv, NEW r \in Request, Commit(r),
         NEW s \in Request, s # r, InFlight(s), ~tx[s].rival,
         NEW k \in Promised(tx[s].req) \cup Withdrawn(tx[s].req)
  PROVE  k \in marks' <=> k \in marks
<1>1. InFlight(r) /\ tx[s].req \in Asked
  BY DEF TxInv, OwnOK, StageOK, Commit, InFlight
<1>2. k[3] = tx[s].req.by /\ k[2] \in About(tx[s].req)
  <2>1. k \in {<<j, tx[s].req.targets[1], tx[s].req.by>> : j \in MarkKind}
    BY <1>1, MarkOpsFor
  <2>2. tx[s].req.targets[1] \in About(tx[s].req)
    BY <1>1, ReqFacts
  <2> QED
    BY <2>1, <2>2
<1>3. ~Rivals(tx[s].req, tx[r].req)
  BY <1>1 DEF TxInv, RivalsKnown
<1>4. k \notin tx[r].ins \cup tx[r].del
  BY <1>2, <1>3, CommitFacts DEF Rivals
<1>5. k[2] \in Book
  BY <1>1, <1>2, ReqFacts
<1>6. ~Deleting(r, k[2])
  BY <1>2, <1>3, <1>5, CommitFacts DEF Rivals
<1> QED
  BY <1>4, <1>6, CommitFacts DEF Effective

LEMMA CommitKeeps ==
  ASSUME TxInv, NEW r \in Request, Commit(r)
  PROVE  TxInv'
<1>1. /\ pc[r] = "commit" /\ End(r, "done")
      /\ history' = history \cup tx[r].log
  BY DEF Commit
<1>2. /\ tx' \in [Request -> TxState] /\ pc' \in [Request -> PcSet]
      /\ lock' \in [Book -> Request \cup {Free}]
      /\ tx'[r] = Blank /\ ~InFlight(r)'
      /\ \A s \in Request : s # r =>
           /\ tx'[s] = tx[s] /\ pc'[s] = pc[s]
           /\ \A b \in Book : lock[b] = s => lock'[b] = s
  BY <1>1, EndTypes DEF TxInv
<1>3. TypeOK'
  <2>1. marks' \subseteq Mark /\ books' \in [Book -> Row \cup {NoBook}]
    BY CommitFacts
  <2>2. history' \subseteq Event \X Book
    BY <1>1 DEF TxInv, TypeOK, CopyTypeOK, TxState
  <2> QED
    BY <1>2, <2>1, <2>2 DEF TypeOK, CopyTypeOK, PcSet
<1>4. ASSUME NEW s \in Request, s # r
      PROVE  OwnOK(s)'
  <2>1. tx'[s] = tx[s] /\ pc'[s] = pc[s] /\ (InFlight(s)' <=> InFlight(s))
    BY <1>2, <1>4 DEF InFlight
  <2>2. StageOK(s)' /\ QueueOK(s)' /\ OpsOK(s)'
    BY <2>1 DEF TxInv, OwnOK, StageOK, QueueOK, OpsOK
  <2>3. WritesOK(s)'
    <3> SUFFICES ASSUME NEW b \in Book, tx[s].rows[b] # NoWrite
                 PROVE  /\ lock'[b] = s
                        /\ b \in About(tx[s].req)
                        /\ Sound(tx[s].rows[b], tx[s].req)
                        /\ tx[s].rows[b].op = "insert" <=> ~Present(b)'
      BY <2>1 DEF WritesOK
    <3>1. /\ lock[b] = s
          /\ b \in About(tx[s].req)
          /\ Sound(tx[s].rows[b], tx[s].req)
          /\ tx[s].rows[b].op = "insert" <=> ~Present(b)
      BY DEF TxInv, OwnOK, WritesOK
    <3>2. tx[r].rows[b] = NoWrite
      BY <1>4, <3>1 DEF TxInv, OwnOK, WritesOK
    <3>3. Present(b)' <=> Present(b)
      BY <3>2, CommitFacts DEF Present
    <3> QED
      BY <1>2, <1>4, <3>1, <3>3
  <2>4. CreatedOK(s)'
    BY <1>1, <2>1 DEF TxInv, OwnOK, CreatedOK, Recorded, Inserting
  <2>5. DueOK(s)'
    <3> SUFFICES ASSUME InFlight(s), ~tx[s].rival
                 PROVE  DueOK(s)'
      BY <2>1 DEF DueOK
    <3>1. \A k \in Promised(tx[s].req) \cup Withdrawn(tx[s].req) :
            k \in marks' <=> k \in marks
      BY <1>4, MarksApart
    <3>2. pc[s] = "write" =>
            CurrentMark(tx[s]) \in Promised(tx[s].req) \cup Withdrawn(tx[s].req)
      <4> SUFFICES ASSUME pc[s] = "write"
                   PROVE  CurrentMark(tx[s]) \in Promised(tx[s].req) \cup Withdrawn(tx[s].req)
        OBVIOUS
      <4>1. tx[s].ops # <<>> /\ tx[s].ops \in Seq(Op)
        BY DEF TxInv, TypeOK, TxState, OwnOK, StageOK, Op
      <4>2. 1 \in 1 .. Len(tx[s].ops)
        BY <4>1
      <4> QED
        BY <4>2 DEF TxInv, OwnOK, OpsOK, CurrentMark
    <3>3. DueOK(s)
      BY DEF TxInv, OwnOK
    <3>4. \A k \in Promised(tx[s].req) \cup Withdrawn(tx[s].req) :
            k \in Effective(s)' <=> k \in Effective(s)
      BY <2>1, <3>1 DEF Effective
    <3>5. /\ pc[s] = "write" =>
               (tx[s].found <=> tx[s].ops[1][1] # "log" /\ CurrentMark(tx[s]) \in marks')
      BY <3>1, <3>2, <3>3 DEF DueOK
    <3>6. /\ \A k \in Promised(tx[s].req) :
               \/ k \in Effective(s)'
               \/ \E i \in 1 .. Len(tx[s].ops) :
                    tx[s].ops[i][2] = k[1] /\ tx[s].ops[i][1] # "remove"
          /\ \A k \in Withdrawn(tx[s].req) :
               \/ k \notin Effective(s)'
               \/ \E i \in 1 .. Len(tx[s].ops) :
                    tx[s].ops[i][2] = k[1] /\ tx[s].ops[i][1] = "remove"
      BY <3>3, <3>4 DEF DueOK
    <3> QED
      BY <2>1, <3>5, <3>6 DEF DueOK
  <2> QED
    BY <2>2, <2>3, <2>4, <2>5 DEF OwnOK
<1>5. \A s \in Request : OwnOK(s)'
  BY <1>2, <1>4, BlankOK
<1>6. InsSafe'
  <2> SUFFICES ASSUME NEW u \in Request, NEW k \in tx'[u].ins
               PROVE  /\ Referable(u, k[2])'
                      /\ \A s \in Request : s # u => ~Deleting(s, k[2])'
    BY DEF InsSafe
  <2>1. u # r
    BY <1>2, BlankFacts
  <2>2. /\ k \in tx[u].ins
        /\ Referable(u, k[2])
        /\ \A s \in Request : s # u => ~Deleting(s, k[2])
    BY <1>2, <2>1 DEF TxInv, InsSafe
  <2>3. k[2] \in Book
    <3>1. k \in Mark
      BY <2>2 DEF TxInv, TypeOK, TxState
    <3> QED
      BY <3>1 DEF Mark
  <2>4. Referable(u, k[2])'
    <3>1. CASE Present(k[2])
      <4>1. Present(k[2])'
        BY <2>1, <2>2, <2>3, <3>1, CommitFacts DEF Referable
      <4> QED
        BY <4>1 DEF Referable
    <3>2. CASE Inserting(u, k[2])
      <4>1. Inserting(u, k[2])'
        BY <1>2, <2>1, <3>2 DEF Inserting
      <4> QED
        BY <4>1 DEF Referable
    <3> QED
      BY <2>2, <3>1, <3>2 DEF Referable
  <2>5. ~Deleting(r, k[2])'
    BY <1>2, <2>3, BlankFacts DEF Deleting
  <2>6. \A s \in Request : s # r => (Deleting(s, k[2])' <=> Deleting(s, k[2]))
    BY <1>2 DEF Deleting
  <2> QED
    BY <2>2, <2>4, <2>5, <2>6
<1>7. RivalsKnown'
  BY <1>2 DEF TxInv, RivalsKnown, InFlight
<1>8. PresentWasCreated'
  <2> SUFFICES ASSUME NEW b \in Book, Present(b)'
               PROVE  <<"created", b>> \in history'
    BY DEF PresentWasCreated, Recorded
  <2>1. Present(b) \/ Inserting(r, b)
    BY CommitFacts DEF Referable
  <2>2. CASE Present(b)
    BY <1>1, <2>2 DEF TxInv, PresentWasCreated, Recorded
  <2>3. CASE Inserting(r, b)
    <3>1. b \in About(tx[r].req) /\ InFlight(r)
      BY <1>1, <2>3 DEF TxInv, OwnOK, WritesOK, Inserting, InFlight
    <3> QED
      BY <1>1, <3>1 DEF TxInv, OwnOK, CreatedOK, Recorded
  <2> QED
    BY <2>1, <2>2, <2>3
<1>9. MarksHaveBook'
  <2> SUFFICES ASSUME NEW k \in marks'
               PROVE  Present(k[2])'
    BY DEF MarksHaveBook
  <2>1. k \in Effective(r) /\ ~Deleting(r, k[2]) /\ k \in Mark
    BY CommitFacts
  <2>2. k[2] \in Book
    BY <2>1 DEF Mark
  <2>3. Referable(r, k[2])
    BY <2>1 DEF TxInv, MarksHaveBook, InsSafe, Effective, Referable
  <2> QED
    BY <2>1, <2>2, <2>3, CommitFacts
<1> QED
  BY <1>3, <1>5, <1>6, <1>7, <1>8, <1>9 DEF TxInv

----------------------------------------------------------------------------
(* The specification *)

LEMMA InitTx == Init => TxInv
<1> SUFFICES ASSUME Init PROVE TxInv
  OBVIOUS
<1>1. CopyInv /\ tx = [r \in Request |-> Blank] /\ pc = [r \in Request |-> "idle"]
      /\ lock = [b \in Book |-> Free]
  BY InitInv DEF Init
<1>2. TypeOK
  BY <1>1, BlankFacts DEF CopyInv, TypeOK
<1>3. \A r \in Request : tx[r] = Blank /\ pc[r] = "idle" /\ ~InFlight(r)
  BY <1>1 DEF InFlight
<1>4. \A r \in Request :
        /\ tx[r].ops = <<>> /\ tx[r].queue = <<>> /\ tx[r].ins = {} /\ tx[r].del = {}
        /\ \A b \in Book : tx[r].rows[b] = NoWrite
  BY <1>3, BlankFacts
<1>5. ASSUME NEW r \in Request
      PROVE  OwnOK(r)
  <2>1. StageOK(r)
    BY <1>3, <1>4 DEF StageOK
  <2>2. QueueOK(r) /\ WritesOK(r) /\ OpsOK(r)
    BY <1>4 DEF QueueOK, WritesOK, OpsOK
  <2>3. CreatedOK(r) /\ DueOK(r)
    BY <1>3 DEF CreatedOK, DueOK
  <2> QED
    BY <2>1, <2>2, <2>3 DEF OwnOK
<1>6. InsSafe /\ RivalsKnown
  BY <1>3, <1>4 DEF InsSafe, RivalsKnown
<1>7. PresentWasCreated /\ MarksHaveBook
  BY <1>1 DEF CopyInv, AuditMatchesTable, PresentWasCreated
<1> QED
  BY <1>2, <1>5, <1>6, <1>7 DEF TxInv

LEMMA StutterTx == ASSUME TxInv, UNCHANGED vars PROVE TxInv'
<1>1. UNCHANGED <<books, marks, history, pc, tx, lock>>
  BY DEF vars, copyVars, txVars
<1>2. TypeOK' /\ PresentWasCreated' /\ MarksHaveBook'
  BY <1>1 DEF TxInv, TypeOK, CopyTypeOK, PresentWasCreated, MarksHaveBook, Present, Recorded
<1>3. InsSafe' /\ RivalsKnown'
  BY <1>1 DEF TxInv, InsSafe, RivalsKnown, Referable, Deleting, Inserting, Present, InFlight
<1>4. \A s \in Request : OwnOK(s)'
  BY <1>1, OtherOK DEF copyVars
<1> QED
  BY <1>2, <1>3, <1>4 DEF TxInv

LEMMA StepTx == TxInv /\ [Next]_vars => TxInv'
<1> SUFFICES ASSUME TxInv, [Next]_vars PROVE TxInv'
  OBVIOUS
<1>1. CASE \E r \in Request : \E q \in Reqs : Load(r, q)
  BY <1>1, LoadKeeps
<1>2. CASE \E r \in Request : \E q \in AddReqs : Add(r, q)
  BY <1>2, AddKeeps
<1>3. CASE \E r \in Request : Refuse(r)
  BY <1>3, FailKeeps DEF Refuse
<1>4. CASE \E r \in Request : Step(r)
  <2>1. PICK r \in Request : Step(r)
    BY <1>4
  <2>2. DeadlockVictim(r) => TxInv'
    BY FailKeeps DEF DeadlockVictim
  <2> QED
    BY <2>1, <2>2, LookMarkKeeps, WriteMarkKeeps, RereadKeeps, FlushKeeps, CommitKeeps DEF Step
<1>5. CASE \E r \in Request : Abort(r)
  BY <1>5, FailKeeps DEF Abort
<1>6. CASE Ended
  BY <1>6, StutterTx DEF Ended
<1>7. CASE UNCHANGED vars
  BY <1>7, StutterTx
<1> QED
  BY <1>1, <1>2, <1>3, <1>4, <1>5, <1>6, <1>7 DEF Next

(* However requests overlap: what a transaction has done fits the tables,  *)
(* what it has left to do is what its request was asked for.               *)
THEOREM TxInvHolds == Spec => []TxInv
  BY InitTx, StepTx, PTL DEF Spec

(* The tables, the transactions and the locks keep their shape.            *)
THEOREM TxTypesHold == Spec => []TypeOK
<1>1. TxInv => TypeOK
  BY DEF TxInv
<1> QED
  BY <1>1, TxInvHolds, PTL

(* However requests overlap, a mark never outlives its copy, and none is   *)
(* added to a copy that is gone (the foreign keys of book_reads,           *)
(* book_abandonments and reading_sessions).                                *)
THEOREM TxNoOrphanMark == Spec => []MarksHaveBook
<1>1. TxInv => MarksHaveBook
  BY DEF TxInv
<1> QED
  BY <1>1, TxInvHolds, PTL

\* Only its own commit takes a request from "commit" to "done".
LEMMA CommitsIsCommit ==
  ASSUME TypeOK, [Next]_vars, NEW r \in Request, Commits(r)
  PROVE  Commit(r)
<1>1. pc[r] = "commit" /\ pc'[r] = "done"
  BY DEF Commits
<1>2. ASSUME NEW u \in Request, NEW x, pc' = [pc EXCEPT ![u] = x],
             pc[u] # "commit" \/ x # "done"
      PROVE  FALSE
  BY <1>1, <1>2 DEF TypeOK
<1>3. ASSUME NEW u \in Request, Fail(u)
      PROVE  FALSE
  BY <1>2, <1>3 DEF Fail, End
<1>4. ASSUME NEW u \in Request, NEW q, Load(u, q) \/ Add(u, q)
      PROVE  FALSE
  <2>1. pc[u] = "idle" /\ \E x : pc' = [pc EXCEPT ![u] = x]
    BY <1>4 DEF Load, Add
  <2> QED
    BY <1>2, <2>1
<1>5. ASSUME NEW u \in Request, NEW ins, NEW del, MarkDone(u, ins, del), pc[u] = "write"
      PROVE  FALSE
  BY <1>2, <1>5 DEF MarkDone
<1>6. ASSUME NEW u \in Request, LookMark(u) \/ WriteMark(u)
      PROVE  FALSE
  BY <1>2, <1>3, <1>5, <1>6 DEF LookMark, WriteMark
<1>7. ASSUME NEW u \in Request, Reread(u) \/ Flush(u)
      PROVE  FALSE
  <2>1. CASE Fail(u)
    BY <1>3, <2>1
  <2>2. CASE pc[u] \in {"save", "flush"} /\ \E x : pc' = [pc EXCEPT ![u] = x]
    BY <1>2, <2>2
  <2> QED
    BY <1>7, <2>1, <2>2 DEF Reread, Flush
<1>8. ASSUME NEW u \in Request, Refuse(u) \/ Abort(u) \/ DeadlockVictim(u)
      PROVE  FALSE
  BY <1>3, <1>8 DEF Refuse, Abort, DeadlockVictim
<1>9. ASSUME NEW u \in Request, Commit(u), u # r
      PROVE  FALSE
  <2>1. pc' = [pc EXCEPT ![u] = "done"]
    BY <1>9 DEF Commit, End
  <2> QED
    BY <1>1, <1>9, <2>1 DEF TypeOK
<1>10. ~UNCHANGED vars
  BY <1>1 DEF vars, txVars
<1>11. ~Ended
  BY <1>10 DEF Ended
<1>12. \E u \in Request :
         \/ \E q \in Reqs : Load(u, q)
         \/ \E q \in AddReqs : Add(u, q)
         \/ Refuse(u)
         \/ Step(u)
         \/ Abort(u)
  BY <1>10, <1>11 DEF Next
<1> QED
  BY <1>4, <1>6, <1>7, <1>8, <1>9, <1>12 DEF Step

LEMMA PersonalStep ==
  ASSUME TxInv, NEW r \in Request, Commit(r), NEW q, q = tx[r].req
  PROVE  /\ \A k \in (marks \ marks') \cup (marks' \ marks) :
              \/ k[3] = q.by /\ k[2] \in About(q)
              \/ q.kind = "delete" /\ k[2] \in About(q)
         /\ ~tx[r].rival => /\ Promised(q) \subseteq marks'
                            /\ Withdrawn(q) \cap marks' = {}
<1>1. /\ InFlight(r) /\ tx[r].ops = <<>> /\ q \in Asked
  BY DEF TxInv, OwnOK, StageOK, Commit, InFlight
<1>2. ASSUME NEW k \in (marks \ marks') \cup (marks' \ marks)
      PROVE  \/ k[3] = q.by /\ k[2] \in About(q)
             \/ q.kind = "delete" /\ k[2] \in About(q)
  <2>1. CASE k \in tx[r].ins \cup tx[r].del
    BY <2>1, CommitFacts
  <2>2. CASE k \notin tx[r].ins \cup tx[r].del
    <3>1. k \in marks /\ Deleting(r, k[2])
      BY <2>2, CommitFacts DEF Effective
    <3>2. k[2] \in Book
      BY <3>1 DEF TxInv, TypeOK, CopyTypeOK, Mark
    <3> QED
      BY <3>1, <3>2, CommitFacts
  <2> QED
    BY <2>1, <2>2
<1>3. ASSUME ~tx[r].rival
      PROVE  Promised(q) \subseteq marks' /\ Withdrawn(q) \cap marks' = {}
  <2>1. Promised(q) \subseteq Effective(r) /\ Withdrawn(q) \cap Effective(r) = {}
    BY <1>1, <1>3 DEF TxInv, OwnOK, DueOK
  <2>2. \A k \in Promised(q) : ~Deleting(r, k[2])
    <3>1. \A k \in Promised(q) : k[2] \in Book /\ q.kind # "delete"
      BY <1>1, MarkOpsFor, ReqFacts, CommitFacts
    <3> QED
      BY <3>1, CommitFacts
  <2> QED
    BY <2>1, <2>2, CommitFacts
<1> QED
  BY <1>2, <1>3

(* One member's marks are out of reach of everybody else's requests,       *)
(* however they interleave: a commit changes the marks of its own member   *)
(* only, or takes those of a copy it deletes, and a request no other one   *)
(* interfered with commits exactly the marks it was asked for.             *)
THEOREM MarksArePersonal == Spec => PersonalMarks
<1> DEFINE P == \A r \in Request : Commits(r) =>
             LET q == tx[r].req
             IN  /\ \A k \in (marks \ marks') \cup (marks' \ marks) :
                      \/ k[3] = q.by /\ k[2] \in About(q)
                      \/ q.kind = "delete" /\ k[2] \in About(q)
                 /\ ~tx[r].rival => /\ Promised(q) \subseteq marks'
                                    /\ Withdrawn(q) \cap marks' = {}
<1>1. TxInv /\ [Next]_vars => [P]_vars
  <2> SUFFICES ASSUME TxInv, [Next]_vars, NEW r \in Request, Commits(r)
               PROVE  LET q == tx[r].req
                      IN  /\ \A k \in (marks \ marks') \cup (marks' \ marks) :
                               \/ k[3] = q.by /\ k[2] \in About(q)
                               \/ q.kind = "delete" /\ k[2] \in About(q)
                          /\ ~tx[r].rival => /\ Promised(q) \subseteq marks'
                                             /\ Withdrawn(q) \cap marks' = {}
    OBVIOUS
  <2>1. Commit(r)
    BY CommitsIsCommit DEF TxInv
  <2> QED
    BY <2>1, PersonalStep
<1> QED
  BY <1>1, TxInvHolds, PTL DEF Spec, PersonalMarks

----------------------------------------------------------------------------
(***************************************************************************)
(* Requests one after the other. Where a request is answered before the    *)
(* next one begins, nothing it has read changes under it: what it has      *)
(* written is what its handler does to the rows as they were, and its      *)
(* commit is that handler of OwnedCopy in one step.                        *)
(***************************************************************************)
Items(s) == {s[i] : i \in 1 .. Len(s)}

EachOnce(s) == \A i, j \in 1 .. Len(s) : s[i] = s[j] => i = j

\* The write that makes of a row what the request asks for.
WriteFor(q, b) ==
  IF q.kind = "delete" THEN Delete ELSE Update(Changed(q, books[b]), books[b])

\* A request about copies that are there has written the rows it is not still
\* to save, as they have been since it read them.
EditOK(r) ==
  LET t == tx[r]
      done == Items(Saved(t.req)) \ Items(t.queue)
  IN  /\ \A b \in About(t.req) : Present(b) /\ t.mem[b] = Changed(t.req, books[b])
      /\ Items(t.queue) \subseteq Items(Saved(t.req))
      /\ \A b \in Book : t.rows[b] = IF b \in done THEN WriteFor(t.req, b) ELSE NoWrite
      /\ t.log = EventOf(t.req.kind) \X done
      /\ pc[r] = "flush" => t.plan = WriteFor(t.req, t.queue[1])

\* A request that adds a copy has written it under a fresh identifier.
AddOK(r) ==
  LET t == tx[r]
      a == t.req.targets[1]
  IN  /\ Fresh(a)
      /\ \A b \in Book : t.rows[b] =
           IF b = a THEN Insert(NewRow(t.req.by, t.req.asks, t.req.place)) ELSE NoWrite
      /\ t.log = {"created"} \X {a}

SerialOK(r) ==
  InFlight(r) =>
    /\ ~tx[r].rival
    /\ EachOnce(tx[r].queue)
    /\ IF tx[r].req.kind = "add" THEN AddOK(r) ELSE EditOK(r)

SerialInv ==
  /\ \A r, s \in Request : InFlight(r) /\ InFlight(s) => r = s
  /\ \A r \in Request : SerialOK(r)

LEMMA TailItems ==
  ASSUME NEW S, NEW q \in Seq(S), q # <<>>, EachOnce(q)
  PROVE  /\ EachOnce(Tail(q)) /\ q[1] \in Items(q)
         /\ Items(Tail(q)) = Items(q) \ {q[1]}
<1> DEFINE rest == Tail(q)
<1>1. /\ rest \in Seq(S) /\ 1 \in 1 .. Len(q)
      /\ \A i \in 1 .. Len(rest) : i + 1 \in 1 .. Len(q) /\ rest[i] = q[i + 1]
      /\ \A i \in 1 .. Len(q) :
           i = 1 \/ (i - 1 \in 1 .. Len(rest) /\ rest[i - 1] = q[i])
  BY TailFacts
<1> HIDE DEF rest
<1>2. \A i \in 1 .. Len(rest) : i + 1 # 1
  OBVIOUS
<1>3. ASSUME NEW i \in 1 .. Len(rest), NEW j \in 1 .. Len(rest), rest[i] = rest[j]
      PROVE  i = j
  <2>1. i + 1 = j + 1
    BY <1>1, <1>3 DEF EachOnce
  <2> QED
    BY <2>1
<1>4. ASSUME NEW x \in Items(rest)
      PROVE  x \in Items(q) /\ x # q[1]
  <2>1. PICK i \in 1 .. Len(rest) : x = rest[i]
    BY DEF Items
  <2>2. i + 1 \in 1 .. Len(q) /\ x = q[i + 1] /\ i + 1 # 1
    BY <1>1, <1>2, <2>1
  <2> QED
    BY <1>1, <2>2 DEF Items, EachOnce
<1>5. \A x \in Items(q) : x # q[1] => x \in Items(rest)
  BY <1>1 DEF Items
<1>6. EachOnce(rest) /\ q[1] \in Items(q)
  BY <1>1, <1>3 DEF EachOnce, Items
<1>7. Items(rest) = Items(q) \ {q[1]}
  BY <1>4, <1>5
<1> QED
  BY <1>6, <1>7 DEF rest

\* What a request has to save: its copies, each once, or nothing.
LEMMA SavedFacts ==
  ASSUME NEW q \in Asked
  PROVE  /\ Saved(q) \in Seq(Book) /\ EachOnce(Saved(q))
         /\ Items(Saved(q)) \subseteq About(q)
         /\ Saved(q) # <<>> => Items(Saved(q)) = About(q)
<1>1. q.targets \in Seq(Book) /\ Items(q.targets) = About(q) /\ EachOnce(q.targets)
  <2>1. q.targets \in Seq(Book)
    BY ReqFacts DEF Req
  <2>2. CASE q.kind \in Single
    <3>1. q.targets = <<q.targets[1]>>
      BY <2>2, ReqFacts
    <3>2. EachOnce(<<q.targets[1]>>)
      BY DEF EachOnce
    <3> QED
      BY <2>1, <3>1, <3>2 DEF Items, About
  <2>3. CASE q.kind \notin Single
    <3>1. q.targets \in Orders
      BY <2>3, ReqFacts
    <3> QED
      BY <2>1, <3>1, OrdersAreOfBooks DEF Items, About, EachOnce
  <2> QED
    BY <2>2, <2>3
<1>2. Saved(q) \in {q.targets, <<>>}
  BY DEF Saved
<1>3. <<>> \in Seq(Book) /\ EachOnce(<<>>) /\ Items(<<>>) = {}
  BY DEF EachOnce, Items
<1> QED
  BY <1>1, <1>2, <1>3

\* An UPDATE sets what the request changed, and leaves what it did not.
LEMMA UpdateChanges ==
  ASSUME NEW new \in Row, NEW old \in Row
  PROVE  Applied(Update(new, old), old) = new
<1>1. \A x, y : x # Keep => Set(Diff(x, y), y) = x
  BY DEF Set, Diff
<1>2. /\ new.reader # Keep /\ new.status # Keep /\ new.place # Keep
  BY KeepIsNoValue DEF Row
<1>3. \A q : q.kind # "delete" => Sound(Update(new, old), q)
  BY PlansAreSound
<1>4. PICK q : q = [kind |-> "move"]
  OBVIOUS
<1>5. Update(new, old) # NoWrite
  BY <1>3, <1>4, NoWriteIsNoWrite DEF Sound
<1>6. /\ Update(new, old).op = "update"
      /\ Update(new, old).reader = Diff(new.reader, old.reader)
      /\ Update(new, old).status = Diff(new.status, old.status)
      /\ Update(new, old).place = Diff(new.place, old.place)
  BY DEF Update, W
<1>7. Applied(Update(new, old), old) =
        [reader |-> Set(Update(new, old).reader, old.reader),
         status |-> Set(Update(new, old).status, old.status),
         place  |-> Set(Update(new, old).place, old.place)]
  <2> DEFINE w == Update(new, old)
  <2> HIDE DEF w
  <2>1. w # NoWrite /\ w.op = "update"
    BY <1>5, <1>6 DEF w
  <2>2. Applied(w, old) = [reader |-> Set(w.reader, old.reader),
                           status |-> Set(w.status, old.status),
                           place  |-> Set(w.place, old.place)]
    BY <2>1 DEF Applied
  <2> QED
    BY <2>2 DEF w
<1>8. new = [reader |-> new.reader, status |-> new.status, place |-> new.place]
  BY DEF Row
<1> QED
  BY <1>1, <1>2, <1>6, <1>7, <1>8

\* A step of the one request in flight that leaves the tables alone.
LEMMA AloneKeeps ==
  ASSUME SerialInv, NEW r \in Request,
         \A s \in Request : s # r => pc'[s] = pc[s] /\ tx'[s] = tx[s],
         InFlight(r)' => \A s \in Request : s # r => ~InFlight(s),
         SerialOK(r)',
         UNCHANGED copyVars \/ \A s \in Request : s # r => ~InFlight(s)
  PROVE  SerialInv'
<1>1. \A s \in Request : s # r => (InFlight(s)' <=> InFlight(s))
  BY DEF InFlight
<1>2. ASSUME NEW s \in Request, s # r, InFlight(s)
      PROVE  SerialOK(s)'
  <2>1. UNCHANGED <<books, marks, history>>
    BY <1>2 DEF copyVars
  <2>2. SerialOK(s)
    BY DEF SerialInv
  <2>3. pc'[s] = pc[s] /\ tx'[s] = tx[s]
    BY <1>2
  <2>5. AddOK(s) => AddOK(s)'
    BY <2>1, <2>3 DEF AddOK, Fresh, Present, Recorded
  <2>6. EditOK(s) => EditOK(s)'
    BY <2>1, <2>3 DEF EditOK, Saved, Claims, WriteFor, Present
  <2> QED
    BY <1>1, <1>2, <2>2, <2>3, <2>5, <2>6 DEF SerialOK
<1>3. \A s \in Request : SerialOK(s)'
  BY <1>1, <1>2 DEF SerialOK
<1> QED
  BY <1>1, <1>3 DEF SerialInv

LEMMA FailAlone ==
  ASSUME SerialInv, TypeOK, NEW r \in Request, Fail(r)
  PROVE  SerialInv'
<1>1. /\ ~InFlight(r)' /\ UNCHANGED copyVars
      /\ \A s \in Request : s # r => tx'[s] = tx[s] /\ pc'[s] = pc[s]
  BY EndTypes DEF Fail
<1>2. SerialOK(r)'
  BY <1>1 DEF SerialOK
<1> QED
  BY <1>1, <1>2, AloneKeeps

LEMMA CommitAlone ==
  ASSUME SerialInv, TypeOK, NEW r \in Request, Commit(r)
  PROVE  SerialInv'
<1>1. InFlight(r) /\ End(r, "done")
  BY DEF Commit, InFlight
<1>2. /\ ~InFlight(r)'
      /\ \A s \in Request : s # r => tx'[s] = tx[s] /\ pc'[s] = pc[s]
  BY <1>1, EndTypes
<1>3. \A s \in Request : s # r => ~InFlight(s)
  BY <1>1 DEF SerialInv
<1>4. SerialOK(r)'
  BY <1>2 DEF SerialOK
<1> QED
  BY <1>2, <1>3, <1>4, AloneKeeps

\* A step that saves nothing.
LEMMA SameAlone ==
  ASSUME SerialInv, NEW r \in Request, InFlight(r), UNCHANGED copyVars,
         \A s \in Request : s # r => pc'[s] = pc[s] /\ tx'[s] = tx[s],
         tx'[r].req = tx[r].req, tx'[r].mem = tx[r].mem, tx'[r].queue = tx[r].queue,
         tx'[r].rows = tx[r].rows, tx'[r].log = tx[r].log, tx'[r].rival = tx[r].rival,
         pc'[r] = "flush" =>
           tx[r].req.kind = "add" \/ tx'[r].plan = WriteFor(tx[r].req, tx[r].queue[1])
  PROVE  SerialInv'
<1>1. UNCHANGED <<books, marks, history>>
  BY DEF copyVars
<1>2. SerialOK(r)
  BY DEF SerialInv
<1>3. AddOK(r) => AddOK(r)'
  BY <1>1 DEF AddOK, Fresh, Present, Recorded
<1>4. EditOK(r) /\ tx[r].req.kind # "add" => EditOK(r)'
  <2>1. UNCHANGED books /\ pc'[r] = "flush" /\ tx[r].req.kind # "add" =>
          tx'[r].plan = WriteFor(tx[r].req, tx[r].queue[1])
    BY <1>1
  <2>2. /\ About(tx'[r].req) = About(tx[r].req)
        /\ Saved(tx[r].req)' = Saved(tx[r].req)
        /\ \A b : /\ Changed(tx[r].req, books[b])' = Changed(tx[r].req, books[b])
                 /\ WriteFor(tx[r].req, b)' = WriteFor(tx[r].req, b)
    BY <1>1 DEF Saved, Claims, WriteFor, Present
  <2> QED
    BY <1>1, <2>1, <2>2 DEF EditOK, Present
<1>5. SerialOK(r)'
  BY <1>2, <1>3, <1>4 DEF SerialOK
<1>6. \A s \in Request : s # r => ~InFlight(s)
  BY DEF SerialInv
<1> QED
  BY <1>5, <1>6, AloneKeeps

\* A request that begins alone has written nothing.
LEMMA LoadAlone ==
  ASSUME TxInv, SerialInv, ~Overlap, NEW r \in Request, NEW q \in Reqs, Load(r, q)
  PROVE  SerialInv'
<1>1. \A s \in Request : ~InFlight(s)
  BY DEF Load
<1>2. /\ \A b \in About(q) : Present(b)
      /\ UNCHANGED <<books, marks, history, lock>>
      /\ q \in Asked /\ q.kind # "add"
      /\ tx'[r].req = q /\ tx'[r].queue = Saved(q)
      /\ tx'[r].rows = NoRows /\ tx'[r].log = {}
      /\ \A b \in About(q) : b \in Book /\ tx'[r].mem[b] = Changed(q, books[b])
      /\ pc'[r] = Onward(MarkOps(q), Saved(q))
  BY LoadFacts
<1>3. ~tx'[r].rival /\ \A s \in Request : s # r => pc'[s] = pc[s] /\ tx'[s] = tx[s]
  BY <1>1, LoadFacts
<1>4. EachOnce(Saved(q))
  BY <1>2, SavedFacts
<1>5. pc'[r] # "flush"
  BY <1>2, OnwardFacts
<1>6. UNCHANGED Saved(q)
  BY <1>2 DEF Saved
<1>7. EditOK(r)'
  <2>1. \A b \in About(q) : Present(b)' /\ tx'[r].mem[b] = Changed(q, books'[b])
    BY <1>2 DEF Present
  <2>2. Items(Saved(q)) \ Items(Saved(q)) = {}
    OBVIOUS
  <2>3. \A b \in Book : tx'[r].rows[b] = NoWrite
    BY <1>2 DEF NoRows
  <2>4. \A E : E \X {} = {}
    OBVIOUS
  <2> QED
    BY <1>2, <1>5, <1>6, <2>1, <2>2, <2>3, <2>4 DEF EditOK
<1>8. SerialOK(r)'
  BY <1>2, <1>3, <1>4, <1>7 DEF SerialOK
<1> QED
  BY <1>1, <1>3, <1>8, AloneKeeps

LEMMA AddAlone ==
  ASSUME TxInv, SerialInv, ~Overlap, NEW r \in Request, NEW q \in AddReqs, Add(r, q)
  PROVE  SerialInv'
<1>1. \A s \in Request : ~InFlight(s)
  BY DEF Add
<1>2. PICK b, row : b = q.targets[1] /\ row = NewRow(q.by, q.asks, q.place)
  OBVIOUS
<1>3. /\ Fresh(b) /\ q.kind = "add" /\ UNCHANGED <<books, marks, history>>
      /\ tx'[r].req = q /\ tx'[r].queue = <<>> /\ ~tx'[r].rival
      /\ tx'[r].log = {"created"} \X {b}
      /\ tx'[r].rows[b] = Insert(row)
      /\ \A a \in Book : a # b => tx'[r].rows[a] = NoWrite
      /\ \A s \in Request : s # r => pc'[s] = pc[s] /\ tx'[s] = tx[s]
  BY <1>2, AddFacts
<1>4. EachOnce(<<>>)
  BY DEF EachOnce
<1>5. Fresh(b)'
  BY <1>3 DEF Fresh, Present, Recorded
<1>6. AddOK(r)'
  BY <1>2, <1>3, <1>5 DEF AddOK
<1>7. SerialOK(r)'
  BY <1>3, <1>4, <1>6 DEF SerialOK
<1> QED
  BY <1>1, <1>3, <1>7, AloneKeeps

LEMMA MarkAlone ==
  ASSUME TxInv, SerialInv, NEW r \in Request, LookMark(r) \/ WriteMark(r)
  PROVE  SerialInv'
<1>1. InFlight(r) /\ tx[r] \in TxState /\ TypeOK
  BY DEF TxInv, TypeOK, LookMark, WriteMark, InFlight
<1>2. CASE LookMark(r)
  <2>1. PICK found : tx' = [tx EXCEPT ![r].found = found]
    BY <1>2 DEF LookMark
  <2>2. PICK t : t = [tx[r] EXCEPT !.found = found]
    OBVIOUS
  <2>3. /\ t.req = tx[r].req /\ t.mem = tx[r].mem /\ t.queue = tx[r].queue
        /\ t.rows = tx[r].rows /\ t.log = tx[r].log /\ t.rival = tx[r].rival
    BY <1>1, <2>2 DEF TxState
  <2>4. tx' = [tx EXCEPT ![r] = t]
    BY <2>1, <2>2
  <2>5. pc' = [pc EXCEPT ![r] = "write"] /\ UNCHANGED copyVars
    BY <1>2 DEF LookMark
  <2>6. /\ tx'[r] = t /\ pc'[r] = "write"
        /\ \A s \in Request : s # r => pc'[s] = pc[s] /\ tx'[s] = tx[s]
    BY <1>1, <2>4, <2>5 DEF TypeOK
  <2> QED
    BY <1>1, <2>3, <2>5, <2>6, SameAlone
<1>3. ASSUME NEW ins, NEW del, MarkDone(r, ins, del)
      PROVE  SerialInv'
  <2> DEFINE rest == Tail(tx[r].ops)
             t == [tx[r] EXCEPT !.ops = rest, !.found = FALSE, !.ins = ins, !.del = del]
             p == Onward(rest, tx[r].queue)
  <2>1. tx' = [tx EXCEPT ![r] = t] /\ pc' = [pc EXCEPT ![r] = p] /\ UNCHANGED copyVars
    BY <1>3 DEF MarkDone
  <2> HIDE DEF rest
  <2>2. p # "flush"
    BY OnwardFacts
  <2>3. /\ t.req = tx[r].req /\ t.mem = tx[r].mem /\ t.queue = tx[r].queue
        /\ t.rows = tx[r].rows /\ t.log = tx[r].log /\ t.rival = tx[r].rival
    BY <1>1 DEF TxState
  <2> HIDE DEF t, p
  <2>4. /\ tx'[r] = t /\ pc'[r] = p
        /\ \A s \in Request : s # r => pc'[s] = pc[s] /\ tx'[s] = tx[s]
    BY <1>1, <2>1 DEF TypeOK
  <2> QED
    BY <1>1, <2>1, <2>2, <2>3, <2>4, SameAlone
<1>4. CASE WriteMark(r)
  <2>1. Fail(r) \/ \E ins, del : MarkDone(r, ins, del)
    BY <1>4 DEF WriteMark
  <2> QED
    BY <1>1, <1>3, <2>1, FailAlone
<1> QED
  BY <1>2, <1>4

\* Nothing has changed since the request read the row: save() decides on
\* what the handler changed, or the deletion.
LEMMA RereadAlone ==
  ASSUME TxInv, SerialInv, NEW r \in Request, Reread(r)
  PROVE  SerialInv'
<1> DEFINE q == tx[r].req
           b == tx[r].queue[1]
<1>1. /\ pc[r] = "save" /\ InFlight(r) /\ tx[r] \in TxState /\ tx[r].queue # <<>>
      /\ pc' = [pc EXCEPT ![r] = "flush"] /\ UNCHANGED copyVars
  BY DEF Reread, TxInv, TypeOK, OwnOK, StageOK, InFlight
<1>2. b \in About(q) /\ q.kind # "add"
  BY <1>1, QueueHead
<1>3. Present(b) /\ tx[r].mem[b] = Changed(q, books[b])
  BY <1>1, <1>2 DEF SerialInv, SerialOK, EditOK
<1>4. tx' = [tx EXCEPT ![r].plan = WriteFor(q, b)]
  <2>1. CASE q.kind = "delete"
    BY <2>1 DEF Reread, WriteFor
  <2>2. CASE q.kind # "delete"
    BY <1>3, <2>2 DEF Reread, WriteFor
  <2> QED
    BY <2>1, <2>2
<1>5. PICK w : w = WriteFor(q, b)
  OBVIOUS
<1>6. PICK t : t = [tx[r] EXCEPT !.plan = w]
  OBVIOUS
<1>7. /\ t.req = q /\ t.mem = tx[r].mem /\ t.queue = tx[r].queue
      /\ t.rows = tx[r].rows /\ t.log = tx[r].log /\ t.rival = tx[r].rival
      /\ t.plan = w
  BY <1>1, <1>6 DEF TxState
<1>8. tx' = [tx EXCEPT ![r] = t]
  BY <1>4, <1>5, <1>6
<1>9. /\ tx'[r] = t
      /\ \A s \in Request : s # r => pc'[s] = pc[s] /\ tx'[s] = tx[s]
  BY <1>1, <1>8 DEF TxInv, TypeOK
<1> QED
  BY <1>1, <1>5, <1>7, <1>9, SameAlone

\* The flush writes the row that is next, and no other.
LEMMA FlushAlone ==
  ASSUME TxInv, SerialInv, NEW r \in Request, Flush(r)
  PROVE  SerialInv'
<1> DEFINE q == tx[r].req
           b == tx[r].queue[1]
           w == tx[r].plan
           rest == Tail(tx[r].queue)
           p == Onward(<<>>, rest)
           done == Items(Saved(q)) \ Items(tx[r].queue)
<1>1. /\ pc[r] = "flush" /\ InFlight(r) /\ tx[r] \in TxState /\ TypeOK
      /\ tx[r].queue # <<>> /\ tx[r].queue \in Seq(Book) /\ Sound(w, q)
  BY DEF Flush, TxInv, TypeOK, TxState, OwnOK, StageOK, InFlight
<1>2. b \in Book /\ b \in About(q) /\ q.kind # "add"
  BY <1>1, QueueHead
<1>3. EditOK(r) /\ EachOnce(tx[r].queue) /\ ~tx[r].rival
  BY <1>1, <1>2 DEF SerialInv, SerialOK
<1>4. Present(b) /\ w = WriteFor(q, b) /\ w # NoWrite
  BY <1>1, <1>2, <1>3, NoWriteIsNoWrite DEF EditOK, Sound
<1>5. /\ EachOnce(rest) /\ b \in Items(tx[r].queue)
      /\ Items(rest) = Items(tx[r].queue) \ {b}
  BY <1>1, <1>3, TailItems
<1>6. Items(Saved(q)) \ Items(rest) = done \cup {b} /\ Items(rest) \subseteq Items(Saved(q))
  BY <1>3, <1>5 DEF EditOK
<1>7. CASE Fail(r)
  BY <1>1, <1>7, FailAlone
<1>8. ASSUME tx' = [tx EXCEPT ![r] = Wrote(tx[r], w)],
             pc' = [pc EXCEPT ![r] = p],
             UNCHANGED copyVars
      PROVE  SerialInv'
  <2>1. PICK t : /\ t = Wrote(tx[r], w)
                 /\ t.req = q /\ t.mem = tx[r].mem /\ t.queue = rest
                 /\ t.rival = tx[r].rival
                 /\ t.rows[b] = w /\ \A a \in Book : a # b => t.rows[a] = tx[r].rows[a]
                 /\ t.log = tx[r].log \cup (EventOf(q.kind) \X {b})
    BY <1>1, WroteFacts
  <2> HIDE DEF rest
  <2>2. p # "flush"
    BY OnwardFacts
  <2> HIDE DEF p
  <2>3. /\ tx'[r] = t /\ pc'[r] = p
        /\ \A s \in Request : s # r => pc'[s] = pc[s] /\ tx'[s] = tx[s]
    BY <1>1, <1>8, <2>1 DEF TypeOK
  <2>4. UNCHANGED <<books, marks, history>>
    BY <1>8 DEF copyVars
  <2>5. PICK D : D = done \cup {b}
    OBVIOUS
  <2>6. \A a \in Book : t.rows[a] = IF a \in D THEN WriteFor(q, a) ELSE NoWrite
    BY <1>3, <1>4, <2>1, <2>5 DEF EditOK
  <2>7. t.log = EventOf(q.kind) \X D
    <3>1. tx[r].log = EventOf(q.kind) \X done
      BY <1>3 DEF EditOK
    <3> QED
      BY <2>1, <2>5, <3>1
  <2>8. \A a \in About(q) : Present(a) /\ t.mem[a] = Changed(q, books[a])
    BY <1>3, <2>1 DEF EditOK
  <2>9. Items(Saved(q)) \ Items(rest) = D /\ Items(rest) \subseteq Items(Saved(q))
    BY <1>6, <2>5
  <2>10. EditOK(r)'
    <3>1. PICK x : x = q
      OBVIOUS
    <3>2. /\ Saved(x)' = Saved(x)
          /\ \A a : WriteFor(x, a)' = WriteFor(x, a) /\ (Present(a)' <=> Present(a))
      BY <2>4 DEF Saved, Claims, WriteFor, Present
    <3>3. tx'[r].req = x /\ tx'[r].queue = rest /\ tx'[r].mem = t.mem
          /\ tx'[r].rows = t.rows /\ tx'[r].log = EventOf(x.kind) \X D /\ pc'[r] # "flush"
      BY <2>1, <2>2, <2>3, <2>7, <3>1
    <3>4. Items(Saved(x)) \ Items(rest) = D /\ Items(rest) \subseteq Items(Saved(x))
      BY <2>9, <3>1
    <3>5. \A a \in Book : t.rows[a] = IF a \in D THEN WriteFor(x, a) ELSE NoWrite
      BY <2>6, <3>1
    <3>6. \A a \in About(x) : Present(a) /\ t.mem[a] = Changed(x, books[a])
      BY <2>8, <3>1
    <3> HIDE DEF q, done, w, b
    <3> QED
      BY <2>4, <3>2, <3>3, <3>4, <3>5, <3>6 DEF EditOK
  <2>11. SerialOK(r)'
    BY <1>2, <1>3, <1>5, <2>1, <2>3, <2>10 DEF SerialOK
  <2>12. \A s \in Request : s # r => ~InFlight(s)
    BY <1>1 DEF SerialInv
  <2> QED
    BY <1>8, <2>3, <2>11, <2>12, AloneKeeps
<1>9. CASE /\ w.op # "insert" <=> Present(b)
           /\ tx' = [tx EXCEPT ![r] = Wrote(tx[r], w)]
           /\ lock' = [lock EXCEPT ![b] = r]
           /\ pc' = [pc EXCEPT ![r] = p]
           /\ UNCHANGED copyVars
  BY <1>8, <1>9
<1> QED
  BY <1>4, <1>7, <1>9 DEF Flush

LEMMA SerialStep ==
  ASSUME ~Overlap
  PROVE  TxInv /\ SerialInv /\ [Next]_vars => SerialInv'
<1> SUFFICES ASSUME TxInv, SerialInv, [Next]_vars PROVE SerialInv'
  OBVIOUS
<1> USE DEF TxInv
<1>1. CASE \E r \in Request : \E q \in Reqs : Load(r, q)
  BY <1>1, LoadAlone
<1>2. CASE \E r \in Request : \E q \in AddReqs : Add(r, q)
  BY <1>2, AddAlone
<1>3. CASE \E r \in Request : Refuse(r)
  BY <1>3, FailAlone DEF Refuse
<1>4. CASE \E r \in Request : Step(r)
  <2>1. PICK r \in Request : Step(r)
    BY <1>4
  <2>2. DeadlockVictim(r) => SerialInv'
    BY FailAlone DEF DeadlockVictim
  <2> QED
    BY <2>1, <2>2, MarkAlone, RereadAlone, FlushAlone, CommitAlone DEF Step
<1>5. CASE \E r \in Request : Abort(r)
  BY <1>5, FailAlone DEF Abort
<1>6. ASSUME UNCHANGED vars
      PROVE  SerialInv'
  <2>1. UNCHANGED <<books, marks, history, pc, tx>>
    BY <1>6 DEF vars, copyVars, txVars
  <2>2. ASSUME NEW r \in Request
        PROVE  SerialOK(r)'
    <3>1. SerialOK(r) /\ (InFlight(r)' <=> InFlight(r)) /\ tx'[r] = tx[r]
      BY <2>1 DEF SerialInv, InFlight
    <3>2. AddOK(r) => AddOK(r)'
      BY <2>1 DEF AddOK, Fresh, Present, Recorded
    <3>3. EditOK(r) => EditOK(r)'
      BY <2>1 DEF EditOK, Saved, Claims, WriteFor, Present
    <3> QED
      BY <3>1, <3>2, <3>3 DEF SerialOK
  <2> QED
    BY <2>1, <2>2 DEF SerialInv, InFlight
<1> QED
  BY <1>1, <1>2, <1>3, <1>4, <1>5, <1>6 DEF Next, Ended

LEMMA InitAlone == Init => SerialInv
BY DEF Init, SerialInv, SerialOK, InFlight

(* Requests made one after the other find what they read unchanged.        *)
THEOREM SerialInvHolds ==
  ASSUME ~Overlap
  PROVE  Spec => [](TxInv /\ SerialInv)
<1>1. Init => TxInv /\ SerialInv
  BY InitTx, InitAlone
<1>2. TxInv /\ [Next]_vars => TxInv'
  BY StepTx
<1>3. TxInv /\ SerialInv /\ [Next]_vars => SerialInv'
  BY SerialStep
<1> QED
  BY <1>1, <1>2, <1>3, PTL DEF Spec

----------------------------------------------------------------------------
(* A commit is the handler of OwnedCopy. *)

\* The marks an undisturbed request commits.
LEMMA MarksCommitted ==
  ASSUME TxInv, NEW r \in Request, Commit(r), ~tx[r].rival, NEW q, q = tx[r].req
  PROVE  \A k : k \in marks' <=>
           k \in (marks \ Withdrawn(q)) \cup Promised(q) /\ ~Deleting(r, k[2])
<1>1. InFlight(r) /\ tx[r].ops = <<>>
  BY DEF TxInv, OwnOK, StageOK, Commit, InFlight
<1>2. Promised(q) \subseteq Effective(r) /\ Withdrawn(q) \cap Effective(r) = {}
  BY <1>1 DEF TxInv, OwnOK, DueOK
<1>3. tx[r].ins \subseteq Promised(q) /\ tx[r].del \subseteq Withdrawn(q)
  BY DEF TxInv, OwnOK, OpsOK
<1>4. Effective(r) = (marks \ Withdrawn(q)) \cup Promised(q)
  BY <1>2, <1>3 DEF Effective
<1> QED
  BY <1>4, CommitFacts

LEMMA EditCommits ==
  ASSUME TxInv, SerialInv, NEW r \in Request, Commit(r),
         NEW q, q = tx[r].req, q.kind # "add",
         NEW S, S = Items(Saved(q))
  PROVE  /\ q \in Asked /\ S \subseteq Book
         /\ \A b \in About(q) : Present(b) /\ books[b] \in Row
         /\ books \in [Book -> Row \cup {NoBook}] /\ books' \in [Book -> Row \cup {NoBook}]
         /\ \A b \in Book : books'[b] =
              IF b \in S THEN IF q.kind = "delete" THEN NoBook ELSE Changed(q, books[b])
              ELSE books[b]
         /\ \A k : k \in marks' <=>
              /\ k \in (marks \ Withdrawn(q)) \cup Promised(q)
              /\ q.kind = "delete" => k[2] \notin S
         /\ history' = history \cup (EventOf(q.kind) \X S)
<1>1. /\ InFlight(r) /\ q \in Asked /\ tx[r].queue = <<>>
      /\ books' = [b \in Book |-> Applied(tx[r].rows[b], books[b])]
      /\ history' = history \cup tx[r].log
      /\ pc[r] = "commit"
  BY DEF TxInv, OwnOK, StageOK, Commit, InFlight
<1>2. EditOK(r) /\ ~tx[r].rival
  BY <1>1 DEF SerialInv, SerialOK
<1>3. Items(<<>>) = {}
  BY DEF Items
<1>4. S \ Items(tx[r].queue) = S
  BY <1>1, <1>3
<1>5. /\ \A b \in Book : tx[r].rows[b] = IF b \in S THEN WriteFor(q, b) ELSE NoWrite
      /\ tx[r].log = EventOf(q.kind) \X S
      /\ \A b \in About(q) : Present(b)
  BY <1>2, <1>4 DEF EditOK
<1>6. S \subseteq About(q) /\ About(q) \subseteq Book
  BY <1>1, SavedFacts, ReqFacts
<1>7. books \in [Book -> Row \cup {NoBook}] /\ marks \subseteq Mark
  BY DEF TxInv, TypeOK, CopyTypeOK
<1>8. \A b \in About(q) : books[b] \in Row
  BY <1>5, <1>6, <1>7 DEF Present
<1>9. ASSUME NEW b \in S
      PROVE  /\ tx[r].rows[b] # NoWrite
             /\ tx[r].rows[b].op = "delete" <=> q.kind = "delete"
             /\ books'[b] = IF q.kind = "delete" THEN NoBook ELSE Changed(q, books[b])
  <2>1. tx[r].rows[b] = WriteFor(q, b) /\ books'[b] = Applied(WriteFor(q, b), books[b])
    BY <1>1, <1>5, <1>6, <1>9
  <2>2. Changed(q, books[b]) \in Row
    BY <1>1, <1>6, <1>8, <1>9, ChangedIsRow
  <2>3. CASE q.kind = "delete"
    <3>1. Sound(Delete, q) /\ Delete # NoWrite
      BY <1>6, <1>8, <1>9, <2>3, PlansAreSound, NoWriteIsNoWrite DEF Sound
    <3>2. Delete.op = "delete" /\ Applied(Delete, books[b]) = NoBook
      BY <2>3, <3>1 DEF Sound, Applied
    <3> QED
      BY <2>1, <2>3, <3>1, <3>2 DEF WriteFor
  <2>4. CASE q.kind # "delete"
    <3>1. WriteFor(q, b) = Update(Changed(q, books[b]), books[b])
      BY <2>4 DEF WriteFor
    <3>2. Sound(WriteFor(q, b), q)
      BY <1>6, <1>8, <1>9, <2>2, <2>4, <3>1, PlansAreSound
    <3>4. WriteFor(q, b) # NoWrite
      BY <3>2, NoWriteIsNoWrite DEF Sound
    <3>3. Applied(WriteFor(q, b), books[b]) = Changed(q, books[b])
      BY <1>6, <1>8, <1>9, <2>2, <3>1, UpdateChanges
    <3> QED
      BY <2>1, <2>4, <3>2, <3>3, <3>4 DEF Sound
  <2> QED
    BY <2>3, <2>4
<1>10. \A b \in Book : b \notin S => tx[r].rows[b] = NoWrite /\ books'[b] = books[b]
  BY <1>5, CommitFacts
<1>11. \A b \in Book : Deleting(r, b) <=> q.kind = "delete" /\ b \in S
  BY <1>9, <1>10 DEF Deleting
<1>12. \A k \in (marks \ Withdrawn(q)) \cup Promised(q) : k[2] \in Book
  <2>1. \A k \in marks : k[2] \in Book
    BY <1>7 DEF Mark
  <2>2. \A k \in Promised(q) : k[2] \in Book
    BY <1>6, CommitFacts
  <2> QED
    BY <2>1, <2>2
<1>13. \A k : k \in marks' <=>
         /\ k \in (marks \ Withdrawn(q)) \cup Promised(q)
         /\ q.kind = "delete" => k[2] \notin S
  BY <1>2, <1>11, <1>12, MarksCommitted
<1>14. books' \in [Book -> Row \cup {NoBook}]
  BY CommitFacts
<1> QED
  BY <1>1, <1>5, <1>6, <1>7, <1>8, <1>9, <1>10, <1>13, <1>14

LEMMA AddCommits ==
  ASSUME TxInv, SerialInv, NEW r \in Request, Commit(r), tx[r].req.kind = "add"
  PROVE  CopyNext
<1> DEFINE q == tx[r].req
<1>1. PICK b, m, s, p : b = q.targets[1] /\ m = q.by /\ s = q.asks /\ p = q.place
  OBVIOUS
<1>2. /\ InFlight(r) /\ q \in Asked
      /\ books' = [a \in Book |-> Applied(tx[r].rows[a], books[a])]
      /\ history' = history \cup tx[r].log
  BY DEF TxInv, OwnOK, StageOK, Commit, InFlight
<1>3. b \in Book /\ m \in Member /\ s \in Status /\ p \in Place
  BY <1>1, <1>2, ReqFacts DEF Single, Kind, Req
<1>4. AddOK(r) /\ ~tx[r].rival
  BY <1>2 DEF SerialInv, SerialOK
<1>5. PICK row : row = NewRow(m, s, p)
  OBVIOUS
<1>6. row \in Row
  BY <1>3, <1>5, NewRowIsRow
<1>7. /\ Fresh(b) /\ tx[r].rows[b] = Insert(row) /\ tx[r].log = {"created"} \X {b}
      /\ \A a \in Book : a # b => tx[r].rows[a] = NoWrite
  BY <1>1, <1>3, <1>4, <1>5 DEF AddOK
<1>8. Sound(Insert(row), q) /\ Insert(row) # NoWrite
  BY <1>6, PlansAreSound, NoWriteIsNoWrite DEF Sound
<1>9. Insert(row).op = "insert" /\ Applied(Insert(row), books[b]) = row
  <2>1. /\ Insert(row).op = "insert" /\ Insert(row).reader = row.reader
        /\ Insert(row).status = row.status /\ Insert(row).place = row.place
    BY DEF Insert, W
  <2>2. row = [reader |-> row.reader, status |-> row.status, place |-> row.place]
    BY <1>6 DEF Row
  <2>3. PICK w : w = Insert(row)
    OBVIOUS
  <2>4. Applied(w, books[b]) = [reader |-> w.reader, status |-> w.status, place |-> w.place]
    BY <1>8, <2>1, <2>3 DEF Applied
  <2> QED
    BY <2>1, <2>2, <2>3, <2>4
<1>10. books \in [Book -> Row \cup {NoBook}] /\ books' \in [Book -> Row \cup {NoBook}]
  BY CommitFacts DEF TxInv, TypeOK, CopyTypeOK
<1>11. \A a \in Book : books'[a] = IF a = b THEN row ELSE books[a]
  <2>1. books'[b] = row
    BY <1>2, <1>3, <1>7, <1>9
  <2>2. \A a \in Book : a # b => books'[a] = books[a]
    BY <1>7, CommitFacts
  <2> QED
    BY <2>1, <2>2
<1>12. books' = [books EXCEPT ![b] = row]
  BY <1>3, <1>10, <1>11
<1>13. \A a \in Book : ~Deleting(r, a)
  BY <1>7, <1>9 DEF Deleting
<1>14. Withdrawn(q) = {} /\ Promised(q) = {<<k, b, m>> : k \in {s} \cap {"read"}}
  <2>1. Withdrawn(q) = {}
    BY DEF Withdrawn
  <2>2. Promised(q) = IF s = "read" THEN {<<"read", b, m>>} ELSE {}
    BY <1>1 DEF Promised
  <2> QED
    BY <2>1, <2>2
<1>15. marks' = marks \cup {<<k, b, m>> : k \in {s} \cap {"read"}}
  <2>1. \A k \in marks : k[2] \in Book
    BY DEF TxInv, TypeOK, CopyTypeOK, Mark
  <2> QED
    BY <1>3, <1>4, <1>13, <1>14, <2>1, MarksCommitted
<1>16. AddBook(b, m, s, p)
  BY <1>2, <1>5, <1>7, <1>12, <1>15 DEF AddBook, Log
<1> QED
  BY <1>3, <1>16 DEF CopyNext

\* A request about one copy of one member: what its commit does, by kind.
LEMMA SingleCommits ==
  ASSUME TxInv, SerialInv, NEW r \in Request, Commit(r),
         tx[r].req.kind \notin {"add", "move", "delete"}
  PROVE  CopyNext
<1> DEFINE q == tx[r].req
<1>1. PICK b, m, s : b = q.targets[1] /\ m = q.by /\ s = q.asks
  OBVIOUS
<1>2. PICK S : S = Items(Saved(q))
  OBVIOUS
<1>3. /\ q \in Asked
      /\ \A a \in About(q) : Present(a) /\ books[a] \in Row
      /\ books \in [Book -> Row \cup {NoBook}] /\ books' \in [Book -> Row \cup {NoBook}]
      /\ \A a \in Book : books'[a] = IF a \in S THEN Changed(q, books[a]) ELSE books[a]
      /\ \A k : k \in marks' <=> k \in (marks \ Withdrawn(q)) \cup Promised(q)
      /\ history' = history \cup (EventOf(q.kind) \X S)
  BY <1>2, EditCommits
<1>4. /\ b \in Book /\ m \in Member /\ About(q) = {b} /\ q.targets = <<b>>
      /\ q.kind \in {"status", "metadata", "read", "unread", "session"} /\ s \in Asks
      /\ q.kind = "status" => s \in Status
  BY <1>1, <1>3, ReqFacts DEF Single, Kind, Req
<1>5. Present(b) /\ books[b] \in Row
  BY <1>3, <1>4
<1>6. Items(<<>>) = {} /\ Items(<<b>>) = {b}
  BY DEF Items
<1>7. marks' = (marks \ Withdrawn(q)) \cup Promised(q)
  BY <1>3
<1>8. CASE q.kind \in {"status", "metadata"}
  <2>1. S = {b}
    BY <1>2, <1>4, <1>6, <1>8 DEF Saved
  <2>2. EventOf(q.kind) = {q.kind}
    BY <1>8 DEF EventOf
  <2>3. Log(q.kind, {b})
    BY <1>3, <2>1, <2>2 DEF Log
  <2>4. CASE s # "none"
    <3>1. s \in Status
      BY <1>4, <2>4 DEF Asks
    <3>2. Changed(q, books[b]) = RowAfter(books[b], m, s)
      BY <1>1, <1>8, <2>4 DEF Changed, Claims
    <3>3. books' = [books EXCEPT ![b] = RowAfter(@, m, s)]
      BY <1>3, <1>4, <2>1, <3>2
    <3>4. Withdrawn(q) = Lost(b, m, s) /\ Promised(q) = Gained(b, m, s)
      BY <1>1, <1>8, <2>4 DEF Withdrawn, Promised
    <3>5. SetStatus(b, m, s, q.kind)
      BY <1>5, <1>7, <2>3, <3>3, <3>4 DEF SetStatus
    <3> QED
      BY <1>4, <1>8, <3>1, <3>5 DEF CopyNext, UpdateReadingStatus, UpdateBookMetadata
  <2>5. CASE s = "none"
    <3>1. q.kind = "metadata"
      BY <1>4, <1>8, <2>5 DEF Status
    <3>2. Changed(q, books[b]) = books[b]
      BY <1>1, <1>8, <2>5 DEF Changed, Claims
    <3>3. books' = books
      BY <1>3, <1>4, <2>1, <3>2
    <3>4. Withdrawn(q) = {} /\ Promised(q) = {}
      BY <1>1, <1>8, <2>5 DEF Withdrawn, Promised
    <3>5. UpdateBookMetadata(b, m)
      BY <1>5, <1>7, <2>3, <3>1, <3>3, <3>4 DEF UpdateBookMetadata
    <3> QED
      BY <1>4, <3>5 DEF CopyNext
  <2> QED
    BY <2>4, <2>5
<1>9. CASE q.kind \in {"read", "unread"}
  <2>1. S = {}
    BY <1>2, <1>6, <1>9 DEF Saved
  <2>2. books' = books
    BY <1>3, <2>1
  <2>3. history' = history
    BY <1>3, <2>1
  <2>4. /\ q.kind = "read" => Promised(q) = {<<"read", b, m>>} /\ Withdrawn(q) = {}
        /\ q.kind = "unread" => Promised(q) = {} /\ Withdrawn(q) = {<<"read", b, m>>}
    BY <1>1 DEF Promised, Withdrawn
  <2>5. MarkBookRead(b, m) \/ UnmarkBookRead(b, m)
    BY <1>5, <1>7, <1>9, <2>2, <2>3, <2>4 DEF MarkBookRead, UnmarkBookRead
  <2> QED
    BY <1>4, <2>5 DEF CopyNext
<1>10. CASE q.kind = "session"
  <2>1. PICK together : together = (q.mode = "together")
    OBVIOUS
  <2>2. together \in BOOLEAN
    BY <2>1
  <2>3. Claims(q, books[b]) <=> q.mode = "together" /\ books[b].reader = NoOne
    BY <1>10 DEF Claims
  <2>4. S = IF Claims(q, books[b]) THEN {b} ELSE {}
    BY <1>1, <1>2, <1>4, <1>6, <1>10 DEF Saved
  <2>5. Claims(q, books[b]) => Changed(q, books[b]) = RowAfter(books[b], m, "reading")
    BY <1>1, <1>10 DEF Changed
  <2>6. history' = history
    <3>1. EventOf(q.kind) = {}
      BY <1>10 DEF EventOf
    <3> QED
      BY <1>3, <3>1
  <2>7. Promised(q) = {<<"session", b, m>>} /\ Withdrawn(q) = {}
    BY <1>1, <1>10 DEF Promised, Withdrawn
  <2>8. books' = IF q.mode = "together" /\ books[b].reader = NoOne
                 THEN [books EXCEPT ![b] = RowAfter(@, m, "reading")]
                 ELSE books
    <3>1. CASE Claims(q, books[b])
      <4>1. books' = [books EXCEPT ![b] = RowAfter(@, m, "reading")]
        BY <1>3, <1>4, <2>4, <2>5, <3>1
      <4> QED
        BY <2>3, <3>1, <4>1
    <3>2. CASE ~Claims(q, books[b])
      <4>1. books' = books
        BY <1>3, <2>4, <3>2
      <4> QED
        BY <2>3, <3>2, <4>1
    <3> QED
      BY <3>1, <3>2
  <2>9. LogReadingSession(b, m, together)
    BY <1>5, <1>7, <2>1, <2>6, <2>7, <2>8 DEF LogReadingSession
  <2> QED
    BY <1>4, <2>2, <2>9 DEF CopyNext
<1> QED
  BY <1>4, <1>8, <1>9, <1>10

\* A bulk request moves or deletes all its copies at once.
LEMMA BulkCommits ==
  ASSUME TxInv, SerialInv, NEW r \in Request, Commit(r),
         tx[r].req.kind \in {"move", "delete"}
  PROVE  CopyNext
<1> DEFINE q == tx[r].req
<1>1. PICK S : S = Items(Saved(q))
  OBVIOUS
<1>2. /\ q \in Asked /\ S \subseteq Book
      /\ \A a \in About(q) : Present(a) /\ books[a] \in Row
      /\ books \in [Book -> Row \cup {NoBook}] /\ books' \in [Book -> Row \cup {NoBook}]
      /\ \A a \in Book : books'[a] =
           IF a \in S THEN IF q.kind = "delete" THEN NoBook ELSE Changed(q, books[a])
           ELSE books[a]
      /\ \A k : k \in marks' <=>
           /\ k \in (marks \ Withdrawn(q)) \cup Promised(q)
           /\ q.kind = "delete" => k[2] \notin S
      /\ history' = history \cup (EventOf(q.kind) \X S)
  BY <1>1, EditCommits
<1>3. /\ Saved(q) = q.targets /\ q.targets \in Orders /\ q.place \in Place
      /\ q.kind = "move" => q.asks = "none"
  <2>1. q.kind \notin Single /\ q \in Req
    BY <1>2, ReqFacts DEF Single
  <2>2. q.asks = "none"
    BY <1>2, ReqKinds DEF IsSingle
  <2> QED
    BY <1>2, <2>1, <2>2, ReqFacts DEF Saved, Req
<1>4. S = About(q) /\ S \in (SUBSET Book) \ {{}}
  <2>1. q.targets # <<>> /\ q.targets[1] \in About(q)
    BY <1>2, <1>3, OrdersAreOfBooks, ReqFacts
  <2>2. S = About(q)
    BY <1>1, <1>2, <1>3, <2>1, SavedFacts
  <2> QED
    BY <1>2, <2>1, <2>2
<1>5. \A a \in S : Present(a)
  BY <1>2, <1>4
<1>6. Withdrawn(q) = {} /\ Promised(q) = {}
  BY DEF Withdrawn, Promised
<1>7. CASE q.kind = "move"
  <2>1. EventOf(q.kind) = {"position"}
    BY <1>7 DEF EventOf
  <2>2. \A a : Changed(q, books[a]) = [books[a] EXCEPT !.place = q.place]
    BY <1>3, <1>7 DEF Changed, Claims
  <2>3. books' = [a \in Book |-> IF a \in S THEN [books[a] EXCEPT !.place = q.place]
                                 ELSE books[a]]
    BY <1>2, <1>7, <2>2
  <2>4. marks' = marks
    BY <1>2, <1>6, <1>7
  <2>5. MoveBooks(S, q.place)
    BY <1>2, <1>5, <2>1, <2>3, <2>4 DEF MoveBooks, Log
  <2> QED
    BY <1>3, <1>4, <2>5 DEF CopyNext
<1>8. CASE q.kind = "delete"
  <2>1. EventOf(q.kind) = {"deleted"}
    BY <1>8 DEF EventOf
  <2>2. books' = [a \in Book |-> IF a \in S THEN NoBook ELSE books[a]]
    BY <1>2, <1>8
  <2>3. marks' = {k \in marks : k[2] \notin S}
    BY <1>2, <1>6, <1>8
  <2>4. DeleteBooks(S)
    BY <1>2, <1>5, <2>1, <2>2, <2>3 DEF DeleteBooks, Log
  <2> QED
    BY <1>4, <2>4 DEF CopyNext
<1> QED
  BY <1>7, <1>8

LEMMA CommitRefines ==
  ASSUME TxInv, SerialInv, NEW r \in Request, Commit(r)
  PROVE  CopyNext
BY AddCommits, SingleCommits, BulkCommits

\* Only a commit changes the tables.
LEMMA RefineStep == TxInv /\ SerialInv /\ [Next]_vars => [CopyNext]_copyVars
<1> SUFFICES ASSUME TxInv, SerialInv, [Next]_vars PROVE CopyNext \/ UNCHANGED copyVars
  OBVIOUS
<1>1. CASE \E r \in Request : \E q \in Reqs : Load(r, q)
  BY <1>1 DEF Load
<1>2. CASE \E r \in Request : \E q \in AddReqs : Add(r, q)
  BY <1>2 DEF Add
<1>3. CASE \E r \in Request : Refuse(r) \/ Abort(r)
  BY <1>3 DEF Refuse, Abort, Fail
<1>4. CASE \E r \in Request : Step(r)
  <2>1. PICK r \in Request : Step(r)
    BY <1>4
  <2>2. Commit(r) => CopyNext
    BY CommitRefines
  <2>3. LookMark(r) \/ Reread(r) \/ DeadlockVictim(r) => UNCHANGED copyVars
    BY DEF LookMark, Reread, DeadlockVictim, Fail
  <2>4. WriteMark(r) => UNCHANGED copyVars
    BY DEF WriteMark, MarkDone, Fail
  <2>5. Flush(r) => UNCHANGED copyVars
    BY DEF Flush, Fail
  <2> QED
    BY <2>1, <2>2, <2>3, <2>4, <2>5 DEF Step
<1>5. CASE Ended \/ UNCHANGED vars
  BY <1>5 DEF Ended, vars
<1> QED
  BY <1>1, <1>2, <1>3, <1>4, <1>5 DEF Next

(* Where requests do not overlap, the statements of the handlers, with     *)
(* their second readings, partial updates, refusals and rollbacks, do what *)
(* the atomic handlers of OwnedCopy do: every step is one of theirs, or    *)
(* changes no table.                                                       *)
THEOREM TxImplementsCopy == ASSUME ~Overlap PROVE Spec => CopySpec
<1>1. Init => CopyInit
  BY DEF Init
<1>2. TxInv /\ SerialInv /\ [Next]_vars => [CopyNext]_copyVars
  BY RefineStep
<1>3. Spec => [](TxInv /\ SerialInv)
  BY SerialInvHolds
<1> QED
  BY <1>1, <1>2, <1>3, PTL DEF Spec, CopySpec

(* So what holds of the atomic handlers holds of the statements: the       *)
(* stored column follows the reader.                                       *)
THEOREM TxColumnTracksReader == ASSUME ~Overlap PROVE Spec => []StatusTracksReader
BY TxImplementsCopy, ColumnTracksReader, PTL

(* The audit trail tells which copies exist.                               *)
THEOREM TxAuditTrailIsExact == ASSUME ~Overlap PROVE Spec => []AuditMatchesTable
BY TxImplementsCopy, AuditTrailIsExact, PTL

(* A member who asks for a status sees it.                                 *)
THEOREM TxAskedStatusIsSeen == ASSUME ~Overlap PROVE Spec => StatusAskedIsSeen
BY TxImplementsCopy, AskedStatusIsSeen, PTL

LEMMA SelfServiceStep ==
  ASSUME TxInv, SerialInv, NEW r \in Request, Commit(r), tx[r].req.kind = "status",
         NEW b \in Book, Present(b), books'[b].reader # books[b].reader, Present(b)'
  PROVE  \/ books'[b].reader = tx[r].req.by
         \/ books[b].reader = tx[r].req.by /\ books'[b].reader = NoOne
<1> DEFINE q == tx[r].req
           S == Items(Saved(q))
<1>1. /\ q \in Asked
      /\ books'[b] = IF b \in S THEN Changed(q, books[b]) ELSE books[b]
      /\ books[b] \in Row \cup {NoBook}
  BY EditCommits
<1>2. books[b] \in Row /\ books'[b] = Changed(q, books[b])
  BY <1>1 DEF Present
<1>3. q.asks # "none"
  BY <1>1, ReqFacts DEF Status
<1>4. Changed(q, books[b]) = RowAfter(books[b], q.by, q.asks)
  BY <1>3 DEF Changed, Claims
<1>5. books'[b].reader = HolderAfter(books[b].reader, q.by, q.asks)
  BY <1>2, <1>4 DEF RowAfter, Row
<1> QED
  BY <1>5 DEF HolderAfter

(* A member claims or releases the copy for itself only, if its request    *)
(* overlaps no other: that somebody else's claim is lost takes two         *)
(* requests in flight.                                                     *)
THEOREM SelfServiceAlone == ASSUME ~Overlap PROVE Spec => SelfServiceReader
<1>1. TxInv /\ SerialInv /\ [Next]_vars =>
        [\A r \in Request, b \in Book :
           Commits(r) /\ tx[r].req.kind = "status" /\ Present(b) /\ Present(b)'
             /\ books'[b].reader # books[b].reader
           => \/ books'[b].reader = tx[r].req.by
              \/ books[b].reader = tx[r].req.by /\ books'[b].reader = NoOne]_vars
  BY CommitsIsCommit, SelfServiceStep DEF TxInv
<1>2. Spec => [](TxInv /\ SerialInv)
  BY SerialInvHolds
<1> QED
  BY <1>1, <1>2, PTL DEF Spec, SelfServiceReader

=============================================================================
