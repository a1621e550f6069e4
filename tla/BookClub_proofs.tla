-------------------------- MODULE BookClub_proofs --------------------------
(***************************************************************************)
(* Theorems about BookClub, for any cycles, posts, proposals, members and  *)
(* requests.                                                               *)
(*                                                                         *)
(* What a request has checked may not hold any more when it writes. The    *)
(* inductive invariant says what does: a cycle that was open once has been *)
(* open, a post that was there has a row, though it may be gone, and a     *)
(* proposal that was there is either among those being cleared or gone.    *)
(***************************************************************************)
EXTENDS BookClub, TLAPS

RowsThere == \A p \in posts : post[p] # NoRow

OpenBefore == \A c \in Cycle : status[c] = "discussing" => c \in opened

OriginKnown == \A c \in Cycle : from[c] # NoProposal => from[c] \in proposed

Promoting(r) == ask[r].kind = "promote" /\ ask[r].proposal \in proposed

AskOK(r) ==
  /\ pc[r] \in {"checked", "clearing", "cleared"} => ask[r] \in Ask
  /\ pc[r] = "checked" /\ ask[r].kind = "advance" /\ ask[r].to = "archived"
       => ask[r].cycle \in opened
  /\ pc[r] = "checked" /\ ask[r].kind = "post" =>
       /\ ask[r].cycle \in opened
       /\ ask[r].under # NoPost => /\ post[ask[r].under] # NoRow
                                   /\ post[ask[r].under].cycle = ask[r].cycle
  /\ pc[r] = "checked" /\ ask[r].kind = "promote" => Promoting(r)
  /\ pc[r] \in {"clearing", "cleared"} =>
       /\ Promoting(r)
       /\ ask[r].proposal \in clears[r] \/ ask[r].proposal \notin proposals

AsksOK == \A r \in Request : AskOK(r)

ClubInv ==
  /\ TypeOK
  /\ RowsThere
  /\ OpenBefore
  /\ OriginKnown
  /\ DiscussionFirst
  /\ ThreadsWhole
  /\ VotesHaveProposal
  /\ PromotedLeavesPool
  /\ AsksOK

----------------------------------------------------------------------------
(* Requests *)

\* The kind of a request tells what it carries.
LEMMA AskKinds ==
  ASSUME NEW a \in Ask
  PROVE  /\ a.kind = "advance" => a.cycle \in Cycle /\ a.to \in Status
         /\ a.kind = "post" => /\ a.cycle \in Cycle /\ a.by \in Member
                               /\ a.under \in Post \cup {NoPost}
         /\ a.kind = "unpost" => a.post \in Post
         /\ a.kind = "toggle" => /\ a.proposal \in Proposal /\ a.by \in Member
                                 /\ a.seen \in Vote
         /\ a.kind = "promote" => a.proposal \in Proposal
         /\ a.kind = "join" => a.cycle \in Cycle /\ a.by \in Member
         /\ a.kind = "status" => /\ a.cycle \in Cycle /\ a.by \in Member
                                 /\ a.to \in ParticipantStatus
         /\ a.kind \in {"meet", "prompts"} => a.cycle \in Cycle
         /\ a.kind = "unmeet" => a.meeting \in Meeting
BY DEF Ask

\* A step of one request leaves the others as good as they were, when the
\* tables only move on.
LEMMA OthersKeep ==
  ASSUME ClubInv, NEW r \in Request,
         \A s \in Request \ {r} : /\ pc'[s] = pc[s] /\ ask'[s] = ask[s]
                                  /\ clears'[s] = clears[s],
         opened \subseteq opened',
         \A p \in Post : post[p] # NoRow => post'[p] = post[p],
         proposed \subseteq proposed',
         proposals' \cap proposed \subseteq proposals
  PROVE  \A s \in Request \ {r} : AskOK(s)'
<1> SUFFICES ASSUME NEW s \in Request \ {r} PROVE AskOK(s)'
  OBVIOUS
<1>1. AskOK(s)
  BY DEF ClubInv, AsksOK
<1>2. pc'[s] = pc[s] /\ ask'[s] = ask[s] /\ clears'[s] = clears[s]
  OBVIOUS
<1>3. ask[s] \in Ask /\ ask[s].kind = "post" => ask[s].under \in Post \cup {NoPost}
  BY AskKinds
<1> QED
  BY <1>1, <1>2, <1>3 DEF AskOK, Promoting

\* A request that ends leaves nothing behind.
LEMMA CloseKeeps ==
  ASSUME ClubInv, NEW r \in Request, Close(r)
  PROVE  /\ pc' \in [Request -> {"idle", "checked", "clearing", "cleared", "done"}]
         /\ ask' \in [Request -> Ask \cup {NoAsk}]
         /\ clears' \in [Request -> SUBSET Proposal]
         /\ AskOK(r)'
         /\ \A s \in Request \ {r} : /\ pc'[s] = pc[s] /\ ask'[s] = ask[s]
                                     /\ clears'[s] = clears[s]
BY DEF ClubInv, TypeOK, Close, AskOK

----------------------------------------------------------------------------
(* The initial state *)

LEMMA InitHolds == Init => ClubInv
<1> SUFFICES ASSUME Init PROVE ClubInv
  OBVIOUS
<1>1. post \in [Post -> PostRow \cup {NoRow}] /\ ThreadsWhole
           /\ \A p \in posts : post[p].cycle \in opened
  <2>1. CASE post = [p \in Post |-> NoRow]
    BY <2>1 DEF Init, ThreadsWhole
  <2>2. ASSUME NEW p \in Post, NEW q \in Post, NEW c \in opened, NEW m \in Member,
               p # q, post = Discussion(p, q, c, m)
        PROVE  /\ post \in [Post -> PostRow \cup {NoRow}] /\ ThreadsWhole
               /\ \A x \in posts : post[x].cycle \in opened
    <3>1. c \in Cycle
      BY DEF Init
    <3>2. /\ post = [x \in Post |-> CASE x = p -> [cycle |-> c, under |-> NoPost, author |-> m]
                                     [] x = q -> [cycle |-> c, under |-> p, author |-> m]
                                     [] OTHER -> NoRow]
      BY <2>2 DEF Discussion
    <3>3. /\ [cycle |-> c, under |-> NoPost, author |-> m] \in PostRow
          /\ [cycle |-> c, under |-> p, author |-> m] \in PostRow
      BY <3>1 DEF PostRow
    <3>4. \A x \in posts : x = p \/ x = q
      BY <3>2 DEF Init
    <3>5. p \in posts
      BY <3>2, <3>3, NoRowIsNoRow DEF Init
    <3> QED
      BY <2>2, <3>2, <3>3, <3>4, <3>5 DEF ThreadsWhole
  <2> QED
    BY <2>1, <2>2 DEF Init
<1>2. TypeOK
  BY <1>1 DEF Init, TypeOK, Status, Vote, Meeting
<1>3. RowsThere /\ OpenBefore /\ OriginKnown /\ VotesHaveProposal
  BY DEF Init, RowsThere, OpenBefore, OriginKnown, VotesHaveProposal
<1>4. DiscussionFirst
  BY <1>1 DEF Init, DiscussionFirst
<1>5. PromotedLeavesPool
  BY NoProposalIsNone DEF Init, PromotedLeavesPool
<1>6. AsksOK
  BY DEF Init, AsksOK, AskOK
<1> QED
  BY <1>1, <1>2, <1>3, <1>4, <1>5, <1>6 DEF ClubInv

----------------------------------------------------------------------------
(* The checks *)

LEMMA AcceptHolds ==
  ASSUME ClubInv, NEW r \in Request, NEW a \in Ask, Accept(r, a),
         a.kind = "advance" /\ a.to = "archived" => a.cycle \in opened,
         a.kind = "post" => /\ a.cycle \in opened
                            /\ a.under # NoPost => /\ post[a.under] # NoRow
                                                  /\ post[a.under].cycle = a.cycle,
         a.kind = "promote" => a.proposal \in proposed
  PROVE  ClubInv'
<1>1. /\ pc' = [pc EXCEPT ![r] = "checked"] /\ ask' = [ask EXCEPT ![r] = a]
      /\ UNCHANGED <<status, opened, from, post, posts, proposals, proposed, vote, clears,
                   joined, meetings, prompts>>
  BY DEF Accept, Goes, cycleVars, postVars, poolVars, roomVars
<1>2. TypeOK'
  BY <1>1 DEF ClubInv, TypeOK
<1>3. \A s \in Request \ {r} : /\ pc'[s] = pc[s] /\ ask'[s] = ask[s]
                                /\ clears'[s] = clears[s]
  BY <1>1 DEF ClubInv, TypeOK
<1>4. \A s \in Request \ {r} : AskOK(s)'
  BY <1>1, <1>3, OthersKeep
<1>5. pc'[r] = "checked" /\ ask'[r] = a
  BY <1>1 DEF ClubInv, TypeOK
<1>6. AskOK(r)'
  BY <1>1, <1>5 DEF AskOK, Promoting
<1>7. AsksOK'
  BY <1>4, <1>6 DEF AsksOK
<1> QED
  BY <1>1, <1>2, <1>7 DEF ClubInv, RowsThere, OpenBefore, OriginKnown, DiscussionFirst,
    ThreadsWhole, VotesHaveProposal, PromotedLeavesPool

LEMMA CheckHolds ==
  ASSUME ClubInv, NEW r \in Request, Check(r)
  PROVE  ClubInv'
<1>1. ASSUME NEW c \in Cycle, NEW to \in Status, CheckAdvance(r, c, to)
      PROVE  ClubInv'
  <2> DEFINE a == [kind |-> "advance", cycle |-> c, to |-> to]
  <2>1. a \in Ask /\ a.kind = "advance" /\ a.cycle = c /\ a.to = to
    BY DEF Ask
  <2>2. to = "archived" => status[c] = "discussing"
    BY <1>1 DEF CheckAdvance, Transitions
  <2>3. to = "archived" => c \in opened
    BY <2>2 DEF ClubInv, OpenBefore
  <2>4. Accept(r, a)
    BY <1>1 DEF CheckAdvance
  <2> HIDE DEF a
  <2> QED
    BY <2>1, <2>3, <2>4, AcceptHolds
<1>2. ASSUME NEW c \in Cycle, NEW p \in Post \cup {NoPost}, NEW m \in Member,
             CheckPost(r, c, p, m)
      PROVE  ClubInv'
  <2> DEFINE a == [kind |-> "post", cycle |-> c, under |-> p, by |-> m]
  <2>1. a \in Ask /\ a.kind = "post" /\ a.cycle = c /\ a.under = p
    BY DEF Ask
  <2>2. c \in opened /\ (p # NoPost => post[p] # NoRow /\ post[p].cycle = c)
    BY <1>2 DEF CheckPost, ClubInv, OpenBefore, RowsThere
  <2>3. Accept(r, a)
    BY <1>2 DEF CheckPost
  <2> HIDE DEF a
  <2> QED
    BY <2>1, <2>2, <2>3, AcceptHolds
<1>3. ASSUME NEW p \in Post, NEW m \in Member, NEW admin \in BOOLEAN,
             CheckDeletePost(r, p, m, admin)
      PROVE  ClubInv'
  <2> DEFINE a == [kind |-> "unpost", post |-> p]
  <2>1. a \in Ask /\ a.kind = "unpost"
    BY DEF Ask
  <2>2. Accept(r, a)
    BY <1>3 DEF CheckDeletePost
  <2> HIDE DEF a
  <2> QED
    BY <2>1, <2>2, AcceptHolds
<1>4. ASSUME NEW p \in Proposal, NEW m \in Member, CheckVote(r, p, m)
      PROVE  ClubInv'
  <2> DEFINE a == [kind |-> "toggle", proposal |-> p, by |-> m, seen |-> vote[p][m]]
  <2>1. vote[p][m] \in Vote
    BY DEF ClubInv, TypeOK
  <2>2. a \in Ask /\ a.kind = "toggle"
    BY <2>1 DEF Ask
  <2>3. Accept(r, a)
    BY <1>4 DEF CheckVote
  <2> HIDE DEF a
  <2> QED
    BY <2>2, <2>3, AcceptHolds
<1>5. ASSUME NEW p \in Proposal, CheckPromote(r, p)
      PROVE  ClubInv'
  <2> DEFINE a == [kind |-> "promote", proposal |-> p]
  <2>1. a \in Ask /\ a.kind = "promote" /\ a.proposal = p
    BY DEF Ask
  <2>2. p \in proposed
    BY <1>5 DEF CheckPromote, ClubInv, TypeOK
  <2>3. Accept(r, a)
    BY <1>5 DEF CheckPromote
  <2> HIDE DEF a
  <2> QED
    BY <2>1, <2>2, <2>3, AcceptHolds
<1>6. ASSUME NEW a \in Ask, a.kind \in {"join", "status", "meet", "unmeet", "prompts"},
             Accept(r, a)
      PROVE  ClubInv'
  BY <1>6, AcceptHolds
<1>7. join_cycle(r) => ClubInv'
  <2>1. ASSUME NEW c \in Cycle, NEW m \in Member, CheckJoin(r, c, m) PROVE ClubInv'
    <3> DEFINE a == [kind |-> "join", cycle |-> c, by |-> m]
    <3>1. a \in Ask /\ a.kind = "join"
      BY DEF Ask
    <3> QED
      BY <1>6, <2>1, <3>1 DEF CheckJoin
  <2> QED
    BY <2>1 DEF join_cycle
<1>8. set_participant_status(r) => ClubInv'
  <2>1. ASSUME NEW c \in Cycle, NEW m \in Member, NEW to \in ParticipantStatus,
               CheckSetStatus(r, c, m, to)
        PROVE  ClubInv'
    <3> DEFINE a == [kind |-> "status", cycle |-> c, by |-> m, to |-> to]
    <3>1. a \in Ask /\ a.kind = "status"
      BY DEF Ask
    <3> QED
      BY <1>6, <2>1, <3>1 DEF CheckSetStatus
  <2> QED
    BY <2>1 DEF set_participant_status
<1>9. schedule_meeting(r) \/ get_cycle_questions(r) => ClubInv'
  <2>1. ASSUME NEW c \in Cycle, CheckMeeting(r, c) PROVE ClubInv'
    <3> DEFINE a == [kind |-> "meet", cycle |-> c]
    <3>1. a \in Ask /\ a.kind = "meet"
      BY DEF Ask
    <3> QED
      BY <1>6, <2>1, <3>1 DEF CheckMeeting
  <2>2. ASSUME NEW c \in Cycle, CheckPrompts(r, c) PROVE ClubInv'
    <3> DEFINE a == [kind |-> "prompts", cycle |-> c]
    <3>1. a \in Ask /\ a.kind = "prompts"
      BY DEF Ask
    <3> QED
      BY <1>6, <2>2, <3>1 DEF CheckPrompts
  <2> QED
    BY <2>1, <2>2 DEF schedule_meeting, get_cycle_questions
<1>10. delete_meeting(r) => ClubInv'
  <2>1. ASSUME NEW k \in Meeting, CheckDeleteMeeting(r, k) PROVE ClubInv'
    <3> DEFINE a == [kind |-> "unmeet", meeting |-> k]
    <3>1. a \in Ask /\ a.kind = "unmeet"
      BY DEF Ask
    <3> QED
      BY <1>6, <2>1, <3>1 DEF CheckDeleteMeeting
  <2> QED
    BY <2>1 DEF delete_meeting
<1>11. advance_cycle_status(r) \/ archive_cycle(r) => ClubInv'
  BY <1>1 DEF advance_cycle_status, archive_cycle, Status
<1>12. add_post(r) \/ delete_post(r) => ClubInv'
  BY <1>2, <1>3 DEF add_post, delete_post
<1>13. toggle_vote(r) \/ promote_proposal(r) => ClubInv'
  BY <1>4, <1>5 DEF toggle_vote, promote_proposal
<1> QED
  BY <1>7, <1>8, <1>9, <1>10, <1>11, <1>12, <1>13 DEF Check

----------------------------------------------------------------------------
(* Cycles *)

LEMMA AdvanceHolds ==
  ASSUME ClubInv, NEW r \in Request, Advance(r)
  PROVE  ClubInv'
<1> DEFINE c == ask[r].cycle
           to == ask[r].to
<1>1. /\ pc[r] = "checked" /\ ask[r].kind = "advance" /\ Close(r)
      /\ status' = [status EXCEPT ![c] = to]
      /\ opened' = IF to = "discussing" THEN opened \cup {c} ELSE opened
      /\ UNCHANGED <<from, post, posts, proposals, proposed, vote, joined, meetings, prompts>>
  BY DEF Advance, Ends, postVars, poolVars, roomVars
<1>2. c \in Cycle /\ to \in Status /\ (to = "archived" => c \in opened)
  BY <1>1, AskKinds DEF ClubInv, AsksOK, AskOK
<1>3. TypeOK'
  BY <1>1, <1>2, CloseKeeps DEF ClubInv, TypeOK
<1>4. OpenBefore' /\ DiscussionFirst'
  BY <1>1, <1>2 DEF ClubInv, TypeOK, OpenBefore, DiscussionFirst
<1>5. opened \subseteq opened'
  BY <1>1
<1>6. AsksOK'
  BY <1>1, <1>5, CloseKeeps, OthersKeep DEF AsksOK
<1> QED
  BY <1>1, <1>3, <1>4, <1>6 DEF ClubInv, RowsThere, OriginKnown, ThreadsWhole,
    VotesHaveProposal, PromotedLeavesPool

LEMMA CreateCycleHolds ==
  ASSUME ClubInv, NEW c \in Cycle, CreateCycle(c)
  PROVE  ClubInv'
<1>1. /\ status' = [status EXCEPT ![c] = "reading"]
      /\ UNCHANGED <<opened, from, post, posts, proposals, proposed, vote, pc, ask, clears,
                     joined, meetings, prompts>>
  BY DEF CreateCycle, postVars, poolVars, roomVars, reqVars
<1>2. TypeOK'
  BY <1>1 DEF ClubInv, TypeOK, Status
<1>3. OpenBefore' /\ DiscussionFirst'
  BY <1>1 DEF ClubInv, TypeOK, OpenBefore, DiscussionFirst
<1> QED
  BY <1>1, <1>2, <1>3 DEF ClubInv, RowsThere, OriginKnown, ThreadsWhole,
    VotesHaveProposal, PromotedLeavesPool, AsksOK, AskOK, Promoting

----------------------------------------------------------------------------
(* Posts *)

LEMMA AddPostHolds ==
  ASSUME ClubInv, NEW r \in Request, AddPost(r)
  PROVE  ClubInv'
<1>1. /\ pc[r] = "checked" /\ ask[r].kind = "post" /\ Close(r)
      /\ UNCHANGED <<status, opened, from, proposals, proposed, vote, joined, meetings, prompts>>
  BY DEF AddPost, Ends, cycleVars, poolVars, roomVars
<1>2. /\ ask[r].cycle \in opened /\ ask[r].cycle \in Cycle /\ ask[r].by \in Member
      /\ ask[r].under \in Post \cup {NoPost}
      /\ ask[r].under # NoPost => post[ask[r].under].cycle = ask[r].cycle
  BY <1>1, AskKinds DEF ClubInv, AsksOK, AskOK
<1>3. CASE UNCHANGED postVars
  <2>1. UNCHANGED <<post, posts>>
    BY <1>3 DEF postVars
  <2>2. TypeOK'
    BY <1>1, <2>1, CloseKeeps DEF ClubInv, TypeOK
  <2>3. AsksOK'
    BY <1>1, <2>1, CloseKeeps, OthersKeep DEF AsksOK
  <2> QED
    BY <1>1, <2>1, <2>2, <2>3 DEF ClubInv, RowsThere, OpenBefore, OriginKnown,
      DiscussionFirst, ThreadsWhole, VotesHaveProposal, PromotedLeavesPool
<1>4. ASSUME ask[r].under \in posts \cup {NoPost}, NEW p \in Post, post[p] = NoRow,
             post' = [post EXCEPT ![p] = [cycle |-> ask[r].cycle,
                                          under |-> ask[r].under,
                                          author |-> ask[r].by]],
             posts' = posts \cup {p}
      PROVE  ClubInv'
  <2> DEFINE row == [cycle |-> ask[r].cycle, under |-> ask[r].under,
                     author |-> ask[r].by]
  <2>1. row \in PostRow /\ row # NoRow
    BY <1>2, NoRowIsNoRow DEF PostRow
  <2>2. row.cycle = ask[r].cycle /\ row.under = ask[r].under
    OBVIOUS
  <2> HIDE DEF row
  <2>3. post' = [post EXCEPT ![p] = row]
    BY <1>4 DEF row
  <2>4. p \notin posts
    BY <1>4 DEF ClubInv, RowsThere
  <2>5. post'[p] = row /\ \A q \in Post \ {p} : post'[q] = post[q]
    BY <2>3 DEF ClubInv, TypeOK
  <2>6. TypeOK'
    BY <1>1, <1>4, <2>1, <2>3, CloseKeeps DEF ClubInv, TypeOK
  <2>7. RowsThere' /\ DiscussionFirst'
    BY <1>1, <1>2, <1>4, <2>1, <2>2, <2>5 DEF ClubInv, TypeOK, RowsThere, DiscussionFirst
  <2>8. ThreadsWhole'
    <3> SUFFICES ASSUME NEW q \in posts \cup {p}, post'[q].under # NoPost
                 PROVE  /\ post'[q].under \in posts
                        /\ post'[post'[q].under].cycle = post'[q].cycle
      BY <1>4 DEF ThreadsWhole
    <3>1. CASE q = p
      <4>1. post'[q].under = ask[r].under /\ ask[r].under \in posts
        BY <1>4, <2>2, <2>5, <3>1
      <4> QED
        BY <1>2, <2>2, <2>4, <2>5, <3>1, <4>1 DEF ClubInv, TypeOK
    <3>2. CASE q # p
      <4>1. post'[q] = post[q] /\ q \in posts
        BY <2>5, <3>2 DEF ClubInv, TypeOK
      <4>2. post[q].under \in posts /\ post[post[q].under].cycle = post[q].cycle
        BY <4>1 DEF ClubInv, ThreadsWhole
      <4> QED
        BY <2>4, <2>5, <4>1, <4>2 DEF ClubInv, TypeOK
    <3> QED
      BY <3>1, <3>2
  <2>9. \A q \in Post : post[q] # NoRow => post'[q] = post[q]
    BY <1>4, <2>5
  <2>10. AsksOK'
    BY <1>1, <2>9, CloseKeeps, OthersKeep DEF AsksOK
  <2> QED
    BY <1>1, <2>6, <2>7, <2>8, <2>10 DEF ClubInv, OpenBefore, OriginKnown,
      VotesHaveProposal, PromotedLeavesPool
<1> QED
  BY <1>3, <1>4 DEF AddPost

\* What is left when a thread has gone hangs from nothing that went.
LEMMA ThreadIsClosed ==
  ASSUME NEW p, NEW q \in posts, post[q].under \in Thread(p)
  PROVE  q \in Thread(p)
<1> SUFFICES ASSUME NEW S \in SUBSET posts, p \in posts => p \in S,
                    \A s \in posts : post[s].under \in S => s \in S
             PROVE  q \in S
  BY DEF Thread
<1>1. post[q].under \in S
  BY DEF Thread
<1> QED
  BY <1>1

LEMMA DeletePostHolds ==
  ASSUME ClubInv, NEW r \in Request, DeletePost(r)
  PROVE  ClubInv'
<1>1. /\ Close(r) /\ posts' = posts \ Thread(ask[r].post)
      /\ UNCHANGED <<post, status, opened, from, proposals, proposed, vote,
                     joined, meetings, prompts>>
  BY DEF DeletePost, Ends, cycleVars, poolVars, roomVars
<1>2. TypeOK'
  BY <1>1, CloseKeeps DEF ClubInv, TypeOK
<1>3. AsksOK'
  BY <1>1, CloseKeeps, OthersKeep DEF AsksOK
<1>4. ThreadsWhole'
  <2> SUFFICES ASSUME NEW q \in posts, q \notin Thread(ask[r].post), post[q].under # NoPost
               PROVE  /\ post[q].under \in posts \ Thread(ask[r].post)
                      /\ post[post[q].under].cycle = post[q].cycle
    BY <1>1 DEF ThreadsWhole
  <2> QED
    BY ThreadIsClosed DEF ClubInv, ThreadsWhole
<1> QED
  BY <1>1, <1>2, <1>3, <1>4 DEF ClubInv, RowsThere, OpenBefore, OriginKnown,
    DiscussionFirst, VotesHaveProposal, PromotedLeavesPool

----------------------------------------------------------------------------
(* Proposals, votes and promotion *)

LEMMA ProposeHolds ==
  ASSUME ClubInv, NEW p \in Proposal, Propose(p)
  PROVE  ClubInv'
<1>1. /\ p \notin proposed /\ proposed' = proposed \cup {p}
      /\ proposals' = proposals \cup {p}
      /\ UNCHANGED <<vote, status, opened, from, post, posts, pc, ask, clears,
                     joined, meetings, prompts>>
  BY DEF Propose, cycleVars, postVars, roomVars, reqVars
<1>2. TypeOK'
  BY <1>1 DEF ClubInv, TypeOK
<1>3. OriginKnown' /\ PromotedLeavesPool'
  BY <1>1, NoProposalIsNone DEF ClubInv, OriginKnown, PromotedLeavesPool
<1>4. AsksOK'
  BY <1>1 DEF ClubInv, AsksOK, AskOK, Promoting
<1> QED
  BY <1>1, <1>2, <1>3, <1>4 DEF ClubInv, RowsThere, OpenBefore, DiscussionFirst,
    ThreadsWhole, VotesHaveProposal

LEMMA ToggleVoteHolds ==
  ASSUME ClubInv, NEW r \in Request, ToggleVote(r)
  PROVE  ClubInv'
<1> DEFINE p == ask[r].proposal
           m == ask[r].by
<1>1. /\ pc[r] = "checked" /\ ask[r].kind = "toggle" /\ Close(r)
      /\ vote' = [vote EXCEPT ![p][m] =
                    CASE ask[r].seen # NoVote -> TakenBack(ask[r].seen, @)
                      [] ask[r].seen = NoVote /\ VoteRefused(p, m) -> @
                      [] OTHER -> Cast(r)]
      /\ UNCHANGED <<proposals, proposed, status, opened, from, post, posts,
                     joined, meetings, prompts>>
  BY DEF ToggleVote, Ends, cycleVars, postVars, roomVars
<1>2. p \in Proposal /\ m \in Member
  BY <1>1, AskKinds DEF ClubInv, AsksOK, AskOK
<1>3. PICK v \in Vote : /\ vote' = [vote EXCEPT ![p][m] = v]
                        /\ v \in {NoVote, vote[p][m]} \/ p \in proposals
  <2> DEFINE v == CASE ask[r].seen # NoVote -> TakenBack(ask[r].seen, vote[p][m])
                    [] ask[r].seen = NoVote /\ VoteRefused(p, m) -> vote[p][m]
                    [] OTHER -> Cast(r)
  <2>1. vote' = [vote EXCEPT ![p][m] = v]
    BY <1>1
  <2>2. vote[p][m] \in Vote
    BY <1>2 DEF ClubInv, TypeOK
  <2>3. v \in Vote /\ (v \in {NoVote, vote[p][m]} \/ p \in proposals)
    BY <2>2 DEF TakenBack, VoteRefused, Cast, Vote
  <2> QED
    BY <2>1, <2>3
<1>4. TypeOK'
  BY <1>1, <1>2, <1>3, CloseKeeps DEF ClubInv, TypeOK
<1>5. VotesHaveProposal'
  BY <1>1, <1>2, <1>3 DEF ClubInv, TypeOK, VotesHaveProposal
<1>6. AsksOK'
  BY <1>1, CloseKeeps, OthersKeep DEF AsksOK
<1> QED
  BY <1>1, <1>4, <1>5, <1>6 DEF ClubInv, RowsThere, OpenBefore, OriginKnown,
    DiscussionFirst, ThreadsWhole, PromotedLeavesPool

\* The two steps of a promotion before its commit note what it will clear.
LEMMA ClearingHolds ==
  ASSUME ClubInv, NEW r \in Request, NEW S \in SUBSET Proposal,
         NEW at \in {"clearing", "cleared"},
         pc[r] \in {"checked", "clearing"}, ask[r] \in Ask, Promoting(r),
         ask[r].proposal \in S \/ ask[r].proposal \notin proposals,
         pc' = [pc EXCEPT ![r] = at], clears' = [clears EXCEPT ![r] = S],
         UNCHANGED <<ask, cycleVars, postVars, poolVars, roomVars>>
  PROVE  ClubInv'
<1>1. UNCHANGED <<ask, status, opened, from, post, posts, proposals, proposed, vote,
                  joined, meetings, prompts>>
  BY DEF cycleVars, postVars, poolVars, roomVars
<1>2. TypeOK'
  BY <1>1 DEF ClubInv, TypeOK
<1>3. \A s \in Request \ {r} : /\ pc'[s] = pc[s] /\ ask'[s] = ask[s]
                                /\ clears'[s] = clears[s]
  BY <1>1 DEF ClubInv, TypeOK
<1>4. \A s \in Request \ {r} : AskOK(s)'
  BY <1>1, <1>3, OthersKeep
<1>5. pc'[r] = at /\ clears'[r] = S
  BY DEF ClubInv, TypeOK
<1>6. AskOK(r)'
  BY <1>1, <1>5 DEF AskOK, Promoting
<1>7. AsksOK'
  BY <1>4, <1>6 DEF AsksOK
<1> QED
  BY <1>1, <1>2, <1>7 DEF ClubInv, RowsThere, OpenBefore, OriginKnown, DiscussionFirst,
    ThreadsWhole, VotesHaveProposal, PromotedLeavesPool

LEMMA ScanPoolHolds ==
  ASSUME ClubInv, NEW r \in Request, ScanPool(r)
  PROVE  ClubInv'
<1>1. /\ pc[r] = "checked" /\ ask[r].kind = "promote"
      /\ pc' = [pc EXCEPT ![r] = "clearing"]
      /\ clears' = [clears EXCEPT ![r] = proposals]
      /\ UNCHANGED <<ask, cycleVars, postVars, poolVars, roomVars>>
  BY DEF ScanPool, Goes, Pool
<1>2. ask[r] \in Ask /\ Promoting(r)
  BY <1>1 DEF ClubInv, AsksOK, AskOK
<1>3. proposals \in SUBSET Proposal
  BY DEF ClubInv, TypeOK
<1> QED
  BY <1>1, <1>2, <1>3, ClearingHolds

LEMMA ClearPoolHolds ==
  ASSUME ClubInv, NEW r \in Request, ClearPool(r)
  PROVE  ClubInv'
<1> DEFINE S == clears[r] \cap proposals
<1>1. /\ pc[r] = "clearing" /\ pc' = [pc EXCEPT ![r] = "cleared"]
      /\ clears' = [clears EXCEPT ![r] = S]
      /\ UNCHANGED <<ask, cycleVars, postVars, poolVars, roomVars>>
  BY DEF ClearPool, Goes
<1>2. /\ ask[r] \in Ask /\ Promoting(r)
      /\ ask[r].proposal \in clears[r] \/ ask[r].proposal \notin proposals
  BY <1>1 DEF ClubInv, AsksOK, AskOK
<1>3. S \in SUBSET Proposal /\ (ask[r].proposal \in S \/ ask[r].proposal \notin proposals)
  BY <1>2 DEF ClubInv, TypeOK
<1> HIDE DEF S
<1> QED
  BY <1>1, <1>2, <1>3, ClearingHolds

LEMMA PromoteHolds ==
  ASSUME ClubInv, NEW r \in Request, NEW c \in Cycle, Promote(r, c)
  PROVE  ClubInv'
<1> DEFINE p == ask[r].proposal
<1>1. /\ pc[r] = "cleared" /\ Close(r)
      /\ status' = [status EXCEPT ![c] = "reading"]
      /\ from' = [from EXCEPT ![c] = p]
      /\ proposals' = proposals \ clears[r]
      /\ vote' = [q \in Proposal |-> IF q \in clears[r]
                                     THEN [m \in Member |-> NoVote] ELSE vote[q]]
      /\ UNCHANGED <<opened, post, posts, proposed, joined, meetings, prompts>>
  BY DEF Promote, postVars, roomVars
<1>2. /\ p \in Proposal /\ p \in proposed
      /\ p \in clears[r] \/ p \notin proposals
  BY <1>1, AskKinds DEF ClubInv, AsksOK, AskOK, Promoting
<1>3. vote' \in [Proposal -> [Member -> Vote]]
  BY <1>1 DEF ClubInv, TypeOK, Vote
<1>4. TypeOK'
  BY <1>1, <1>2, <1>3, CloseKeeps DEF ClubInv, TypeOK, Status
<1>5. OpenBefore' /\ DiscussionFirst'
  BY <1>1 DEF ClubInv, TypeOK, OpenBefore, DiscussionFirst
<1>6. OriginKnown' /\ PromotedLeavesPool'
  BY <1>1, <1>2 DEF ClubInv, TypeOK, OriginKnown, PromotedLeavesPool
<1>7. VotesHaveProposal'
  BY <1>1 DEF ClubInv, TypeOK, VotesHaveProposal
<1>8. AsksOK'
  BY <1>1, CloseKeeps, OthersKeep DEF AsksOK
<1> QED
  BY <1>1, <1>4, <1>5, <1>6, <1>7, <1>8 DEF ClubInv, RowsThere, ThreadsWhole

----------------------------------------------------------------------------
(* Participants, meetings and prompts *)

\* They say nothing of cycles, posts and proposals.
LEMMA RoomHolds ==
  ASSUME ClubInv, NEW r \in Request, Close(r),
         UNCHANGED <<cycleVars, postVars, poolVars>>,
         joined' \in [Cycle -> [Member -> ParticipantStatus \cup {"none"}]],
         meetings' \subseteq Meeting,
         prompts' \in [Cycle -> Request \cup {NoPrompts}]
  PROVE  ClubInv'
<1>1. UNCHANGED <<status, opened, from, post, posts, proposals, proposed, vote>>
  BY DEF cycleVars, postVars, poolVars
<1>2. TypeOK'
  BY <1>1, CloseKeeps DEF ClubInv, TypeOK
<1>3. AsksOK'
  BY <1>1, CloseKeeps, OthersKeep DEF AsksOK
<1> QED
  BY <1>1, <1>2, <1>3 DEF ClubInv, RowsThere, OpenBefore, OriginKnown, DiscussionFirst,
    ThreadsWhole, VotesHaveProposal, PromotedLeavesPool

LEMMA RoomTypes ==
  ASSUME ClubInv
  PROVE  /\ joined \in [Cycle -> [Member -> ParticipantStatus \cup {"none"}]]
         /\ meetings \subseteq Meeting
         /\ prompts \in [Cycle -> Request \cup {NoPrompts}]
BY DEF ClubInv, TypeOK

\* A write to book_club_participants.
LEMMA ParticipantHolds ==
  ASSUME ClubInv, NEW r \in Request, Close(r), NEW c \in Cycle, NEW m \in Member,
         NEW v \in ParticipantStatus \cup {"none"},
         joined' = [joined EXCEPT ![c][m] = v],
         UNCHANGED <<meetings, prompts, cycleVars, postVars, poolVars>>
  PROVE  ClubInv'
<1>1. joined' \in [Cycle -> [Member -> ParticipantStatus \cup {"none"}]]
  BY RoomTypes
<1>2. meetings' \subseteq Meeting /\ prompts' \in [Cycle -> Request \cup {NoPrompts}]
  BY RoomTypes
<1> QED
  BY <1>1, <1>2, RoomHolds

LEMMA JoinHolds ==
  ASSUME ClubInv, NEW r \in Request, Join(r)
  PROVE  ClubInv'
<1> DEFINE c == ask[r].cycle
           m == ask[r].by
<1>1. /\ pc[r] = "checked" /\ ask[r].kind = "join" /\ Close(r)
      /\ UNCHANGED <<meetings, prompts, cycleVars, postVars, poolVars>>
  BY DEF Join, Ends
<1>2. c \in Cycle /\ m \in Member
  BY <1>1, AskKinds DEF ClubInv, AsksOK, AskOK
<1>3. joined' = [joined EXCEPT ![c][m] = Entered(joined[c][m])]
  BY DEF Join
<1>4. Entered(joined[c][m]) \in ParticipantStatus \cup {"none"}
  BY <1>2, RoomTypes DEF Entered, ParticipantStatus
<1> QED
  BY <1>1, <1>2, <1>3, <1>4, ParticipantHolds

LEMMA SetStatusHolds ==
  ASSUME ClubInv, NEW r \in Request, SetStatus(r)
  PROVE  ClubInv'
<1> DEFINE c == ask[r].cycle
           m == ask[r].by
<1>1. /\ pc[r] = "checked" /\ ask[r].kind = "status" /\ Close(r)
      /\ UNCHANGED <<meetings, prompts, cycleVars, postVars, poolVars>>
  BY DEF SetStatus, Ends
<1>2. c \in Cycle /\ m \in Member /\ ask[r].to \in ParticipantStatus
  BY <1>1, AskKinds DEF ClubInv, AsksOK, AskOK
<1>3. joined' = [joined EXCEPT ![c][m] = ask[r].to]
  BY DEF SetStatus
<1> QED
  BY <1>1, <1>2, <1>3, ParticipantHolds

LEMMA MeetingHolds ==
  ASSUME ClubInv, NEW r \in Request, ScheduleMeeting(r) \/ DeleteMeeting(r)
  PROVE  ClubInv'
<1>1. /\ Close(r) /\ UNCHANGED <<joined, prompts>>
      /\ UNCHANGED <<cycleVars, postVars, poolVars>>
  BY DEF ScheduleMeeting, DeleteMeeting, Ends
<1>2. meetings' \subseteq meetings \cup {r}
  BY DEF ScheduleMeeting, DeleteMeeting
<1>3. meetings' \subseteq Meeting
  BY <1>2, RoomTypes DEF Meeting
<1> QED
  BY <1>1, <1>3, RoomTypes, RoomHolds

LEMMA SavePromptsHolds ==
  ASSUME ClubInv, NEW r \in Request, SavePrompts(r)
  PROVE  ClubInv'
<1>1. /\ Close(r) /\ UNCHANGED <<joined, meetings>>
      /\ UNCHANGED <<cycleVars, postVars, poolVars>>
  BY DEF SavePrompts, Ends
<1>2. prompts' = [prompts EXCEPT ![ask[r].cycle] = r] \/ prompts' = prompts
  BY DEF SavePrompts
<1>3. prompts' \in [Cycle -> Request \cup {NoPrompts}]
  BY <1>2, RoomTypes
<1> QED
  BY <1>1, <1>3, RoomTypes, RoomHolds

----------------------------------------------------------------------------
(* Every step *)

LEMMA GiveUpHolds ==
  ASSUME ClubInv, NEW r \in Request, GiveUp(r)
  PROVE  ClubInv'
<1>1. /\ Close(r)
      /\ UNCHANGED <<status, opened, from, post, posts, proposals, proposed, vote,
                     joined, meetings, prompts>>
  BY DEF GiveUp, cycleVars, postVars, poolVars, roomVars
<1>2. TypeOK'
  BY <1>1, CloseKeeps DEF ClubInv, TypeOK
<1>3. AsksOK'
  BY <1>1, CloseKeeps, OthersKeep DEF AsksOK
<1> QED
  BY <1>1, <1>2, <1>3 DEF ClubInv, RowsThere, OpenBefore, OriginKnown, DiscussionFirst,
    ThreadsWhole, VotesHaveProposal, PromotedLeavesPool

LEMMA StepHolds == ClubInv /\ [Next]_vars => ClubInv'
<1> SUFFICES ASSUME ClubInv, [Next]_vars PROVE ClubInv'
  OBVIOUS
<1>1. ASSUME NEW c \in Cycle, CreateCycle(c) PROVE ClubInv'
  BY <1>1, CreateCycleHolds
<1>2. ASSUME NEW p \in Proposal, Propose(p) PROVE ClubInv'
  BY <1>2, ProposeHolds
<1>3. ASSUME NEW r \in Request, Check(r) PROVE ClubInv'
  BY <1>3, CheckHolds
<1>4. ASSUME NEW r \in Request, Effect(r) PROVE ClubInv'
  <2>1. CASE Advance(r)
    BY <2>1, AdvanceHolds
  <2>2. CASE AddPost(r)
    BY <2>2, AddPostHolds
  <2>3. CASE DeletePost(r)
    BY <2>3, DeletePostHolds
  <2>4. CASE ToggleVote(r)
    BY <2>4, ToggleVoteHolds
  <2>5. CASE ScanPool(r)
    BY <2>5, ScanPoolHolds
  <2>6. CASE ClearPool(r)
    BY <2>6, ClearPoolHolds
  <2>7. ASSUME NEW c \in Cycle, Promote(r, c) PROVE ClubInv'
    BY <2>7, PromoteHolds
  <2>8. CASE Join(r) \/ SetStatus(r)
    BY <2>8, JoinHolds, SetStatusHolds
  <2>9. CASE ScheduleMeeting(r) \/ DeleteMeeting(r) \/ SavePrompts(r)
    BY <2>9, MeetingHolds, SavePromptsHolds
  <2> QED
    BY <1>4, <2>1, <2>2, <2>3, <2>4, <2>5, <2>6, <2>7, <2>8, <2>9 DEF Effect
<1>5. ASSUME NEW r \in Request, GiveUp(r) PROVE ClubInv'
  BY <1>5, GiveUpHolds
<1>6. CASE UNCHANGED vars
  <2>1. UNCHANGED <<status, opened, from, post, posts, proposals, proposed, vote, pc, ask, clears,
                    joined, meetings, prompts>>
    BY <1>6 DEF vars, cycleVars, postVars, poolVars, roomVars, reqVars
  <2>2. UNCHANGED TypeOK
    BY <2>1 DEF TypeOK
  <2> QED
    BY <2>1, <2>2 DEF ClubInv, RowsThere, OpenBefore, OriginKnown, DiscussionFirst,
      ThreadsWhole, VotesHaveProposal, PromotedLeavesPool, AsksOK, AskOK, Promoting
<1> QED
  BY <1>1, <1>2, <1>3, <1>4, <1>5, <1>6 DEF Next, Ended, create_cycle, propose_book

----------------------------------------------------------------------------
(* Theorems *)

\* Every reachable state satisfies the inductive invariant.
THEOREM ClubInvHolds == Spec => []ClubInv
BY InitHolds, StepHolds, PTL DEF Spec

\* The rows, the requests and what they have read always have their types.
THEOREM ClubTypesHold == Spec => []TypeOK
<1>1. ClubInv => TypeOK
  BY DEF ClubInv
<1> QED
  BY <1>1, ClubInvHolds, PTL

\* No cycle is archived, and no post written, before a discussion has been
\* opened, however requests that have checked the stage overlap.
THEOREM DiscussionComesFirst == Spec => []DiscussionFirst
<1>1. ClubInv => DiscussionFirst
  BY DEF ClubInv
<1> QED
  BY <1>1, ClubInvHolds, PTL

\* The post that a reply answers is there and in the same cycle, whatever is
\* deleted meanwhile.
THEOREM ThreadsStayWhole == Spec => []ThreadsWhole
<1>1. ClubInv => ThreadsWhole
  BY DEF ClubInv
<1> QED
  BY <1>1, ClubInvHolds, PTL

\* Votes go with their proposal, whoever votes while the pool is cleared.
THEOREM VotesGoWithProposals == Spec => []VotesHaveProposal
<1>1. ClubInv => VotesHaveProposal
  BY DEF ClubInv
<1> QED
  BY <1>1, ClubInvHolds, PTL

\* A proposal that was promoted is not proposed any more.
THEOREM PromotedIsGone == Spec => []PromotedLeavesPool
<1>1. ClubInv => PromotedLeavesPool
  BY DEF ClubInv
<1> QED
  BY <1>1, ClubInvHolds, PTL

\* A request that checks writes to no table.
LEMMA CheckWritesNothing ==
  ASSUME NEW r \in Request, Check(r)
  PROVE  UNCHANGED <<cycleVars, postVars, poolVars, roomVars>>
<1>1. \A a : Accept(r, a) => UNCHANGED <<cycleVars, postVars, poolVars, roomVars>>
  BY DEF Accept
<1>2. advance_cycle_status(r) \/ archive_cycle(r) \/ add_post(r) \/ delete_post(r)
        => UNCHANGED <<cycleVars, postVars, poolVars, roomVars>>
  BY <1>1 DEF advance_cycle_status, archive_cycle, add_post, delete_post, CheckAdvance,
    CheckPost, CheckDeletePost
<1>3. toggle_vote(r) \/ promote_proposal(r) \/ join_cycle(r) \/ set_participant_status(r)
        => UNCHANGED <<cycleVars, postVars, poolVars, roomVars>>
  BY <1>1 DEF toggle_vote, promote_proposal, join_cycle, set_participant_status,
    CheckVote, CheckPromote, CheckJoin, CheckSetStatus
<1>4. schedule_meeting(r) \/ delete_meeting(r) \/ get_cycle_questions(r)
        => UNCHANGED <<cycleVars, postVars, poolVars, roomVars>>
  BY <1>1 DEF schedule_meeting, delete_meeting, get_cycle_questions, CheckMeeting,
    CheckDeleteMeeting, CheckPrompts
<1> QED
  BY <1>2, <1>3, <1>4 DEF Check

\* The two ways for a vote to go, in a step that changes it.
KeptVote(p, m) ==
  vote[p][m] # NoVote /\ vote'[p][m] # vote[p][m] =>
    \/ p \in proposals \ proposals'
    \/ \E r \in Request : /\ pc[r] = "checked" /\ pc'[r] = "done"
                          /\ ask[r].kind = "toggle"
                          /\ ask[r].proposal = p /\ ask[r].by = m
                          /\ ask[r].seen = vote[p][m]

LEMMA StepKeepsVotes ==
  ASSUME ClubInv, [Next]_vars, NEW p \in Proposal, NEW m \in Member
  PROVE  KeptVote(p, m)
<1>1. CASE UNCHANGED vote
  BY <1>1 DEF KeptVote
<1>2. ASSUME NEW r \in Request, ToggleVote(r) PROVE KeptVote(p, m)
  <2>1. /\ pc[r] = "checked" /\ ask[r].kind = "toggle" /\ pc'[r] = "done"
        /\ ask[r].proposal \in Proposal /\ ask[r].by \in Member
    BY <1>2, AskKinds DEF ToggleVote, Ends, Close, ClubInv, TypeOK, AsksOK, AskOK
  <2>2. CASE ask[r].proposal = p /\ ask[r].by = m
    <3>1. vote'[p][m] = CASE ask[r].seen # NoVote -> TakenBack(ask[r].seen, vote[p][m])
                          [] ask[r].seen = NoVote /\ VoteRefused(p, m) -> vote[p][m]
                          [] OTHER -> Cast(r)
      BY <1>2, <2>2 DEF ToggleVote, ClubInv, TypeOK
    <3> QED
      BY <2>1, <2>2, <3>1 DEF KeptVote, TakenBack, VoteRefused
  <2>3. CASE ~(ask[r].proposal = p /\ ask[r].by = m)
    <3>1. vote'[p][m] = vote[p][m]
      BY <1>2, <2>1, <2>3 DEF ToggleVote, ClubInv, TypeOK
    <3> QED
      BY <3>1 DEF KeptVote
  <2> QED
    BY <2>2, <2>3
<1>3. ASSUME NEW r \in Request, NEW c \in Cycle, Promote(r, c) PROVE KeptVote(p, m)
  BY <1>3 DEF Promote, KeptVote, ClubInv, VotesHaveProposal
<1>4. ASSUME NEW r \in Request, Check(r) PROVE UNCHANGED vote
  BY <1>4, CheckWritesNothing DEF poolVars
<1>5. ASSUME NEW r \in Request,
             \/ Advance(r) \/ AddPost(r) \/ DeletePost(r) \/ ScanPool(r)
             \/ ClearPool(r) \/ GiveUp(r)
      PROVE  UNCHANGED vote
  BY <1>5 DEF Advance, AddPost, DeletePost, ScanPool, ClearPool, GiveUp, poolVars
<1>6. ASSUME NEW r \in Request,
             \/ Join(r) \/ SetStatus(r) \/ ScheduleMeeting(r) \/ DeleteMeeting(r)
             \/ SavePrompts(r)
      PROVE  UNCHANGED vote
  BY <1>6 DEF Join, SetStatus, ScheduleMeeting, DeleteMeeting, SavePrompts, poolVars
<1>7. create_cycle \/ propose_book => UNCHANGED vote
  BY DEF create_cycle, propose_book, CreateCycle, Propose, poolVars
<1>8. UNCHANGED vars => UNCHANGED vote
  BY DEF vars, poolVars
<1> QED
  BY <1>1, <1>2, <1>3, <1>4, <1>5, <1>6, <1>7, <1>8 DEF Next, Effect, Ended

\* The one way for what a participant has said to change.
KeptStatus(c, m) ==
  joined[c][m] \notin {"none", joined'[c][m]} =>
    \E r \in Request : /\ pc[r] = "checked" /\ pc'[r] = "done"
                       /\ ask[r].kind = "status"
                       /\ ask[r].cycle = c /\ ask[r].by = m
                       /\ ask[r].to = joined'[c][m]

LEMMA StepKeepsStatus ==
  ASSUME ClubInv, [Next]_vars, NEW c \in Cycle, NEW m \in Member
  PROVE  KeptStatus(c, m)
<1>1. CASE UNCHANGED joined
  BY <1>1 DEF KeptStatus
<1>2. ASSUME NEW r \in Request, Join(r) PROVE KeptStatus(c, m)
  <2>1. ask[r].cycle \in Cycle /\ ask[r].by \in Member
    BY <1>2, AskKinds DEF Join, Ends, ClubInv, AsksOK, AskOK
  <2>2. \/ joined'[c][m] = joined[c][m]
        \/ joined'[c][m] = Entered(joined[c][m])
    BY <1>2, <2>1, RoomTypes DEF Join
  <2> QED
    BY <2>2 DEF KeptStatus, Entered
<1>3. ASSUME NEW r \in Request, SetStatus(r) PROVE KeptStatus(c, m)
  <2>1. /\ pc[r] = "checked" /\ ask[r].kind = "status" /\ pc'[r] = "done"
        /\ ask[r].cycle \in Cycle /\ ask[r].by \in Member
    BY <1>3, AskKinds DEF SetStatus, Ends, Close, ClubInv, TypeOK, AsksOK, AskOK
  <2>2. CASE ask[r].cycle = c /\ ask[r].by = m
    <3>1. joined'[c][m] = ask[r].to
      BY <1>3, <2>2, RoomTypes DEF SetStatus
    <3> QED
      BY <2>1, <2>2, <3>1 DEF KeptStatus
  <2>3. CASE ~(ask[r].cycle = c /\ ask[r].by = m)
    <3>1. joined'[c][m] = joined[c][m]
      BY <1>3, <2>1, <2>3, RoomTypes DEF SetStatus
    <3> QED
      BY <3>1 DEF KeptStatus
  <2> QED
    BY <2>2, <2>3
<1>4. ASSUME NEW r \in Request, Check(r) PROVE UNCHANGED joined
  BY <1>4, CheckWritesNothing DEF roomVars
<1>5. ASSUME NEW r \in Request,
             \/ Advance(r) \/ AddPost(r) \/ DeletePost(r) \/ ToggleVote(r) \/ ScanPool(r)
             \/ ClearPool(r) \/ GiveUp(r) \/ \E d \in Cycle : Promote(r, d)
      PROVE  UNCHANGED joined
  BY <1>5 DEF Advance, AddPost, DeletePost, ToggleVote, ScanPool, ClearPool, GiveUp,
    Promote, roomVars
<1>6. ASSUME NEW r \in Request,
             ScheduleMeeting(r) \/ DeleteMeeting(r) \/ SavePrompts(r)
      PROVE  UNCHANGED joined
  BY <1>6 DEF ScheduleMeeting, DeleteMeeting, SavePrompts
<1>7. create_cycle \/ propose_book => UNCHANGED joined
  BY DEF create_cycle, propose_book, CreateCycle, Propose, roomVars
<1>8. UNCHANGED vars => UNCHANGED joined
  BY DEF vars, roomVars
<1> QED
  BY <1>1, <1>2, <1>3, <1>4, <1>5, <1>6, <1>7, <1>8 DEF Next, Effect, Ended

\* No vote is lost to a request that had not seen it, but with its proposal,
\* and nobody else changes what a participant has said.
THEOREM NothingSaidIsLost == Spec => MembersAreHeard
<1>1. ClubInv /\ [Next]_vars =>
        /\ \A p \in Proposal, m \in Member : KeptVote(p, m)
        /\ \A c \in Cycle, m \in Member : KeptStatus(c, m)
  BY StepKeepsVotes, StepKeepsStatus
<1>2. ClubInv /\ [Next]_vars =>
        [/\ \A p \in Proposal, m \in Member :
              vote[p][m] # NoVote /\ vote'[p][m] # vote[p][m] =>
                \/ p \in proposals \ proposals'
                \/ \E r \in Request : /\ pc[r] = "checked" /\ pc'[r] = "done"
                                      /\ ask[r].kind = "toggle"
                                      /\ ask[r].proposal = p /\ ask[r].by = m
                                      /\ ask[r].seen = vote[p][m]
         /\ \A c \in Cycle, m \in Member :
              joined[c][m] \notin {"none", joined'[c][m]} =>
                \E r \in Request : /\ pc[r] = "checked" /\ pc'[r] = "done"
                                   /\ ask[r].kind = "status"
                                   /\ ask[r].cycle = c /\ ask[r].by = m
                                   /\ ask[r].to = joined'[c][m]]_vars
  BY <1>1 DEF KeptVote, KeptStatus
<1> QED
  BY <1>2, ClubInvHolds, PTL DEF Spec, MembersAreHeard

=============================================================================
