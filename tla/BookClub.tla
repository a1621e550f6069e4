------------------------------ MODULE BookClub ------------------------------
(***************************************************************************)
(* The book club of a library: cycles of reading and discussion with their *)
(* participants, meetings and prompts, the posts of a discussion, and the  *)
(* proposals members vote on for the next cycle.                           *)
(*                                                                         *)
(* A request checks what it has read and writes later, in one transaction  *)
(* under READ COMMITTED. But for the promotion of a proposal it writes a   *)
(* single row, which it keeps locked until it commits, so it is a step     *)
(* that checks and a step that takes effect; other requests come between.  *)
(***************************************************************************)
EXTENDS FiniteSets

CONSTANTS
  Cycle, Post, Proposal,  \* identifiers (UUIDs); each is used once
  Member,                 \* library members
  Request,                \* requests; each is made at most once
  NoRow,                  \* there is no such post yet
  NoPost,                 \* parent_post_id is null
  NoVote, Earlier,        \* there is no vote; there is one of an earlier request
  NoProposal,             \* a cycle that was not voted for
  NoPrompts,              \* nobody has asked for the prompts of a cycle
  NoAsk                   \* the request has not been made, or has ended

ASSUME NoPostIsNoPost == NoPost \notin Post
ASSUME NoVoteIsNoRequest == NoVote \notin Request \cup {Earlier}
ASSUME NoProposalIsNone == NoProposal \notin Proposal

VARIABLES
  status,     \* book_club_cycles: where each cycle is, "none" before it starts
  post,       \* the rows book_club_posts has ever had
  posts,      \* the ones it has
  proposals,  \* the rows of book_club_proposals
  proposed,   \* the identifiers used for them
  vote,       \* book_club_votes: who voted, by the request that made the row
  joined,     \* book_club_participants: the status of each member in a cycle
  meetings,   \* book_club_meetings, by the request that made the row
  prompts,    \* book_club_question_sets, in one language: who generated them
  pc, ask,    \* each request, where it is and what it has read
  clears,     \* the proposals a promotion is clearing
  opened,     \* history: the cycles that have been open for discussion
  from        \* history: the proposal each cycle comes from

cycleVars == <<status, opened, from>>
postVars  == <<post, posts>>
poolVars  == <<proposals, proposed, vote>>
roomVars  == <<joined, meetings, prompts>>
reqVars   == <<pc, ask, clears>>
vars      == <<cycleVars, postVars, poolVars, roomVars, reqVars>>

----------------------------------------------------------------------------
(* Cycles, posts and requests *)

Status == {"proposing", "voting", "reading", "discussing", "archived"}

\* Mutant of Transitions: a cycle may be closed without a discussion.
TransitionsShort(s) ==
  CASE s = "proposing"  -> {"voting", "reading"}
    [] s = "voting"     -> {"reading"}
    [] s = "reading"    -> {"discussing", "archived"}
    [] s = "discussing" -> {"archived", "reading"}
    [] s = "archived"   -> {"discussing"}
    [] OTHER -> {}

Transitions(s) ==
  CASE s = "proposing"  -> {"voting", "reading"}
    [] s = "voting"     -> {"reading"}
    [] s = "reading"    -> {"discussing"}
    [] s = "discussing" -> {"archived", "reading"}
    [] s = "archived"   -> {"discussing"}
    [] OTHER -> {}

PostRow == [cycle : Cycle, under : Post \cup {NoPost}, author : Member]

Vote == Request \cup {Earlier, NoVote}

ParticipantStatus == {"joined", "finished"}

Meeting == Request \cup {Earlier}

\* What a request has been asked for, and the vote a toggle has found.
Ask ==
  [kind : {"advance"}, cycle : Cycle, to : Status]
    \cup [kind : {"post"}, cycle : Cycle, under : Post \cup {NoPost}, by : Member]
    \cup [kind : {"unpost"}, post : Post]
    \cup [kind : {"toggle"}, proposal : Proposal, by : Member,
          seen : Vote]
    \cup [kind : {"promote"}, proposal : Proposal]
    \cup [kind : {"join"}, cycle : Cycle, by : Member]
    \cup [kind : {"status"}, cycle : Cycle, by : Member, to : ParticipantStatus]
    \cup [kind : {"meet", "prompts"}, cycle : Cycle]
    \cup [kind : {"unmeet"}, meeting : Meeting]

ASSUME NoRowIsNoRow == NoRow \notin PostRow
ASSUME NoAskIsNoAsk == NoAsk \notin Ask

Goes(r, at, to) == pc[r] = at /\ pc' = [pc EXCEPT ![r] = to]

\* The checks are passed.
Accept(r, a) ==
  /\ Goes(r, "idle", "checked")
  /\ ask' = [ask EXCEPT ![r] = a]
  /\ UNCHANGED <<cycleVars, postVars, poolVars, roomVars, clears>>

\* The request ends, and its transaction with it.
Close(r) ==
  /\ pc' = [pc EXCEPT ![r] = "done"]
  /\ ask' = [ask EXCEPT ![r] = NoAsk]
  /\ clears' = [clears EXCEPT ![r] = {}]

\* A single row is written and committed, or the write fails.
Ends(r, kind) == pc[r] = "checked" /\ ask[r].kind = kind /\ Close(r)

----------------------------------------------------------------------------
(* Cycles *)

\* CreateCycleUseCase, whose new row nobody knows before it is committed.
CreateCycle(c) ==
  /\ status[c] = "none"
  /\ status' = [status EXCEPT ![c] = "reading"]
  /\ UNCHANGED <<opened, from, postVars, poolVars, roomVars, reqVars>>

\* can_transition_to() of the row that was read.
CheckAdvance(r, c, to) ==
  /\ status[c] # "none" /\ to \in Transitions(status[c])
  /\ Accept(r, [kind |-> "advance", cycle |-> c, to |-> to])

\* save() finds the row by its identifier, wherever the cycle is by now.
Advance(r) ==
  /\ Ends(r, "advance")
  /\ status' = [status EXCEPT ![ask[r].cycle] = ask[r].to]
  /\ opened' = IF ask[r].to = "discussing" THEN opened \cup {ask[r].cycle}
                                           ELSE opened
  /\ UNCHANGED <<from, postVars, poolVars, roomVars>>

----------------------------------------------------------------------------
(* Posts *)

CheckPost(r, c, p, m) ==
  /\ status[c] = "discussing"
  /\ p # NoPost => p \in posts /\ post[p].cycle = c
  /\ Accept(r, [kind |-> "post", cycle |-> c, under |-> p, by |-> m])

\* The foreign key of a reply: 409 when the parent has gone since.
AddPost(r) ==
  /\ Ends(r, "post")
  /\ IF ask[r].under \in posts \cup {NoPost}
     THEN \E p \in Post :
            /\ post[p] = NoRow
            /\ post' = [post EXCEPT ![p] = [cycle |-> ask[r].cycle,
                                            under |-> ask[r].under,
                                            author |-> ask[r].by]]
            /\ posts' = posts \cup {p}
     ELSE UNCHANGED postVars
  /\ UNCHANGED <<cycleVars, poolVars, roomVars>>

\* An author deletes a post of their own, an admin any.
CheckDeletePost(r, p, m, admin) ==
  /\ p \in posts
  /\ post[p].author = m \/ admin
  /\ Accept(r, [kind |-> "unpost", post |-> p])

\* Mutant of Thread: the replies go, but not the replies to them.
ThreadShallow(p) == {q \in posts : q = p \/ post[q].under = p}

\* A post, the replies to it, the replies to those, and so on: the least set
\* of posts that ON DELETE CASCADE leaves nothing hanging from. None if the
\* post has gone by now.
Thread(p) ==
  {q \in posts :
     \A S \in SUBSET posts :
       /\ p \in posts => p \in S
       /\ \A s \in posts : post[s].under \in S => s \in S
       => q \in S}

DeletePost(r) ==
  /\ Ends(r, "unpost")
  /\ posts' = posts \ Thread(ask[r].post)
  /\ UNCHANGED <<post, cycleVars, poolVars, roomVars>>

----------------------------------------------------------------------------
(* Proposals and votes *)

Propose(p) ==
  /\ p \notin proposed
  /\ proposed' = proposed \cup {p}
  /\ proposals' = proposals \cup {p}
  /\ UNCHANGED <<vote, cycleVars, postVars, roomVars, reqVars>>

CheckVote(r, p, m) ==
  /\ p \in proposals
  /\ Accept(r, [kind |-> "toggle", proposal |-> p, by |-> m, seen |-> vote[p][m]])

\* A promotion that has deleted a proposal keeps its row and its votes locked.
Locked(p) == \E s \in Request : pc[s] = "cleared" /\ p \in clears[s]

\* Mutant of VoteRefused: no foreign key from the vote to the proposal.
VoteRefusedOnKeyOnly(p, m) == vote[p][m] # NoVote

\* 409: the proposal has gone, or the member has voted, since the check.
VoteRefused(p, m) == p \notin proposals \/ vote[p][m] # NoVote

\* Mutant of Cast: the answer to the client is stored.
CastAnswer(r) == TRUE

Cast(r) == r

\* Mutant of TakenBack: the vote is deleted by its key.
TakenBackByKey(seen, current) == NoVote

\* The vote that was found is deleted by its identifier, if it is still there.
TakenBack(seen, current) == IF current = seen THEN NoVote ELSE current

ToggleVote(r) ==
  LET p == ask[r].proposal
      m == ask[r].by
  IN  /\ Ends(r, "toggle")
      /\ ~Locked(p)
      /\ vote' = [vote EXCEPT ![p][m] =
                    CASE ask[r].seen # NoVote -> TakenBack(ask[r].seen, @)
                      [] ask[r].seen = NoVote /\ VoteRefused(p, m) -> @
                      [] OTHER -> Cast(r)]
      /\ UNCHANGED <<proposals, proposed, cycleVars, postVars, roomVars>>

----------------------------------------------------------------------------
(* Promotion: a new cycle, and the pool of proposals cleared *)

CheckPromote(r, p) ==
  /\ p \in proposals
  /\ Accept(r, [kind |-> "promote", proposal |-> p])

\* Mutant of Pool: the winner stays in the pool.
PoolOfLosers(r) == proposals \ {ask[r].proposal}

\* The rows a DELETE of the library's proposals finds when it starts.
Pool(r) == proposals

ScanPool(r) ==
  /\ Goes(r, "checked", "clearing") /\ ask[r].kind = "promote"
  /\ clears' = [clears EXCEPT ![r] = Pool(r)]
  /\ UNCHANGED <<ask, cycleVars, postVars, poolVars, roomVars>>

\* It waits for whoever has deleted some of them, and skips what has gone.
ClearPool(r) ==
  /\ Goes(r, "clearing", "cleared")
  /\ \A p \in clears[r] : ~Locked(p)
  /\ clears' = [clears EXCEPT ![r] = @ \cap proposals]
  /\ UNCHANGED <<ask, cycleVars, postVars, poolVars, roomVars>>

\* The votes go with their proposal.
Promote(r, c) ==
  /\ status[c] = "none"
  /\ pc[r] = "cleared" /\ Close(r)
  /\ status' = [status EXCEPT ![c] = "reading"]
  /\ from' = [from EXCEPT ![c] = ask[r].proposal]
  /\ proposals' = proposals \ clears[r]
  /\ vote' = [p \in Proposal |-> IF p \in clears[r]
                                 THEN [m \in Member |-> NoVote] ELSE vote[p]]
  /\ UNCHANGED <<opened, postVars, proposed, roomVars>>

----------------------------------------------------------------------------
(* Participants, meetings and prompts of a cycle *)

\* A member who takes part already is answered, and nothing is written.
CheckJoin(r, c, m) ==
  /\ status[c] # "none" /\ joined[c][m] = "none"
  /\ Accept(r, [kind |-> "join", cycle |-> c, by |-> m])

\* 409: the member has joined since, and the row stays as it is.
Entered(current) == IF current = "none" THEN "joined" ELSE current

Join(r) ==
  /\ Ends(r, "join")
  /\ joined' = [joined EXCEPT ![ask[r].cycle][ask[r].by] = Entered(@)]
  /\ UNCHANGED <<meetings, prompts, cycleVars, postVars, poolVars>>

CheckSetStatus(r, c, m, to) ==
  /\ joined[c][m] # "none"
  /\ Accept(r, [kind |-> "status", cycle |-> c, by |-> m, to |-> to])

\* save() reads the row again and sets what was asked for.
SetStatus(r) ==
  /\ Ends(r, "status")
  /\ joined' = [joined EXCEPT ![ask[r].cycle][ask[r].by] = ask[r].to]
  /\ UNCHANGED <<meetings, prompts, cycleVars, postVars, poolVars>>

CheckMeeting(r, c) == status[c] # "none" /\ Accept(r, [kind |-> "meet", cycle |-> c])

ScheduleMeeting(r) ==
  /\ Ends(r, "meet")
  /\ meetings' = meetings \cup {r}
  /\ UNCHANGED <<joined, prompts, cycleVars, postVars, poolVars>>

CheckDeleteMeeting(r, k) == k \in meetings /\ Accept(r, [kind |-> "unmeet", meeting |-> k])

DeleteMeeting(r) ==
  /\ Ends(r, "unmeet")
  /\ meetings' = meetings \ {ask[r].meeting}
  /\ UNCHANGED <<joined, prompts, cycleVars, postVars, poolVars>>

\* None are stored in this language: a language model is asked for some.
CheckPrompts(r, c) ==
  /\ status[c] # "none" /\ prompts[c] = NoPrompts
  /\ Accept(r, [kind |-> "prompts", cycle |-> c])

\* save() looks again: those of another request since are written over, or
\* the unique key refuses these.
SavePrompts(r) ==
  /\ Ends(r, "prompts")
  /\ \/ prompts' = [prompts EXCEPT ![ask[r].cycle] = r]
     \/ prompts[ask[r].cycle] # NoPrompts /\ UNCHANGED prompts
  /\ UNCHANGED <<joined, meetings, cycleVars, postVars, poolVars>>

----------------------------------------------------------------------------
(* The endpoints *)

create_cycle == \E c \in Cycle : CreateCycle(c)

advance_cycle_status(r) == \E c \in Cycle, to \in Status : CheckAdvance(r, c, to)

archive_cycle(r) == \E c \in Cycle : CheckAdvance(r, c, "archived")

add_post(r) ==
  \E c \in Cycle, p \in Post \cup {NoPost}, m \in Member : CheckPost(r, c, p, m)

delete_post(r) ==
  \E p \in Post, m \in Member, admin \in BOOLEAN : CheckDeletePost(r, p, m, admin)

propose_book == \E p \in Proposal : Propose(p)

toggle_vote(r) == \E p \in Proposal, m \in Member : CheckVote(r, p, m)

promote_proposal(r) == \E p \in Proposal : CheckPromote(r, p)

join_cycle(r) == \E c \in Cycle, m \in Member : CheckJoin(r, c, m)

set_participant_status(r) ==
  \E c \in Cycle, m \in Member, to \in ParticipantStatus : CheckSetStatus(r, c, m, to)

schedule_meeting(r) == \E c \in Cycle : CheckMeeting(r, c)

delete_meeting(r) == \E k \in Meeting : CheckDeleteMeeting(r, k)

get_cycle_questions(r) == \E c \in Cycle : CheckPrompts(r, c)

\* 403, 404 or 409 before any write, or a server that stops before the commit.
GiveUp(r) ==
  /\ pc[r] # "done" /\ Close(r)
  /\ UNCHANGED <<cycleVars, postVars, poolVars, roomVars>>

\* A post and a reply to it.
Discussion(p, q, c, m) ==
  [x \in Post |-> CASE x = p -> [cycle |-> c, under |-> NoPost, author |-> m]
                    [] x = q -> [cycle |-> c, under |-> p, author |-> m]
                    [] OTHER -> NoRow]

\* The club as earlier requests left it: cycles new and open, proposals
\* with and without votes, and maybe a discussion that has begun.
Init ==
  /\ status \in [Cycle -> {"none", "reading", "discussing"}]
  /\ opened = {c \in Cycle : status[c] = "discussing"}
  /\ from = [c \in Cycle |-> NoProposal]
  /\ \/ post = [p \in Post |-> NoRow]
     \/ \E p, q \in Post, c \in opened, m \in Member :
          p # q /\ post = Discussion(p, q, c, m)
  /\ posts = {p \in Post : post[p] # NoRow}
  /\ proposals \in SUBSET Proposal
  /\ proposed = proposals
  /\ vote \in [Proposal -> [Member -> {NoVote, Earlier}]]
  /\ \A p \in Proposal, m \in Member : vote[p][m] # NoVote => p \in proposals
  /\ joined = [c \in Cycle |-> [m \in Member |-> "none"]]
  /\ meetings = {Earlier}
  /\ prompts = [c \in Cycle |-> NoPrompts]
  /\ pc = [r \in Request |-> "idle"]
  /\ ask = [r \in Request |-> NoAsk]
  /\ clears = [r \in Request |-> {}]

Check(r) ==
  \/ advance_cycle_status(r) \/ archive_cycle(r) \/ add_post(r) \/ delete_post(r)
  \/ toggle_vote(r) \/ promote_proposal(r) \/ join_cycle(r) \/ set_participant_status(r)
  \/ schedule_meeting(r) \/ delete_meeting(r) \/ get_cycle_questions(r)

Effect(r) ==
  \/ Advance(r) \/ AddPost(r) \/ DeletePost(r) \/ ToggleVote(r)
  \/ ScanPool(r) \/ ClearPool(r) \/ \E c \in Cycle : Promote(r, c)
  \/ Join(r) \/ SetStatus(r) \/ ScheduleMeeting(r) \/ DeleteMeeting(r) \/ SavePrompts(r)

Ended == (\A r \in Request : pc[r] = "done") /\ UNCHANGED vars

Next ==
  \/ create_cycle \/ propose_book
  \/ \E r \in Request : Check(r) \/ Effect(r) \/ GiveUp(r)
  \/ Ended

Spec == Init /\ [][Next]_vars

----------------------------------------------------------------------------
(* Properties *)

TypeOK ==
  /\ status \in [Cycle -> Status \cup {"none"}]
  /\ opened \subseteq Cycle /\ from \in [Cycle -> Proposal \cup {NoProposal}]
  /\ post \in [Post -> PostRow \cup {NoRow}] /\ posts \subseteq Post
  /\ proposals \subseteq proposed /\ proposed \subseteq Proposal
  /\ vote \in [Proposal -> [Member -> Vote]]
  /\ joined \in [Cycle -> [Member -> ParticipantStatus \cup {"none"}]]
  /\ meetings \subseteq Meeting
  /\ prompts \in [Cycle -> Request \cup {NoPrompts}]
  /\ pc \in [Request -> {"idle", "checked", "clearing", "cleared", "done"}]
  /\ ask \in [Request -> Ask \cup {NoAsk}]
  /\ clears \in [Request -> SUBSET Proposal]

(* "A cycle must have gone through discussion before it can be closed", and *)
(* there is a post only where a discussion has been opened: this holds      *)
(* although the stage a request has checked may be another when it writes.  *)
(* (book_club_cycle.py, the comment on the transitions; AddPostUseCase)     *)
DiscussionFirst ==
  /\ \A c \in Cycle : status[c] = "archived" => c \in opened
  /\ \A p \in posts : post[p].cycle \in opened

(* A thread stays whole: the post a reply answers is there, and belongs to  *)
(* the same cycle, although posts are deleted while they are answered.      *)
(* (AddPostUseCase, BookClubPostModel.parent_post_id)                       *)
ThreadsWhole ==
  \A p \in posts : post[p].under # NoPost =>
    post[p].under \in posts /\ post[post[p].under].cycle = post[p].cycle

(* There is a vote only for a proposal that is there, although members vote *)
(* while a promotion clears the pool. (BookClubVoteModel.proposal_id)       *)
VotesHaveProposal ==
  \A p \in Proposal, m \in Member : vote[p][m] # NoVote => p \in proposals

(* A proposal that became a cycle is out of the pool for good.              *)
(* (PromoteProposalUseCase: "clears the whole proposal pool")               *)
PromotedLeavesPool == \A c \in Cycle : from[c] \notin proposals

(* What a member has said is kept. A vote goes only with its proposal, or   *)
(* by a toggle of the same member that has found this very vote: one that   *)
(* was taken back and given again since is not lost. A member who has       *)
(* finished the book is not set back by joining a second time.              *)
(* (ToggleVoteUseCase.execute, JoinCycleUseCase.execute)                    *)
MembersAreHeard ==
  [][/\ \A p \in Proposal, m \in Member :
          vote[p][m] # NoVote /\ vote'[p][m] # vote[p][m] =>
            \/ p \in proposals \ proposals'
            \/ \E r \in Request : /\ pc[r] = "checked" /\ pc'[r] = "done"
                                  /\ ask[r].kind = "toggle"
                                  /\ ask[r].proposal = p /\ ask[r].by = m
                                  /\ ask[r].seen = vote[p][m]
     /\ \A c \in Cycle, m \in Member :
          joined[c][m] \notin {"none", joined'[c][m]} =>
            \E r \in Request : /\ pc[r] = "checked" /\ pc'[r] = "done"
                               /\ ask[r].kind = "status"
                               /\ ask[r].cycle = c /\ ask[r].by = m
                               /\ ask[r].to = joined'[c][m]]_vars

(* "Illegal transitions are rejected": a cycle only ever moves along the    *)
(* table of transitions. (advance_cycle_status in endpoints/book_club.py,   *)
(* and the comment "Archiving itself only leaves DISCUSSING")               *)
TransitionsAllowed ==
  [][\A c \in Cycle : status[c] \notin {"none", status'[c]} =>
       status'[c] \in Transitions(status[c])]_vars

=============================================================================
