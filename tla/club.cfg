\* Three requests that overlap, on two cycles and two proposals.
SPECIFICATION Spec
CONSTANTS
  Cycle = {c1, c2}
  Post = {p1, p2, p3}
  Proposal = {q1, q2}
  Member = {m1}
  Request = {r1, r2, r3}
  NoRow = NoRow
  NoPost = NoPost
  NoVote = NoVote
  Earlier = Earlier
  NoProposal = NoProposal
  NoPrompts = NoPrompts
  NoAsk = NoAsk
SYMMETRY Symmetry
INVARIANTS
  TypeOK
  DiscussionFirst
  ThreadsWhole
  VotesHaveProposal
  PromotedLeavesPool
PROPERTY
  MembersAreHeard
