\* Two requests that overlap, about one cycle.
SPECIFICATION Spec
CONSTANTS
  Cycle = {c1}
  Post = {p1, p2}
  Proposal = {q1}
  Member = {m1}
  Request = {r1, r2}
  NoRow = NoRow
  NoPost = NoPost
  NoVote = NoVote
  Earlier = Earlier
  NoProposal = NoProposal
  NoPrompts = NoPrompts
  NoAsk = NoAsk
PROPERTY
  TransitionsAllowed
