\* Two requests in flight together, for one member: does each of them end?
SPECIFICATION FairSpec
CONSTANTS
  Book = {b1, b2}
  Member = {m1}
  Place = {p0}
  Unplaced = p0
  NoOne = NoOne
  NoBook = NoBook
  Request = {r1, r2}
  Free = Free
  Keep = Keep
  NoWrite = NoWrite
  Overlap = TRUE
PROPERTY
  EveryRequestEnds
