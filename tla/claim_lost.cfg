\* Two requests in flight together, about the same copy.
SPECIFICATION Spec
CONSTANTS
  Book = {b1}
  Member = {m1, m2}
  Place = {p0, p1}
  Unplaced = p0
  NoOne = NoOne
  NoBook = NoBook
  Request = {r1, r2}
  Free = Free
  Keep = Keep
  NoWrite = NoWrite
  Overlap = TRUE
PROPERTY
  SelfServiceReader
