\* Three requests one after the other: the atomic handlers of OwnedCopy.
SPECIFICATION Spec
CONSTANTS
  Book = {b1, b2}
  Member = {m1, m2}
  Place = {p0, p1}
  Unplaced = p0
  NoOne = NoOne
  NoBook = NoBook
  Request = {r1, r2, r3}
  Free = Free
  Keep = Keep
  NoWrite = NoWrite
  Overlap = FALSE
SYMMETRY Symmetry
INVARIANTS
  StatusTracksReader
  AuditMatchesTable
PROPERTIES
  CopySpec
  StatusAskedIsSeen
