\* Three requests of every kind that overlap, on two copies.
SPECIFICATION Spec
CONSTANTS
  Book = {b1, b2}
  Child = {c1}
  Parent = {g1}
  Request = {r1, r2, r3}
  Earlier = Earlier
  Day = {1, 2}
  NoSession = NoSession
  NoAuthor = NoAuthor
SYMMETRY Symmetry
INVARIANTS
  TypeOK
  OneSetPerBook
  ReviewsWhole
  LinksHold
  QuizGeneratedOnce
PROPERTIES
  ProgressKept
  RowsHang
