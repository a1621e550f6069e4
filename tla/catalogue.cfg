\* Two requests of every kind that overlap, on two titles and one ISBN.
SPECIFICATION Spec
CONSTANTS
  t1 = t1
  t2 = t2
  i1 = i1
  u1 = u1
  Member = {u1}
  Title = {t1, t2}
  Alike <- SomeAlike
  Isbn = {i1}
  NoIsbn = NoIsbn
  Stars = {1, 2}
  Item <- SomeItems
  Request = {r1, r2}
  Earlier = Earlier
  NoRow = NoRow
  NoRecord = NoRecord
  Nobody = Nobody
SYMMETRY Symmetry
INVARIANTS
  TypeOK
  OneRecordPerIsbn
  NoSilentDuplicate
  ShelfOrder
PROPERTIES
  SavesWhatWasAsked
  RecordsHold
  CopiesHold
