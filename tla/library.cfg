\* Two requests of every kind that overlap, and backups written earlier.
SPECIFICATION Spec
CONSTANTS
  u1 = u1
  Index = {"a", "b", "t1", "i1"}
  Member = {u1}
  Request = {r1, r2}
  Earlier = Earlier
  None = None
  Libraries <- SomeLibraries
  Backups <- SomeBackups
  PageSize = 1
  Rank <- SomeRanks
INVARIANTS
  TypeOK
  BackupIsWhole
PROPERTIES
  NoPileUp
  RestoredWhole
  WipeLeavesNothing
