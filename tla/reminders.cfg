\* The jobs of two workers on the same loans, under fairness.
SPECIFICATION FairSpec
CONSTANTS
  Book = {b1, b2}
  Loan = {l1, l2}
  Request = {}
  Worker = {w1, w2}
  NoLoan = NoLoan
  MaxCrashes = 1
INVARIANT
  OncePerWorker
PROPERTY
  DueLoansAreReminded
CHECK_DEADLOCK FALSE
