\* Two requests and a worker, two copies and two loans.
SPECIFICATION Spec
CONSTANTS
  Book = {b1, b2}
  Loan = {l1, l2}
  Request = {r1, r2}
  Worker = {w1}
  NoLoan = NoLoan
  MaxCrashes = 1
SYMMETRY Symmetry
INVARIANTS
  TypeOK
  OneActiveLoan
  LoansHaveCopy
  RemindedWasSent
PROPERTY
  SettledStaysSettled
CHECK_DEADLOCK FALSE
