\* One worker's job, and a request that deletes both copies meanwhile.
SPECIFICATION Spec
CONSTANTS
  Book = {b1, b2}
  Loan = {l1, l2}
  Request = {r1}
  Worker = {w1}
  NoLoan = NoLoan
  MaxCrashes = 0
PROPERTY
  FailureStaysLocal
CHECK_DEADLOCK FALSE
