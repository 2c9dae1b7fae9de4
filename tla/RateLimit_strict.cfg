CONSTANTS
  q1 = q1  q2 = q2  q3 = q3  q4 = q4  q5 = q5
  Requests = {q1, q2, q3, q4, q5}
  Limit = 4
  Divisor = 2
  Restricted = TRUE
  Strict = TRUE
  StoreFaults = TRUE
  MaxWindow = 2
SPECIFICATION LimitSpec
SYMMETRY Symmetry
INVARIANTS
  WithinLimit
CHECK_DEADLOCK FALSE
