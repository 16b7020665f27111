SPECIFICATION FairSpec
CONSTANTS
  Queries = {q1}
  Defaults = {d1, d2}
  Receivers = {r1, r2}
  Closers = {k1}
  MaxArrivals = 2
INVARIANTS
  InterceptSafety
PROPERTIES
  AutoCloseOnlyWhenIdle
  CallsEnd
  AssocContract
CHECK_DEADLOCK FALSE
