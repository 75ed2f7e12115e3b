SPECIFICATION Spec
CONSTANTS
  c1 = c1
  c2 = c2
  a = a
  k1 = k1
  None = None
  NoOne = NoOne
  Items = {k1}
  Principals = {c1, c2, a}
  Coaches = {c1, c2}
  TenantOf <- MCTenantOf
  Times = {1, 2, 3}
  MaxRequests = 3
  MaxOpen = 2
  MaxFaults = 1
SYMMETRY Symmetry
INVARIANTS LabelledByClaimant BrokenByOverlapOrClock
PROPERTIES LabelledLeftByStale
\* The requests are bounded: the system stops when all are over.
CHECK_DEADLOCK FALSE
