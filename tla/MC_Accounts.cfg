SPECIFICATION Spec
CONSTANTS
  None = None
  Unset <- MCUnset
  Conns = {k1, k2}
  Granted <- MCGranted
  Federations <- MCFederations
  Provider = "gotrue"
  Questions <- MCQuestions
  MaxRequests = 3
  MaxOpen = 2
  MaxFaults = 1
SYMMETRY Symmetry
INVARIANTS SeesOwnTenant ShreddedForGood
PROPERTIES TakenBackForGood
\* The requests are bounded: the system stops when all are over.
CHECK_DEADLOCK FALSE
