SPECIFICATION Spec
CONSTANTS
  c = c
  d = d
  None = None
  TenantOf <- MCTenantOf
  Coaches = {c, d}
  Questions <- MCQuestions
  MaxRequests = 3
  MaxOpen = 3
  MaxFaults = 1
INVARIANTS FilesAndRows ReadsStayInTenant
PROPERTIES ReadyUnlessOvertaken
\* The requests are bounded: the system stops when all are over.
CHECK_DEADLOCK FALSE
