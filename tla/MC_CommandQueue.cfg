SPECIFICATION FairSpec
CONSTANTS
  c1 = c1
  c2 = c2
  c3 = c3
  None = None
  Commands <- MCCommands
  MaxAttempts = 2
  Retried <- MCRetried
  Capacity = 2
INVARIANTS AnswerOwed
PROPERTIES NothingAskedAfterReply ImplementsSerialExecutor EverySubmitReturns
\* Every call is made at most once: the system stops when all have returned.
CHECK_DEADLOCK FALSE
