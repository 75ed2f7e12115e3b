SPECIFICATION Spec
CONSTANTS
  l1 = l1
  s1 = s1
  s2 = s2
  s3 = s3
  x = x
  None = None
  Sids <- MCSids
  ForeignSids <- MCForeignSids
  Lids <- MCLids
  TableOf <- MCSessions
  ForeignTables = {}
  WriteAnyTime = FALSE
  MayReject = TRUE
  FailIn = {}
  MaxWrites = 3
  Cols <- MCColsOne
INVARIANTS SyncedMeansConfirmed
