SPECIFICATION Spec
CONSTANTS
  l1 = l1
  s1 = s1
  s2 = s2
  s3 = s3
  x = x
  None = None
  Sids <- MCSidsThree
  ForeignSids <- MCForeignSids
  Lids <- MCLids
  TableOf <- MCShots
  ForeignTables <- Tables
  WriteAnyTime = TRUE
  MayReject = TRUE
  FailIn <- MCPhases
  MaxWrites = 4
  Cols <- MCColsOne
INVARIANTS StoreSound UnconfirmedIsAstray Converged
PROPERTIES CreateKept TombstoneKept EditKept
