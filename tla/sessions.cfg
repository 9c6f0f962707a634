\* Four requests of any kind, of the member and of an administrator.
CONSTANTS
  q1 = q1  q2 = q2  q3 = q3  q4 = q4
  Requests <- FourRequests
  NoRequest = NoRequest
  ResetLife = 1
  SessionLife = 2
  AbsoluteLife = 1
  MaximumSessions = 2
  LastInstant = 2
  MaxPassword = 4
  MaxRevision = 4
SYMMETRY RequestSymmetry
SPECIFICATION Spec
INVARIANTS TypeOK OnlyHoldersAreIn OneUse SessionsBounded
PROPERTIES ChangedByItsHolder
CHECK_DEADLOCK FALSE
