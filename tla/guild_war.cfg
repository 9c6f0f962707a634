\* Two members, two wars of the event one after the other, two requests at a time.
CONSTANTS
  m1 = m1  m2 = m2  w1 = w1  w2 = w2  r1 = r1  r2 = r2
  Members <- TwoMembers
  Wars <- TwoWars
  Requests <- TwoRequests
  NoId = NoId
  MaxRequests = 4
SYMMETRY WarSymmetry
SPECIFICATION Spec
INVARIANTS RosterSignedUp
PROPERTIES SavedOnRosterSeen
CHECK_DEADLOCK FALSE
