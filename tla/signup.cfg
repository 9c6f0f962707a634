\* Two requests at a time next to the jobs that draw raffles and archive events.
CONSTANTS
  m1 = m1  m2 = m2  c1 = c1  c2 = c2  q1 = q1  q2 = q2
  None = None
  Job = Job
  Members <- TwoMembers
  Answers <- TwoAnswers
  Requests <- TwoRequests
  Ends <- SoonOrLate
  Patches <- SomePatches
  SignedUp <- NobodyOrOne
  LastInstant = 2
  MaxRequests = 3
SPECIFICATION FairSpec
INVARIANTS TypeOK
PROPERTIES DrawFromEveryone DrawIsFinal VotesStand NeverOverbooked RaffleIsDrawn
CHECK_DEADLOCK FALSE
