\* One run after the other, with crashes: every entry is archived.
CONSTANTS
  e1 = e1  e2 = e2  e3 = e3  a1 = a1  a2 = a2  a3 = a3  r1 = r1  r2 = r2
  t1 = t1  t2 = t2  t3 = t3
  None = None
  Entries <- TwoEntries
  TestEntries <- NoTestEntry
  Archives <- TwoArchives
  Runs <- OneRun
  Tokens <- TwoTokens
  BatchSize = 1
  CleanupSize = 1
  MaxFaults = 3
SPECIFICATION FairSpec
PROPERTIES EveryEntryArchived
