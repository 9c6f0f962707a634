\* Two runs at once, crashes, late writes and an entry a system test takes back.
CONSTANTS
  e1 = e1  e2 = e2  e3 = e3  a1 = a1  a2 = a2  a3 = a3  r1 = r1  r2 = r2
  t1 = t1  t2 = t2  t3 = t3
  None = None
  Entries <- ThreeEntries
  TestEntries <- OneTestEntry
  Archives <- ThreeArchives
  Runs <- TwoRuns
  Tokens <- ThreeTokens
  BatchSize = 2
  CleanupSize = 1
  MaxFaults = 2
SYMMETRY RaceSymmetry
SPECIFICATION Spec
INVARIANTS ExactlyOneFile ReadyIsServed NoOrphanFiles
PROPERTIES RefinesAuditLog
