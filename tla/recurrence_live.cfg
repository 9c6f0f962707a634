\* One process that may die or be stalled, and two templates in two batches.
CONSTANTS
  r1 = r1  r2 = r2
  t1 = t1  t2 = t2
  None = None
  Runs <- OneRun
  Tokens <- TwoTokens
  Templates <- TwoTemplates
  Cursors <- TwoTemplates
  LastDay = 2
  Rules <- OneRule
  Ahead = 0
  MaxTemplates = 1
  MaxOccurrences = 1
  MaxBatches = 2
  MaxEdits = 1
  MaxFaults = 1
SPECIFICATION FairSpec
PROPERTIES EveryEventMade
