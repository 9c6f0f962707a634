\* Two processes, one of which may be stalled or die, and two staff operations.
CONSTANTS
  r1 = r1  r2 = r2
  t1 = t1  t2 = t2
  None = None
  Runs <- TwoRuns
  Tokens <- TwoTokens
  Templates <- TwoTemplates
  Cursors <- TwoTemplates
  LastDay = 2
  Rules <- DailyOrLater
  Ahead = 1
  MaxTemplates = 1
  MaxOccurrences = 2
  MaxBatches = 1
  MaxEdits = 1
  MaxFaults = 1
SYMMETRY RaceSymmetry
SPECIFICATION Spec
INVARIANTS StatusSettles NothingSkipped
PROPERTIES CursorHandover LeaseIsKept MadeByTheRule StaysDestroyed RefinesEventSeries
