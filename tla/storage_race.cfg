\* Two submissions at a time by one account on two items, three keys.
CONSTANTS
  u1 = u1  u2 = u2  i1 = i1  i2 = i2  k1 = k1  k2 = k2  k3 = k3
  h1 = h1  h2 = h2  e1 = e1  e2 = e2  None = None
  Users <- OneUser
  Items <- TwoItems
  Keys <- ThreeKeys
  Handlers <- TwoHandlers
  Editors <- NoEditors
  Policies <- Open
  Asked <- SomeRequests
  MaxQuantity = 1
  MaxDelta = 2
  Instants = {0}
  MaxBatches = 3
  MaxRevision = 3
SYMMETRY KeySymmetry
SPECIFICATION Spec
INVARIANTS TypeOK BalanceIsLedgerSum NeverOverdrawn OneBatchPerKey AnswerIsWhatWasBooked
PROPERTIES RefinesStockBook
