\* One submission racing two item editors.
CONSTANTS
  u1 = u1  u2 = u2  i1 = i1  i2 = i2  k1 = k1  k2 = k2  k3 = k3
  h1 = h1  h2 = h2  e1 = e1  e2 = e2  None = None
  Users <- OneUser
  Items <- OneItem
  Keys <- OneKey
  Handlers <- OneHandler
  Editors <- TwoEditors
  Policies <- AnyPolicy
  Asked <- AnyRequest
  MaxQuantity = 1
  MaxDelta = 1
  Instants = {0, 1}
  MaxBatches = 1
  MaxRevision = 3
SYMMETRY EditorSymmetry
SPECIFICATION Spec
INVARIANTS LedgerKeepsItems
PROPERTIES SavedOnWhatWasSeen SelfServiceOnlyWhileOpen
