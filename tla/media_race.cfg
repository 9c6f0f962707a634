\* Slow uploads, two collectors, one wiki image and one other asset.
CONSTANTS
  a1 = a1  a2 = a2  v1 = v1  v2 = v2  p1 = p1  p2 = p2  n1 = n1
  u1 = u1  u2 = u2  c1 = c1  c2 = c2  t1 = t1  t2 = t2  t3 = t3  t4 = t4
  None = None
  Tokens <- FourTokens
  Assets <- TwoAssets
  WikiImages <- OneAsset
  Variants <- TwoVariants
  Articles <- TwoArticles
  Entities <- OneEntity
  Uploads <- OneUpload
  Collectors <- TwoCollectors
  Parallel = 1
  BatchLimit = 2
  MaxPending = 2
  SlowUploads = TRUE
  MaxFaults = 1
SYMMETRY RaceSymmetry
SPECIFICATION Spec
INVARIANTS ReferencesWork AttachedIsReferenced
PROPERTIES RefinesMediaShelf
