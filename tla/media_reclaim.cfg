\* Uploads that end within their reservation: everything is reclaimed.
CONSTANTS
  a1 = a1  a2 = a2  v1 = v1  v2 = v2  p1 = p1  p2 = p2  n1 = n1
  u1 = u1  u2 = u2  c1 = c1  c2 = c2  t1 = t1  t2 = t2  t3 = t3  t4 = t4
  None = None
  Tokens <- FourTokens
  Assets <- TwoAssets
  WikiImages <- OneAsset
  Variants <- TwoVariants
  Articles <- OneArticle
  Entities <- NoEntity
  Uploads <- TwoUploads
  Collectors <- OneCollector
  Parallel = 2
  BatchLimit = 1
  MaxPending = 2
  SlowUploads = FALSE
  MaxFaults = 2
SPECIFICATION FairSpec
INVARIANTS NoOrphanBlobs
PROPERTIES NothingLingers
