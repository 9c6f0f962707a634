-------------------------- MODULE MCMediaLifecycle --------------------------
(***************************************************************************)
(* Model values and bounds for the runs of MediaLifecycle.                 *)
(***************************************************************************)
EXTENDS MediaLifecycle, TLC

CONSTANTS a1, a2, v1, v2, p1, p2, n1, u1, u2, c1, c2, t1, t2, t3, t4

OneVariant == {v1}
TwoVariants == {v1, v2}
OneAsset == {a1}
TwoAssets == {a1, a2}
TwoArticles == {p1, p2}
OneArticle == {p1}
OneEntity == {n1}
NoEntity == {}
OneUpload == {u1}
TwoUploads == {u1, u2}
OneCollector == {c1}
TwoCollectors == {c1, c2}
FourTokens == {t1, t2, t3, t4}

RaceSymmetry == Permutations(TwoCollectors) \cup Permutations(FourTokens)
=============================================================================
