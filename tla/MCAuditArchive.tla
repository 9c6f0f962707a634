--------------------------- MODULE MCAuditArchive ---------------------------
(***************************************************************************)
(* Model values and bounds for the runs of AuditArchive.                   *)
(***************************************************************************)
EXTENDS AuditArchive, TLC

CONSTANTS e1, e2, e3, a1, a2, a3, r1, r2, t1, t2, t3

TwoEntries == {e1, e2}
ThreeEntries == {e1, e2, e3}
OneTestEntry == {e1}
NoTestEntry == {}
TwoArchives == {a1, a2}
ThreeArchives == {a1, a2, a3}
OneRun == {r1}
TwoRuns == {r1, r2}
TwoTokens == {t1, t2}
ThreeTokens == {t1, t2, t3}

RaceSymmetry == Permutations(TwoRuns) \cup Permutations(ThreeTokens) \cup Permutations(ThreeArchives)
=============================================================================
