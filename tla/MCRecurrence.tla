---------------------------- MODULE MCRecurrence ----------------------------
(***************************************************************************)
(* Model values and bounds for the runs of Recurrence.                     *)
(***************************************************************************)
EXTENDS Recurrence

CONSTANTS r1, r2, t1, t2

OneRun == {r1}
TwoRuns == {r1, r2}
TwoTokens == {t1, t2}
TwoTemplates == {1, 2}
Daily == [days |-> {1, 2}, endAfter |-> 2]
Later == [days |-> {2}, endAfter |-> 1]
DailyOrLater == {Daily, Later}
OneRule == {Daily}

RaceSymmetry == Permutations(TwoRuns) \cup Permutations(TwoTokens)
=============================================================================
