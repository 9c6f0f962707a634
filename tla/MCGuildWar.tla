------------------------------ MODULE MCGuildWar ------------------------------
(* Values of the constants of GuildWar for TLC. *)
EXTENDS GuildWar, TLC

CONSTANTS m1, m2, w1, w2, r1, r2

TwoMembers == {m1, m2}
TwoWars == {w1, w2}
TwoRequests == {r1, r2}
WarSymmetry == Permutations(TwoMembers) \cup Permutations(TwoWars) \cup Permutations(TwoRequests)
=============================================================================
