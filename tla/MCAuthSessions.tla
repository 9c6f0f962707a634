--------------------------- MODULE MCAuthSessions ---------------------------
(* Values of the constants of AuthSessions for TLC. *)
EXTENDS AuthSessions, TLC

CONSTANTS q1, q2, q3, q4

FourRequests == {q1, q2, q3, q4}
RequestSymmetry == Permutations(FourRequests)
=============================================================================
