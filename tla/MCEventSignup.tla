--------------------------- MODULE MCEventSignup ---------------------------
(* Values of the constants of EventSignup for TLC. *)
EXTENDS EventSignup

CONSTANTS m1, m2, c1, c2, q1, q2

TwoMembers == {m1, m2}
TwoAnswers == {c1, c2}
TwoRequests == {q1, q2}
\* An end that passes while the run goes on, and one that does not.
SoonOrLate == {1, LastInstant + 1}
NobodyOrOne == {{}, {m1}}
SomePatches ==
  [locked : BOOLEAN] \cup [archived : BOOLEAN] \cup [end : SoonOrLate]
  \cup [capacity : {1}] \cup [count : {2}]
  \cup [type : {"signup", "poll"}] \cup [type : {"raffle"}, count : {1}]
=============================================================================
