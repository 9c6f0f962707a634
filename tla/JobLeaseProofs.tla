--------------------------- MODULE JobLeaseProofs ---------------------------
(***************************************************************************)
(* Theorems about JobLease, for any number of processes, tokens, batches   *)
(* and faults, whatever the batches of the job do.                         *)
(***************************************************************************)
EXTENDS JobLease, TLAPS

------------------------------------------------------------------------------
\* The inductive invariant.

\* Who holds the lease has seen the cursor as it is: nobody else may move it.
HoldersHaveSeen ==
  \A r \in Runs :
    Holds(r) /\ run[r].pc \in {"batch", "save", "more"} => run[r].seen = cursor

\* A live lease has a run that works under it, unless one was cut off.
LiveIsHeld ==
  lease.live /\ ~cut => \E r \in Runs : Working(r) /\ Holds(r)

\* A run that will write what became of it, and not that the lease was held.
Reports(r) ==
  /\ run[r].pc # "idle"
  /\ ~(run[r].pc = "record" /\ run[r].outcome = "lease-held")

SomeoneReports == status = "running" /\ ~cut => \E r \in Runs : Reports(r)

\* What a run became is known once it is over.
Concluded ==
  \A r \in Runs : /\ run[r].pc = "release" => run[r].outcome \in {"completed", "failed"}
                  /\ run[r].pc = "record" => run[r].outcome # "none"

\* A run starts no more batches than it may.
BatchesLeft ==
  \A r \in Runs : /\ run[r].pc \in {"idle", "acquire", "cursor"} => run[r].batches = 0
                  /\ run[r].pc \in {"batch", "more"} => run[r].batches < MaxBatches

LeaseInv ==
  /\ LeaseTypeOK
  /\ Concluded
  /\ BatchesLeft
  /\ HoldersHaveSeen
  /\ LiveIsHeld
  /\ SomeoneReports

\* The states a run may go to: all but the token is free.
RunMoves(r, s) == run' = [run EXCEPT ![r] = s]

LEMMA MovedRun ==
  ASSUME LeaseInv, NEW r \in Runs, NEW s \in RunState, RunMoves(r, s)
  PROVE  /\ run' \in [Runs -> RunState]
         /\ run'[r] = s
         /\ \A q \in Runs \ {r} : run'[q] = run[q]
BY DEF LeaseInv, LeaseTypeOK, RunMoves

LEMMA TokensDiffer ==
  ASSUME LeaseInv, NEW r \in Runs, NEW q \in Runs, Working(r), Holds(r), Holds(q)
  PROVE  q = r
BY DEF LeaseInv, LeaseTypeOK, Holds

LEMMA NoRunIsIdle == NoRun \in RunState /\ NoRun.pc = "idle" /\ NoRun.token = None /\ NoRun.batches = 0
BY LeaseAssumption DEF NoRun, RunState

LEMMA ReleasedType == Released \in [token : Tokens \cup {None}, live : BOOLEAN]
BY DEF Released

LEMMA LeaseStart == LeaseInit => LeaseInv
<1> SUFFICES ASSUME LeaseInit PROVE LeaseInv
  OBVIOUS
<1>1. run \in [Runs -> RunState] /\ \A r \in Runs : run[r].pc = "idle" /\ run[r].token = None
  BY NoRunIsIdle DEF LeaseInit
<1>2. LeaseTypeOK
  <2>1. lease \in [token : Tokens \cup {None}, live : BOOLEAN] /\ faults \in 0..MaxFaults
    BY ReleasedType, LeaseAssumption DEF LeaseInit
  <2>2. QED BY <1>1, <2>1 DEF LeaseInit, LeaseTypeOK, Working
<1>3. Concluded /\ BatchesLeft /\ HoldersHaveSeen /\ LiveIsHeld /\ SomeoneReports
  BY <1>1, NoRunIsIdle DEF LeaseInit, Concluded, BatchesLeft, HoldersHaveSeen, LiveIsHeld, SomeoneReports, Released
<1>4. QED BY <1>2, <1>3 DEF LeaseInv

\* A run moves on with the token it has; the lease and the cursor stay.
LEMMA QuietStep ==
  ASSUME LeaseInv, NEW r \in Runs, NEW s \in RunState, RunMoves(r, s),
         s.token = run[r].token,
         Working(r) <=> s.pc \in {"cursor", "batch", "save", "more", "release"},
         s.pc # "idle", s.pc = "record" => s.outcome # "lease-held",
         s.pc = "release" => s.outcome \in {"completed", "failed"},
         s.pc = "record" => s.outcome # "none",
         s.pc \in {"acquire", "cursor"} => s.batches = 0,
         s.pc \in {"batch", "more"} => s.batches < MaxBatches,
         Holds(r) /\ s.pc \in {"batch", "save", "more"} => s.seen = cursor,
         UNCHANGED <<lease, cursor, cut>>, status' \in {status, "running"},
         faults' \in 0..MaxFaults
  PROVE  LeaseInv'
<1>1. run' \in [Runs -> RunState] /\ run'[r] = s /\ \A q \in Runs \ {r} : run'[q] = run[q]
  BY MovedRun
<1>2. LeaseTypeOK'
  BY <1>1 DEF LeaseInv, LeaseTypeOK, Working
<1>3. HoldersHaveSeen'
  BY <1>1 DEF LeaseInv, HoldersHaveSeen, Holds
<1>4. LiveIsHeld'
  BY <1>1 DEF LeaseInv, LiveIsHeld, Working, Holds
<1>5. Reports(r)'
  BY <1>1 DEF Reports
<1>6. Concluded' /\ BatchesLeft'
  BY <1>1 DEF LeaseInv, Concluded, BatchesLeft
<1>7. QED BY <1>2, <1>3, <1>4, <1>5, <1>6 DEF LeaseInv, SomeoneReports

\* A run lets its token go, and the lease too unless somebody else has it by then.
LEMMA GivesUp ==
  ASSUME LeaseInv, NEW r \in Runs, NEW s \in RunState, RunMoves(r, s),
         s.token = None, s.pc \in {"idle", "record"}, s.batches = 0, cursor' = cursor,
         s.pc = "record" => s.outcome # "none",
         faults' \in 0..MaxFaults, cut' \in BOOLEAN, cut => cut',
         lease' \in {lease, Released},
         status' \in {"never-run", "running", "completed", "lease-held", "failed"},
         ~cut' /\ Working(r) /\ Holds(r) => lease' = Released,
         status' = "running" /\ ~cut' => \E q \in Runs : Reports(q)'
  PROVE  LeaseInv'
<1>1. run' \in [Runs -> RunState] /\ run'[r] = s /\ \A q \in Runs \ {r} : run'[q] = run[q]
  BY MovedRun
<1>2. LeaseTypeOK'
  <2>1. /\ lease' \in [token : Tokens \cup {None}, live : BOOLEAN]
        /\ cursor' \in Cursors \cup {None}
    BY ReleasedType DEF LeaseInv, LeaseTypeOK
  <2>2. \A q \in Runs : Working(q)' <=> run'[q].token # None
    BY <1>1 DEF LeaseInv, LeaseTypeOK, Working
  <2>3. QED BY <1>1, <2>1, <2>2 DEF LeaseInv, LeaseTypeOK
<1>3. HoldersHaveSeen'
  BY <1>1 DEF LeaseInv, LeaseTypeOK, HoldersHaveSeen, Holds, Released, Working
<1>4. LiveIsHeld'
  BY <1>1 DEF LeaseInv, LiveIsHeld, Working, Holds, Released
<1>5. Concluded' /\ BatchesLeft'
  BY <1>1 DEF LeaseInv, Concluded, BatchesLeft
<1>6. QED BY <1>2, <1>3, <1>4, <1>5 DEF LeaseInv, SomeoneReports

------------------------------------------------------------------------------
\* The steps of a run.

LEMMA RecordRunningStep ==
  ASSUME LeaseInv, NEW r \in Runs, RecordRunning(r)
  PROVE  LeaseInv'
<1> DEFINE s == [run[r] EXCEPT !.pc = "acquire"]
<1>1. /\ s \in RunState /\ s.token = run[r].token /\ s.pc = "acquire" /\ s.batches = 0
      /\ ~Working(r)
  BY DEF LeaseInv, LeaseTypeOK, BatchesLeft, RecordRunning, RunState, Working
<1>2. RunMoves(r, s)
  BY DEF RunMoves, RecordRunning, Goes
<1>3. faults' \in 0..MaxFaults /\ status' = "running"
  BY DEF LeaseInv, LeaseTypeOK, RecordRunning
<1> HIDE DEF s
<1>4. QED BY <1>1, <1>2, <1>3, QuietStep DEF RecordRunning

\* A run takes a lease that has run out, under a token nobody ever had.
LEMMA TakesLease ==
  ASSUME LeaseInv, NEW r \in Runs, run[r].pc = "acquire", ~lease.live,
         NEW t \in Fresh, lease' = [token |-> t, live |-> TRUE],
         NEW s \in RunState, RunMoves(r, s), UNCHANGED <<cursor, status>>,
         faults' \in 0..MaxFaults,
         \/ s.pc = "cursor" /\ s.token = t /\ s.batches = 0 /\ cut' = cut
         \/ s.pc = "record" /\ s.token = None /\ s.outcome = "failed" /\ cut' = TRUE
  PROVE  LeaseInv'
<1>1. run' \in [Runs -> RunState] /\ run'[r] = s /\ \A q \in Runs \ {r} : run'[q] = run[q]
  BY MovedRun
<1>2. t \in Tokens /\ t # None /\ \A q \in Runs : run[q].token # t
  BY LeaseAssumption DEF Fresh
<1>3. lease' \in [token : Tokens \cup {None}, live : BOOLEAN]
  BY <1>2
<1>4. \A q \in Runs : Working(q)' <=> run'[q].token # None
  BY <1>1, <1>2 DEF LeaseInv, LeaseTypeOK, Working
<1>5. \A p, q \in Runs : run'[p].token = run'[q].token => p = q \/ run'[p].token = None
  BY <1>1, <1>2 DEF LeaseInv, LeaseTypeOK
<1>6. LeaseTypeOK'
  BY <1>1, <1>3, <1>4, <1>5 DEF LeaseInv, LeaseTypeOK
<1>7. HoldersHaveSeen'
  BY <1>1, <1>2 DEF LeaseInv, HoldersHaveSeen, Holds
<1>8. LiveIsHeld'
  BY <1>1 DEF LiveIsHeld, Working, Holds
<1>9. Concluded' /\ BatchesLeft'
  BY <1>1 DEF LeaseInv, Concluded, BatchesLeft
<1>10. Reports(r)'
  BY <1>1 DEF Reports
<1>11. QED BY <1>6, <1>7, <1>8, <1>9, <1>10 DEF LeaseInv, SomeoneReports

LEMMA OverState ==
  ASSUME NEW how \in {"completed", "lease-held", "failed"}
  PROVE  LET s == [NoRun EXCEPT !.pc = "record", !.outcome = how] IN
         /\ s \in RunState /\ s.pc = "record" /\ s.token = None /\ s.batches = 0
         /\ s.outcome = how
BY NoRunIsIdle DEF RunState

LEMMA TryAcquireStep ==
  ASSUME LeaseInv, NEW r \in Runs, TryAcquire(r)
  PROVE  LeaseInv'
<1>1. run[r].pc = "acquire" /\ faults' \in 0..MaxFaults /\ cut' = cut /\ cut \in BOOLEAN
  BY DEF LeaseInv, LeaseTypeOK, TryAcquire
<1>2. CASE lease.live
  <2> DEFINE s == [NoRun EXCEPT !.pc = "record", !.outcome = "lease-held"]
  <2>1. /\ s \in RunState /\ s.pc = "record" /\ s.token = None /\ s.batches = 0
        /\ s.outcome = "lease-held"
    BY OverState
  <2>2. RunMoves(r, s) /\ UNCHANGED <<lease, cursor, status>>
    BY <1>2 DEF RunMoves, TryAcquire, Over
  <2> HIDE DEF s
  <2>3. ASSUME ~cut PROVE \E q \in Runs : Reports(q)'
    <3>1. PICK q \in Runs : Working(q)
      BY <1>2, <2>3 DEF LeaseInv, LiveIsHeld
    <3>2. q # r /\ run'[q] = run[q]
      BY <1>1, <2>1, <2>2, <3>1, MovedRun DEF Working
    <3>3. QED BY <3>1, <3>2 DEF Working, Reports
  <2>4. status' \in {"never-run", "running", "completed", "lease-held", "failed"}
    BY <2>2 DEF LeaseInv, LeaseTypeOK
  <2>5. ~Working(r)
    BY <1>1 DEF Working
  <2>6. QED BY <1>1, <2>1, <2>2, <2>3, <2>4, <2>5, GivesUp
<1>3. CASE ~lease.live
  <2>1. PICK t \in Fresh : lease' = [token |-> t, live |-> TRUE]
                           /\ run' = [run EXCEPT ![r].pc = "cursor", ![r].token = t]
    BY <1>3 DEF TryAcquire
  <2> DEFINE s == [run[r] EXCEPT !.pc = "cursor", !.token = t]
  <2>2. s \in RunState /\ s.pc = "cursor" /\ s.token = t /\ s.batches = 0
    <3>1. run[r] \in RunState /\ t \in Tokens /\ run[r].batches = 0
      BY <1>1 DEF LeaseInv, LeaseTypeOK, BatchesLeft, Fresh
    <3>2. QED BY <3>1 DEF RunState
  <2>3. RunMoves(r, s)
    BY <2>1 DEF RunMoves
  <2> HIDE DEF s
  <2>4. QED BY <1>1, <1>3, <2>1, <2>2, <2>3, TakesLease DEF TryAcquire
<1>4. QED BY <1>2, <1>3

LEMMA FaultType == ASSUME LeaseInv, Fault PROVE faults' \in 0..MaxFaults
BY LeaseAssumption DEF LeaseInv, LeaseTypeOK, Fault

LEMMA AcquireFailsStep ==
  ASSUME LeaseInv, NEW r \in Runs, AcquireFails(r)
  PROVE  LeaseInv'
<1> DEFINE s == [NoRun EXCEPT !.pc = "record", !.outcome = "failed"]
<1>1. /\ s \in RunState /\ s.pc = "record" /\ s.token = None /\ s.batches = 0
      /\ s.outcome = "failed"
  BY OverState
<1>2. RunMoves(r, s) /\ UNCHANGED <<cursor, status>> /\ run[r].pc = "acquire"
  BY DEF RunMoves, AcquireFails, Over
<1> HIDE DEF s
<1>3. faults' \in 0..MaxFaults /\ ~Working(r)
  BY <1>2, FaultType DEF AcquireFails, Working
<1>4. CASE UNCHANGED <<lease, cut>>
  <2>1. Reports(r)'
    BY <1>1, <1>2, MovedRun DEF Reports
  <2>2. status' \in {"never-run", "running", "completed", "lease-held", "failed"}
        /\ cut' \in BOOLEAN
    BY <1>2, <1>4 DEF LeaseInv, LeaseTypeOK
  <2>3. QED BY <1>1, <1>2, <1>3, <1>4, <2>1, <2>2, GivesUp
<1>5. CASE ~lease.live /\ cut' = TRUE /\ \E t \in Fresh : lease' = [token |-> t, live |-> TRUE]
  BY <1>1, <1>2, <1>3, <1>5, TakesLease
<1>6. QED BY <1>4, <1>5 DEF AcquireFails

LEMMA EndsState ==
  ASSUME LeaseInv, NEW r \in Runs, NEW how \in {"completed", "failed"}, Working(r)
  PROVE  LET s == [NoRun EXCEPT !.pc = "release", !.token = run[r].token,
                                !.lost = run[r].lost, !.outcome = how] IN
         /\ s \in RunState /\ s.pc = "release" /\ s.token = run[r].token
         /\ s.outcome = how
<1>1. run[r].token \in Tokens \cup {None} /\ run[r].lost \in BOOLEAN
  BY DEF LeaseInv, LeaseTypeOK, RunState
<1>2. QED BY <1>1, NoRunIsIdle DEF RunState

\* A run that ends under its lease, or goes on from one statement to the next.
LEMMA EndsStep ==
  ASSUME LeaseInv, NEW r \in Runs, Working(r), NEW how \in {"completed", "failed"},
         run' = Ends(r, how), UNCHANGED <<lease, cursor, status, cut>>,
         faults' \in 0..MaxFaults
  PROVE  LeaseInv'
<1> DEFINE s == [NoRun EXCEPT !.pc = "release", !.token = run[r].token,
                              !.lost = run[r].lost, !.outcome = how]
<1>1. /\ s \in RunState /\ s.pc = "release" /\ s.token = run[r].token
      /\ s.outcome = how
  BY EndsState
<1>2. RunMoves(r, s)
  BY DEF RunMoves, Ends
<1> HIDE DEF s
<1>3. QED BY <1>1, <1>2, QuietStep

LEMMA FaultsKept == ASSUME LeaseInv, faults' = faults PROVE faults' \in 0..MaxFaults
BY DEF LeaseInv, LeaseTypeOK

LEMMA RunType == ASSUME LeaseInv, NEW r \in Runs PROVE run[r] \in RunState
BY DEF LeaseInv, LeaseTypeOK

LEMMA ReadCursorStep ==
  ASSUME LeaseInv, NEW r \in Runs, ReadCursor(r)
  PROVE  LeaseInv'
<1>1. /\ run[r].pc = "cursor" /\ Working(r) /\ faults' \in 0..MaxFaults
      /\ UNCHANGED <<lease, cursor, status, cut>>
  BY FaultsKept DEF ReadCursor, Working
<1>2. CASE Holds(r)
  <2> DEFINE s == [run[r] EXCEPT !.pc = "batch", !.seen = cursor, !.next = cursor]
  <2>1. cursor \in Cursors \cup {None}
    BY DEF LeaseInv, LeaseTypeOK
  <2>2. /\ s \in RunState /\ s.pc = "batch" /\ s.token = run[r].token
        /\ s.seen = cursor
    BY <2>1, RunType DEF RunState
  <2>3. s.batches < MaxBatches
    BY <1>1, <2>1, RunType, LeaseAssumption DEF LeaseInv, BatchesLeft, RunState
  <2>4. RunMoves(r, s)
    BY <1>2 DEF RunMoves, ReadCursor
  <2> HIDE DEF s
  <2>5. QED BY <1>1, <2>2, <2>3, <2>4, QuietStep
<1>3. CASE ~Holds(r)
  BY <1>1, <1>3, EndsStep DEF ReadCursor
<1>4. QED BY <1>2, <1>3

LEMMA BatchStep ==
  ASSUME LeaseInv, NEW r \in Runs, Batch(r)
  PROVE  LeaseInv'
<1>1. /\ run[r].pc = "batch" /\ Working(r) /\ faults' \in 0..MaxFaults
      /\ UNCHANGED <<lease, cursor, status, cut>>
  BY FaultsKept DEF Batch, Working
<1>2. Holds(r) => run[r].seen = cursor
  BY <1>1 DEF LeaseInv, HoldersHaveSeen
<1>3. PICK c \in Cursors \cup {None} : run' = [run EXCEPT ![r].next = c] \/ EndBatch(r, c)
  BY DEF Batch
<1>4. CASE run' = [run EXCEPT ![r].next = c]
  <2> DEFINE s == [run[r] EXCEPT !.next = c]
  <2>1. /\ s \in RunState /\ s.pc = "batch" /\ s.token = run[r].token
        /\ s.seen = run[r].seen /\ s.batches = run[r].batches
    BY <1>1, RunType DEF RunState
  <2>2. RunMoves(r, s)
    BY <1>4 DEF RunMoves
  <2> HIDE DEF s
  <2>3. QED BY <1>1, <1>2, <2>1, <2>2, QuietStep DEF LeaseInv, BatchesLeft
<1>5. CASE EndBatch(r, c)
  <2> DEFINE s == [run[r] EXCEPT !.pc = "save", !.next = c, !.batches = @ + 1]
  <2>1. run[r].batches + 1 \in 0..MaxBatches
    BY <1>1, RunType, LeaseAssumption DEF LeaseInv, BatchesLeft, RunState
  <2>2. s \in RunState /\ s.pc = "save" /\ s.token = run[r].token /\ s.seen = run[r].seen
    BY <2>1, RunType DEF RunState
  <2>3. RunMoves(r, s)
    BY <1>5 DEF RunMoves, EndBatch
  <2> HIDE DEF s
  <2>4. QED BY <1>1, <1>2, <2>2, <2>3, QuietStep
<1>6. QED BY <1>3, <1>4, <1>5

\* The holder saves its cursor; nobody else has the lease.
LEMMA SavesCursor ==
  ASSUME LeaseInv, NEW r \in Runs, run[r].pc = "save", Renews(r),
         NEW s \in RunState, RunMoves(r, s), s.token = run[r].token,
         \/ s.pc = "release" /\ s.outcome \in {"completed", "failed"}
         \/ s.pc = "more" /\ s.seen = cursor' /\ s.batches < MaxBatches,
         cursor' \in Cursors \cup {None}, UNCHANGED <<lease, status, cut>>,
         faults' \in 0..MaxFaults
  PROVE  LeaseInv'
<1>1. run' \in [Runs -> RunState] /\ run'[r] = s /\ \A q \in Runs \ {r} : run'[q] = run[q]
  BY MovedRun
<1>2. Working(r)
  BY DEF Working
<1>3. LeaseTypeOK'
  BY <1>1, <1>2 DEF LeaseInv, LeaseTypeOK, Working
<1>4. HoldersHaveSeen'
  BY <1>1, <1>2, TokensDiffer DEF HoldersHaveSeen, Holds, Renews
<1>5. LiveIsHeld'
  BY <1>1 DEF LeaseInv, LiveIsHeld, Working, Holds
<1>6. Concluded' /\ BatchesLeft'
  BY <1>1 DEF LeaseInv, Concluded, BatchesLeft
<1>7. Reports(r)'
  BY <1>1 DEF Reports
<1>8. QED BY <1>3, <1>4, <1>5, <1>6, <1>7 DEF LeaseInv, SomeoneReports

LEMMA StatementFailsStep ==
  ASSUME LeaseInv, NEW r \in Runs, StatementFails(r)
  PROVE  LeaseInv'
<1>1. /\ run[r].pc \in {"cursor", "batch", "save"} /\ Working(r) /\ run' = Ends(r, "failed")
      /\ faults' \in 0..MaxFaults /\ UNCHANGED <<lease, status, cut>>
  BY FaultType DEF StatementFails, Working
<1>2. CASE UNCHANGED cursor
  BY <1>1, <1>2, EndsStep
<1>3. CASE run[r].pc = "save" /\ Renews(r) /\ cursor' = run[r].next
  <2> DEFINE s == [NoRun EXCEPT !.pc = "release", !.token = run[r].token,
                                !.lost = run[r].lost, !.outcome = "failed"]
  <2>1. /\ s \in RunState /\ s.pc = "release" /\ s.token = run[r].token
        /\ s.outcome = "failed"
    BY <1>1, EndsState
  <2>2. RunMoves(r, s) /\ cursor' \in Cursors \cup {None}
    BY <1>1, <1>3, RunType DEF RunMoves, Ends, RunState
  <2> HIDE DEF s
  <2>3. QED BY <1>1, <1>3, <2>1, <2>2, SavesCursor
<1>4. QED BY <1>2, <1>3 DEF StatementFails

LEMMA WriteCursorStep ==
  ASSUME LeaseInv, NEW r \in Runs, WriteCursor(r)
  PROVE  LeaseInv'
<1>1. /\ run[r].pc = "save" /\ Working(r) /\ faults' \in 0..MaxFaults
      /\ UNCHANGED <<lease, status, cut>>
  BY FaultsKept DEF WriteCursor, Working
<1>2. CASE Renews(r)
  <2>1. cursor' = run[r].next /\ cursor' \in Cursors \cup {None}
    BY <1>2, RunType DEF WriteCursor, MaySave, RunState
  <2>2. CASE run' = Ends(r, "completed")
    <3> DEFINE s == [NoRun EXCEPT !.pc = "release", !.token = run[r].token,
                                  !.lost = run[r].lost, !.outcome = "completed"]
    <3>1. /\ s \in RunState /\ s.pc = "release" /\ s.token = run[r].token
          /\ s.outcome = "completed"
      BY <1>1, EndsState
    <3>2. RunMoves(r, s)
      BY <2>2 DEF RunMoves, Ends
    <3> HIDE DEF s
    <3>3. QED BY <1>1, <1>2, <2>1, <3>1, <3>2, SavesCursor
  <2>3. CASE /\ run[r].batches < MaxBatches
             /\ run' = [run EXCEPT ![r].pc = "more", ![r].seen = run[r].next]
    <3> DEFINE s == [run[r] EXCEPT !.pc = "more", !.seen = run[r].next]
    <3>1. /\ s \in RunState /\ s.pc = "more" /\ s.token = run[r].token
          /\ s.seen = run[r].next /\ s.batches = run[r].batches
      BY RunType DEF RunState
    <3>2. RunMoves(r, s)
      BY <2>3 DEF RunMoves
    <3> HIDE DEF s
    <3>3. QED BY <1>1, <1>2, <2>1, <2>3, <3>1, <3>2, SavesCursor
  <2>4. QED BY <1>2, <2>2, <2>3 DEF WriteCursor, MaySave
<1>3. CASE ~Renews(r)
  BY <1>1, <1>3, EndsStep DEF WriteCursor, MaySave
<1>4. QED BY <1>2, <1>3

LEMMA NextBatchStep ==
  ASSUME LeaseInv, NEW r \in Runs, NextBatch(r)
  PROVE  LeaseInv'
<1>1. /\ run[r].pc = "more" /\ Working(r) /\ faults' \in 0..MaxFaults
      /\ UNCHANGED <<lease, cursor, status, cut>>
  BY FaultsKept DEF NextBatch, Working
<1>2. CASE run' = Goes(r, "batch")
  <2> DEFINE s == [run[r] EXCEPT !.pc = "batch"]
  <2>1. /\ s \in RunState /\ s.pc = "batch" /\ s.token = run[r].token
        /\ s.seen = run[r].seen /\ s.batches = run[r].batches
    BY RunType DEF RunState
  <2>2. RunMoves(r, s)
    BY <1>2 DEF RunMoves, Goes
  <2>3. (Holds(r) => run[r].seen = cursor) /\ run[r].batches < MaxBatches
    BY <1>1 DEF LeaseInv, HoldersHaveSeen, BatchesLeft
  <2> HIDE DEF s
  <2>4. QED BY <1>1, <2>1, <2>2, <2>3, QuietStep
<1>3. CASE run' = Ends(r, "failed") \/ run' = Ends(r, "completed")
  BY <1>1, <1>3, EndsStep
<1>4. QED BY <1>2, <1>3 DEF NextBatch

LEMMA RenewalFailsStep ==
  ASSUME LeaseInv, NEW r \in Runs, RenewalFails(r)
  PROVE  LeaseInv'
<1>1. /\ Working(r) /\ faults' \in 0..MaxFaults
      /\ UNCHANGED <<lease, cursor, status, cut>>
  BY FaultsKept, FaultType DEF RenewalFails
<1> DEFINE s == [run[r] EXCEPT !.lost = TRUE]
<1>2. /\ s \in RunState /\ s.pc = run[r].pc /\ s.token = run[r].token
      /\ s.seen = run[r].seen /\ s.batches = run[r].batches /\ s.outcome = run[r].outcome
  BY RunType DEF RunState
<1>3. RunMoves(r, s)
  BY DEF RunMoves, RenewalFails
<1>4. /\ Holds(r) /\ run[r].pc \in {"batch", "save", "more"} => run[r].seen = cursor
      /\ run[r].pc = "release" => run[r].outcome \in {"completed", "failed"}
      /\ run[r].pc \in {"acquire", "cursor"} => run[r].batches = 0
      /\ run[r].pc \in {"batch", "more"} => run[r].batches < MaxBatches
  BY DEF LeaseInv, HoldersHaveSeen, Concluded, BatchesLeft
<1>5. run[r].pc \notin {"idle", "record"}
  BY <1>1 DEF Working
<1> HIDE DEF s
<1>6. QED BY <1>1, <1>2, <1>3, <1>4, <1>5, QuietStep DEF Working

\* The end of a run leaves the lease to whoever holds it by then.
LEMMA ReleaseStep ==
  ASSUME LeaseInv, NEW r \in Runs, Release(r) \/ ReleaseFails(r)
  PROVE  LeaseInv'
<1> DEFINE how == IF Release(r) THEN IF run[r].lost THEN "failed" ELSE run[r].outcome
                  ELSE "failed"
<1> DEFINE s == [NoRun EXCEPT !.pc = "record", !.outcome = how]
<1>1. run[r].pc = "release" /\ run[r].outcome \in {"completed", "failed"}
  BY DEF LeaseInv, Concluded, Release, ReleaseFails
<1>2. how \in {"completed", "failed"}
  BY <1>1
<1>3. run' = Over(r, how) /\ UNCHANGED <<cursor, status>>
  BY DEF Release, ReleaseFails
<1> HIDE DEF how
<1>4. /\ s \in RunState /\ s.pc = "record" /\ s.token = None /\ s.batches = 0
      /\ s.outcome = how
  BY <1>2, OverState
<1>5. RunMoves(r, s)
  BY <1>3 DEF RunMoves, Over
<1> HIDE DEF s
<1>6. faults' \in 0..MaxFaults
  BY FaultsKept, FaultType DEF Release, ReleaseFails
<1>7. /\ lease' \in {lease, Released} /\ cut' \in BOOLEAN /\ (cut => cut')
      /\ (~cut' /\ Holds(r) => lease' = Released)
  BY DEF LeaseInv, LeaseTypeOK, Release, ReleaseFails, MayRelease
<1>8. Reports(r)'
  BY <1>2, <1>4, <1>5, MovedRun DEF Reports
<1>9. status' \in {"never-run", "running", "completed", "lease-held", "failed"}
  BY <1>3 DEF LeaseInv, LeaseTypeOK
<1>10. QED BY <1>2, <1>3, <1>4, <1>5, <1>6, <1>7, <1>8, <1>9, GivesUp

LEMMA RecordOutcomeStep ==
  ASSUME LeaseInv, NEW r \in Runs, RecordOutcome(r)
  PROVE  LeaseInv'
<1>1. /\ run[r].pc = "record" /\ run[r].outcome # "none" /\ ~Working(r)
      /\ faults' \in 0..MaxFaults /\ UNCHANGED <<lease, cursor, cut>>
  BY FaultsKept DEF LeaseInv, Concluded, RecordOutcome, Working
<1>2. RunMoves(r, NoRun)
  BY DEF RunMoves, RecordOutcome
<1>3. /\ status' = Recorded(r) /\ cut \in BOOLEAN
      /\ status' \in {"never-run", "running", "completed", "lease-held", "failed"}
  BY <1>1, RunType DEF LeaseInv, LeaseTypeOK, RecordOutcome, Recorded, RunState
<1>4. ASSUME status' = "running", ~cut PROVE \E q \in Runs : Reports(q)'
  <2>1. status = "running" /\ run[r].outcome = "lease-held"
    BY <1>3, <1>4, RunType DEF Recorded, RunState
  <2>2. PICK q \in Runs : Reports(q)
    BY <1>4, <2>1 DEF LeaseInv, SomeoneReports
  <2>3. q # r /\ run'[q] = run[q]
    BY <1>1, <1>2, <2>1, <2>2, MovedRun, NoRunIsIdle DEF Reports
  <2>4. QED BY <2>2, <2>3 DEF Reports
<1>5. QED BY <1>1, <1>2, <1>3, <1>4, GivesUp, NoRunIsIdle

LEMMA DieStep ==
  ASSUME LeaseInv, NEW r \in Runs, Die(r)
  PROVE  LeaseInv'
<1>1. RunMoves(r, NoRun) /\ cut' = TRUE /\ UNCHANGED <<lease, cursor, status>>
  BY DEF RunMoves, Die
<1>2. faults' \in 0..MaxFaults
  BY FaultType DEF Die
<1>3. status' \in {"never-run", "running", "completed", "lease-held", "failed"}
  BY <1>1 DEF LeaseInv, LeaseTypeOK
<1>4. QED BY <1>1, <1>2, <1>3, GivesUp, NoRunIsIdle

LEMMA LapseStep ==
  ASSUME LeaseInv, Lapse
  PROVE  LeaseInv'
<1>1. /\ lease' = [lease EXCEPT !.live = FALSE] /\ faults' \in 0..MaxFaults
      /\ UNCHANGED <<cursor, status, run, cut>>
  BY FaultsKept, FaultType DEF Lapse
<1>2. /\ lease' \in [token : Tokens \cup {None}, live : BOOLEAN]
      /\ lease'.token = lease.token /\ ~lease'.live
  BY <1>1 DEF LeaseInv, LeaseTypeOK
<1>3. LeaseTypeOK'
  BY <1>1, <1>2 DEF LeaseInv, LeaseTypeOK, Working
<1>4. HoldersHaveSeen' /\ LiveIsHeld'
  BY <1>1, <1>2 DEF LeaseInv, HoldersHaveSeen, LiveIsHeld, Holds
<1>5. Concluded' /\ BatchesLeft' /\ SomeoneReports'
  BY <1>1 DEF LeaseInv, Concluded, BatchesLeft, SomeoneReports, Reports
<1>6. QED BY <1>3, <1>4, <1>5 DEF LeaseInv

------------------------------------------------------------------------------
LEMMA LeaseStep ==
  ASSUME LeaseInv, [LeaseNext]_leaseVars
  PROVE  LeaseInv'
<1>1. CASE Lapse
  BY <1>1, LapseStep
<1>2. ASSUME NEW r \in Runs, RunStep(r) PROVE LeaseInv'
  BY <1>2, RecordRunningStep, TryAcquireStep, ReadCursorStep, WriteCursorStep,
     NextBatchStep, ReleaseStep, RecordOutcomeStep, RenewalFailsStep, AcquireFailsStep
     DEF RunStep
<1>3. ASSUME NEW r \in Runs, Batch(r) \/ StatementFails(r) \/ Die(r) PROVE LeaseInv'
  BY <1>3, BatchStep, StatementFailsStep, DieStep
<1>4. CASE UNCHANGED leaseVars
  BY <1>4 DEF leaseVars, LeaseInv, LeaseTypeOK, HoldersHaveSeen, LiveIsHeld, Concluded,
     BatchesLeft, SomeoneReports, Reports, Working, Holds
<1>5. QED BY <1>1, <1>2, <1>3, <1>4 DEF LeaseNext

\* What runs, lease and cursor are to each other, in every reachable state.
THEOREM LeaseInvariant == LeaseSpec => []LeaseInv
BY LeaseStart, LeaseStep, PTL DEF LeaseSpec

\* Types; a working run has a token of its own.
THEOREM LeaseTypes == LeaseSpec => []LeaseTypeOK
<1>1. LeaseInv => LeaseTypeOK
  BY DEF LeaseInv
<1>2. QED BY <1>1, LeaseInvariant, PTL

LEMMA Handover ==
  ASSUME LeaseInv, [LeaseNext]_leaseVars, cursor' # cursor
  PROVE  \E r \in Runs : run[r].pc = "save" /\ run[r].seen = cursor
<1>1. PICK r \in Runs : run[r].pc = "save" /\ Renews(r)
  BY DEF LeaseNext, leaseVars, Lapse, RunStep, RecordRunning, TryAcquire, ReadCursor,
     WriteCursor, MaySave, NextBatch, Release, RecordOutcome, RenewalFails, AcquireFails,
     ReleaseFails, Batch, StatementFails, Die
<1>2. QED BY <1>1 DEF LeaseInv, HoldersHaveSeen, Renews

\* However late a run saves its cursor, what it replaces is what it has read: a run
\* that lost its lease moves nothing.
THEOREM CursorIsHandedOver == LeaseSpec => CursorHandover
<1>1. LeaseInv /\ [LeaseNext]_leaseVars =>
        [cursor' # cursor =>
           \E r \in Runs : run[r].pc = "save" /\ run[r].seen = cursor]_leaseVars
  BY Handover
<1>2. QED BY <1>1, LeaseInvariant, PTL DEF LeaseSpec, CursorHandover

LEMMA Kept ==
  ASSUME LeaseInv, [LeaseNext]_leaseVars, NEW r \in Runs, Renews(r), Working(r),
         lease'.token # lease.token
  PROVE  run[r].pc = "release"
<1>1. lease.live /\ Holds(r)
  BY DEF Renews
<1>2. PICK q \in Runs : run[q].pc = "release" /\ Holds(q)
  <2>1. CASE Lapse
    BY <2>1 DEF LeaseInv, LeaseTypeOK, Lapse
  <2>2. CASE UNCHANGED lease
    BY <2>2
  <2>3. ASSUME NEW q \in Runs, Release(q) \/ ReleaseFails(q)
        PROVE  run[q].pc = "release" /\ Holds(q)
    BY <2>3 DEF Release, ReleaseFails, MayRelease
  <2>4. QED
    BY <1>1, <2>1, <2>2, <2>3 DEF LeaseNext, leaseVars, RunStep, RecordRunning, TryAcquire,
       ReadCursor, WriteCursor, NextBatch, RecordOutcome, RenewalFails, AcquireFails,
       Batch, StatementFails, Die
<1>3. QED BY <1>1, <1>2, TokensDiffer

\* A live lease is taken from nobody: it ends with the run that holds it.
THEOREM LeaseIsTakenFromNobody == LeaseSpec => LeaseIsKept
<1>1. LeaseInv /\ [LeaseNext]_leaseVars =>
        [\A r \in Runs : Renews(r) /\ Working(r) /\ ~(lease'.token = lease.token)
           => run[r].pc = "release"]_leaseVars
  BY Kept
<1>2. QED BY <1>1, LeaseInvariant, PTL DEF LeaseSpec, LeaseIsKept

\* A job that is shown as running has a run, or one was cut off.
THEOREM StatusIsSettled == LeaseSpec => []StatusSettles
<1>1. LeaseInv => StatusSettles
  BY DEF LeaseInv, SomeoneReports, StatusSettles, Reports
<1>2. QED BY <1>1, LeaseInvariant, PTL
=============================================================================
