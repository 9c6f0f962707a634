------------------------------ MODULE JobLease ------------------------------
(***************************************************************************)
(* One scheduled job: ScheduledJobCoordinator over                         *)
(* SqliteScheduledJobLeaseStore and the status rows of                     *)
(* SqliteAdminOperationsStore.  Several processes run the job; a lease of  *)
(* ten minutes, renewed while its holder works, lets one of them through.  *)
(* What a batch of the job does is left open here (Batch); Recurrence      *)
(* fills it in.                                                            *)
(*                                                                         *)
(* Every statement compares expires_at with the clock of the moment, so    *)
(* the two timestamps of a lease are one flag: it is live or has run out.  *)
(***************************************************************************)
EXTENDS Integers

CONSTANTS
  Runs,          \* processes that run the job
  Tokens, None,  \* random lease tokens; SQL NULL, and the token of a released lease
  Cursors,       \* values of cursor_value other than NULL
  MaxBatches,    \* MAX_BATCHES_PER_RUN, MAX_MEDIA_BATCHES_PER_RUN
  MaxFaults      \* bound: crashes and failed calls explored

ASSUME LeaseAssumption ==
  /\ None \notin Tokens \cup Cursors
  /\ MaxBatches \in Nat \ {0} /\ MaxFaults \in Nat

VARIABLES
  lease,   \* lease_token, and whether expires_at is ahead
  cursor,  \* cursor_value
  status,  \* scheduled_job_statuses.status
  run,     \* one process each
  cut,     \* some run died, or left behind its lease or an unrecorded outcome
  faults   \* faults so far

leaseVars == <<lease, cursor, status, run, cut, faults>>

NoRun == [pc |-> "idle", token |-> None, seen |-> None, next |-> None,
          batches |-> 0, lost |-> FALSE, outcome |-> "none"]
Released == [token |-> None, live |-> FALSE]

LeaseInit ==
  /\ lease = Released
  /\ cursor = None
  /\ status = "never-run"
  /\ run = [r \in Runs |-> NoRun]
  /\ cut = FALSE
  /\ faults = 0

Fault == faults < MaxFaults /\ faults' = faults + 1
Fresh == Tokens \ ({lease.token} \cup {run[r].token : r \in Runs})
Working(r) == run[r].pc \in {"cursor", "batch", "save", "more", "release"}
Holds(r) == lease.token = run[r].token

\* The run is over but for its lease.
Ends(r, how) ==
  [run EXCEPT ![r] = [NoRun EXCEPT !.pc = "release", !.token = run[r].token,
                                   !.lost = run[r].lost, !.outcome = how]]
Over(r, how) == [run EXCEPT ![r] = [NoRun EXCEPT !.pc = "record", !.outcome = how]]
Goes(r, pc) == [run EXCEPT ![r].pc = pc]

------------------------------------------------------------------------------
\* The lease.

\* Ten minutes pass since the lease was taken or renewed: nobody has its token any
\* more, or its holder, whose heartbeat renews it three times as often, was stalled.
Lapse ==
  /\ lease.live
  /\ \/ (\A r \in Runs : ~Holds(r)) /\ UNCHANGED faults
     \/ Fault
  /\ lease' = [lease EXCEPT !.live = FALSE]
  /\ UNCHANGED <<cursor, status, run, cut>>

\* run: the row says running before the lease is asked for.
RecordRunning(r) ==
  /\ run[r].pc = "idle"
  /\ status' = "running"
  /\ run' = Goes(r, "acquire")
  /\ UNCHANGED <<lease, cursor, cut, faults>>

\* tryAcquire keeps the cursor of the previous holder.
TryAcquire(r) ==
  /\ run[r].pc = "acquire"
  /\ IF lease.live
     THEN /\ run' = Over(r, "lease-held")
          /\ UNCHANGED lease
     ELSE \E t \in Fresh :
            /\ lease' = [token |-> t, live |-> TRUE]
            /\ run' = [run EXCEPT ![r].pc = "cursor", ![r].token = t]
  /\ UNCHANGED <<cursor, status, cut, faults>>

\* The call throws, with or without effect: the lease may be held by a token
\* that nobody has, until it runs out.
AcquireFails(r) ==
  /\ Fault
  /\ run[r].pc = "acquire"
  /\ run' = Over(r, "failed")
  /\ \/ UNCHANGED <<lease, cut>>
     \/ /\ ~lease.live /\ cut' = TRUE
        /\ \E t \in Fresh : lease' = [token |-> t, live |-> TRUE]
  /\ UNCHANGED <<cursor, status>>

\* A renewal by the heartbeat's timer keeps a live lease live.  One that fails, or
\* finds the lease gone, is remembered until the heartbeat is stopped.
Renews(r) == lease.live /\ Holds(r)

RenewalFails(r) ==
  /\ Working(r) /\ ~run[r].lost
  /\ \/ ~Renews(r) /\ UNCHANGED faults
     \/ Fault
  /\ run' = [run EXCEPT ![r].lost = TRUE]
  /\ UNCHANGED <<lease, cursor, status, cut>>

------------------------------------------------------------------------------
\* drainLeased.

ReadCursor(r) ==
  /\ run[r].pc = "cursor"
  /\ run' = IF Holds(r)
            THEN [run EXCEPT ![r].pc = "batch", ![r].seen = cursor, ![r].next = cursor]
            ELSE Ends(r, "failed")
  /\ UNCHANGED <<lease, cursor, status, cut, faults>>

\* A batch ends: the job names the cursor it got to.
EndBatch(r, c) ==
  /\ run[r].pc = "batch"
  /\ run' = [run EXCEPT ![r].pc = "save", ![r].next = c, ![r].batches = @ + 1]

\* What a batch of any job may do: find the cursor it will name, and end.
Batch(r) ==
  /\ run[r].pc = "batch"
  /\ \E c \in Cursors \cup {None} : run' = [run EXCEPT ![r].next = c] \/ EndBatch(r, c)
  /\ UNCHANGED <<lease, cursor, status, cut, faults>>

\* The batch throws, or the cursor could not be read or saved: the run is failed,
\* whether or not the statement took effect.
StatementFails(r) ==
  /\ Fault
  /\ run[r].pc \in {"cursor", "batch", "save"}
  /\ run' = Ends(r, "failed")
  /\ \/ UNCHANGED cursor
     \/ run[r].pc = "save" /\ Renews(r) /\ cursor' = run[r].next
  /\ UNCHANGED <<lease, status, cut>>

AnyHolder(r) == TRUE  \* mutant: UPDATE ... WHERE job_name = ?
MaySave(r) == Renews(r)

\* writeCursor; the run goes on if there may be more and it has batches left.
WriteCursor(r) ==
  /\ run[r].pc = "save"
  /\ IF MaySave(r)
     THEN /\ cursor' = run[r].next
          /\ \E more \in BOOLEAN :
               run' = IF more /\ run[r].batches < MaxBatches
                      THEN [run EXCEPT ![r].pc = "more", ![r].seen = run[r].next]
                      ELSE Ends(r, "completed")
     ELSE run' = Ends(r, "failed") /\ UNCHANGED cursor
  /\ UNCHANGED <<lease, status, cut, faults>>

\* renewNow before the next batch, or the 25 seconds of a run are over.
NextBatch(r) ==
  /\ run[r].pc = "more"
  /\ run' \in {IF Renews(r) THEN Goes(r, "batch") ELSE Ends(r, "failed"),
               Ends(r, "completed")}
  /\ UNCHANGED <<lease, cursor, status, cut, faults>>

------------------------------------------------------------------------------
\* The end of a run.

Anyone(r) == TRUE  \* mutant: release without AND lease_token = ?
MayRelease(r) == Holds(r)

\* heartbeat.stop reports a lost lease; release resets the row of this token only.
Release(r) ==
  /\ run[r].pc = "release"
  /\ lease' = IF MayRelease(r) THEN Released ELSE lease
  /\ run' = Over(r, IF run[r].lost THEN "failed" ELSE run[r].outcome)
  /\ UNCHANGED <<cursor, status, cut, faults>>

ReleaseFails(r) ==
  /\ Fault
  /\ run[r].pc = "release"
  /\ \/ lease' = (IF MayRelease(r) THEN Released ELSE lease) /\ UNCHANGED cut
     \/ cut' = TRUE /\ UNCHANGED lease
  /\ run' = Over(r, "failed")
  /\ UNCHANGED <<cursor, status>>

\* An attempt that found the lease held leaves the row of a running job alone.
NoCatch(r) ==  \* mutant: the outcome of a run that throws is not recorded
  IF run[r].outcome = "failed" \/ (run[r].outcome = "lease-held" /\ status = "running")
  THEN status ELSE run[r].outcome
Recorded(r) ==
  IF run[r].outcome = "lease-held" /\ status = "running" THEN status ELSE run[r].outcome

RecordOutcome(r) ==
  /\ run[r].pc = "record"
  /\ status' = Recorded(r)
  /\ run' = [run EXCEPT ![r] = NoRun]
  /\ UNCHANGED <<lease, cursor, cut, faults>>

\* The process dies, or an outcome is not recorded.
Die(r) ==
  /\ Fault
  /\ run[r].pc # "idle"
  /\ run' = [run EXCEPT ![r] = NoRun]
  /\ cut' = TRUE
  /\ UNCHANGED <<lease, cursor, status>>

------------------------------------------------------------------------------
\* What a run does whatever the job is.
RunStep(r) ==
  \/ RecordRunning(r) \/ TryAcquire(r) \/ ReadCursor(r) \/ WriteCursor(r)
  \/ NextBatch(r) \/ Release(r) \/ RecordOutcome(r) \/ RenewalFails(r)
  \/ AcquireFails(r) \/ ReleaseFails(r)

LeaseNext ==
  \/ Lapse
  \/ \E r \in Runs : RunStep(r) \/ Batch(r) \/ StatementFails(r) \/ Die(r)

LeaseSpec == LeaseInit /\ [][LeaseNext]_leaseVars

------------------------------------------------------------------------------
\* Properties.

RunState ==
  [pc : {"idle", "acquire", "cursor", "batch", "save", "more", "release", "record"},
   token : Tokens \cup {None}, seen : Cursors \cup {None}, next : Cursors \cup {None},
   batches : 0..MaxBatches, lost : BOOLEAN,
   outcome : {"none", "completed", "lease-held", "failed"}]

\* Types; a working run has a token and no other run has the same.
LeaseTypeOK ==
  /\ lease \in [token : Tokens \cup {None}, live : BOOLEAN]
  /\ cursor \in Cursors \cup {None}
  /\ status \in {"never-run", "running", "completed", "lease-held", "failed"}
  /\ run \in [Runs -> RunState]
  /\ cut \in BOOLEAN
  /\ faults \in 0..MaxFaults
  /\ \A r \in Runs : Working(r) <=> run[r].token # None
  /\ \A r, s \in Runs : run[r].token = run[s].token => r = s \/ run[r].token = None

\* A run that lost its lease moves nothing: whoever replaces the cursor has read
\* the value it replaces, however many runs saved theirs in between.
CursorHandover ==
  [][cursor' # cursor => \E r \in Runs : run[r].pc = "save" /\ run[r].seen = cursor]_leaseVars

\* A lease that has not run out is taken from nobody: it ends when its holder gives
\* it up, never by a predecessor that comes to its end late.
LeaseIsKept ==
  [][\A r \in Runs : Renews(r) /\ Working(r) /\ ~(lease'.token = lease.token)
       => run[r].pc = "release"]_leaseVars

\* The status row never says "running" when no run is under way, unless one died or
\* left its lease behind: only then is the job shown as interrupted.
StatusSettles ==
  (\A r \in Runs : run[r].pc = "idle") /\ status = "running" => cut
=============================================================================
