---------------------------- MODULE AuditArchive ----------------------------
(***************************************************************************)
(* The daily audit-archive job: AuditArchiveService over                   *)
(* SqliteAuditArchiveStore, the audit triggers and the blob store.  Old    *)
(* audit rows are claimed by a pending archive, written to a file, and     *)
(* deleted in the transaction that makes the archive ready; a file is      *)
(* deleted with its archive a year later.  Two jobs run at once after a    *)
(* lost job lease or when an operator starts one.                          *)
(*                                                                         *)
(* A file and its sha256 are the set of entries written: rows are          *)
(* immutable and are always written in the order of their positions.  The  *)
(* job's own audit rows are entries like all others.                       *)
(***************************************************************************)
EXTENDS Integers, FiniteSets

CONSTANTS
  Entries, Archives, Runs,  \* audit ids; archive ids; runs of the job
  TestEntries,   \* entries registered as artifacts of a system test
  Tokens, None,  \* random lease tokens; SQL NULL
  BatchSize,     \* entries in one archive
  CleanupSize,   \* archives deleted by one run
  MaxFaults      \* bound: crashes and failed calls explored

ASSUME ArchiveAssumption ==
  /\ TestEntries \subseteq Entries /\ None \notin Tokens
  /\ IsFiniteSet(Entries)
  /\ BatchSize \in Nat /\ CleanupSize \in Nat /\ MaxFaults \in Nat

VARIABLES
  row,      \* audit_log: entries no row exists of are unborn, archived or erased
  status,   \* audit_archives.status, with "none" and "dropped" for no row
  token,    \* lease_token
  lapsed,   \* lease_expires_at has passed
  count,    \* row_count
  items,    \* audit_archive_items
  sha,      \* sha256 of a ready archive, kept here when the archive is dropped
  expired,  \* completed_at is before the retention cutoff
  object,   \* the file in the blob store; {} when there is none
  late,     \* writes of dead runs that may still reach the blob store
  run,      \* one run of the job each
  faults    \* faults so far

vars == <<row, status, token, lapsed, count, items, sha, expired, object, late, run, faults>>
archiveVars == <<status, token, lapsed, count, sha, expired>>

NoRun == [pc |-> "idle", archive |-> None, token |-> None, entries |-> {},
          sees |-> {}, todo |-> {}]

Init ==
  /\ row = [e \in Entries |-> "unborn"]
  /\ status = [a \in Archives |-> "none"]
  /\ token = [a \in Archives |-> None]
  /\ lapsed = [a \in Archives |-> FALSE]
  /\ count = [a \in Archives |-> 0]
  /\ items = [a \in Archives |-> {}]
  /\ sha = [a \in Archives |-> {}]
  /\ expired = [a \in Archives |-> FALSE]
  /\ object = [a \in Archives |-> {}]
  /\ late = {}
  /\ run = [r \in Runs |-> NoRun]
  /\ faults = 0

Fault == faults < MaxFaults /\ faults' = faults + 1
EndRun(r) == run' = [run EXCEPT ![r] = NoRun]

------------------------------------------------------------------------------
\* The log and the clock.

Record(e) ==
  /\ row[e] = "unborn"
  /\ row' = [row EXCEPT ![e] = "recent"]
  /\ UNCHANGED <<archiveVars, items, object, late, run, faults>>

\* Three months pass.
Age(e) ==
  /\ row[e] = "recent"
  /\ row' = [row EXCEPT ![e] = "old"]
  /\ UNCHANGED <<archiveVars, items, object, late, run, faults>>

\* Cleanup of a system test, which the delete trigger lets through even for a
\* claimed row; the foreign key takes the item along.
Erase(e) ==
  /\ e \in TestEntries /\ row[e] \in {"recent", "old"}
  /\ row' = [row EXCEPT ![e] = "erased"]
  /\ items' = [a \in Archives |-> items[a] \ {e}]
  /\ UNCHANGED <<archiveVars, object, late, run, faults>>

\* Ten minutes pass since a claim.
Lapse(a) ==
  /\ status[a] = "pending" /\ ~lapsed[a]
  /\ lapsed' = [lapsed EXCEPT ![a] = TRUE]
  /\ UNCHANGED <<row, status, token, count, items, sha, expired, object, late, run, faults>>

\* A year passes since the archive was completed: no write or run of then is left.
Expire(a) ==
  /\ status[a] = "ready" /\ ~expired[a]
  /\ \A w \in late : w[1] # a
  /\ \A r \in Runs : run[r].archive # a
  /\ expired' = [expired EXCEPT ![a] = TRUE]
  /\ UNCHANGED <<row, status, token, lapsed, count, items, sha, object, late, run, faults>>

------------------------------------------------------------------------------
\* cleanupExpired.

Ready == {a \in Archives : status[a] = "ready"}  \* mutant: listExpired without its cutoff
Expired == {a \in Archives : status[a] = "ready" /\ expired[a]}

\* listExpired, at the time every later comparison of this run uses.
Start(r) ==
  /\ run[r].pc = "idle"
  /\ \E S \in SUBSET Expired :
       /\ Cardinality(S) <= CleanupSize
       /\ S # {} \/ Expired = {}
       /\ run' = [run EXCEPT ![r] = [NoRun EXCEPT
            !.pc = IF S = {} THEN "claim" ELSE "clean", !.todo = S,
            !.sees = {a \in Archives : status[a] = "pending" /\ lapsed[a]}]]
  /\ UNCHANGED <<row, archiveVars, items, object, late, faults>>

DeleteObject(r) ==
  /\ run[r].pc = "clean"
  /\ \E a \in run[r].todo :
       /\ object' = [object EXCEPT ![a] = {}]
       /\ run' = [run EXCEPT ![r].pc = "drop", ![r].archive = a]
  /\ UNCHANGED <<row, archiveVars, items, late, faults>>

\* deleteExpired; an archive that somebody else dropped ends the run.  A run that
\* dropped something claims nothing.
DropArchive(r) ==
  /\ run[r].pc = "drop"
  /\ LET a == run[r].archive
         rest == run[r].todo \ {a} IN
     IF a \in Expired
     THEN /\ status' = [status EXCEPT ![a] = "dropped"]
          /\ run' = [run EXCEPT ![r] =
               IF rest = {} THEN NoRun ELSE [NoRun EXCEPT !.pc = "clean", !.todo = rest]]
     ELSE UNCHANGED status /\ EndRun(r)
  /\ UNCHANGED <<row, token, lapsed, count, items, sha, expired, object, late, faults>>

\* blobs.delete throws, before or after the file is gone.
PressOn(r, a) ==  \* mutant: the row goes although the file may be there
  [run EXCEPT ![r].pc = "drop", ![r].archive = a]
GiveUp(r, a) == [run EXCEPT ![r] = NoRun]

DeleteFails(r) ==
  /\ Fault
  /\ run[r].pc = "clean"
  /\ \E a \in run[r].todo, gone \in BOOLEAN :
       /\ object' = IF gone THEN [object EXCEPT ![a] = {}] ELSE object
       /\ run' = GiveUp(r, a)
  /\ UNCHANGED <<row, archiveVars, items, late>>

------------------------------------------------------------------------------
\* archiveBatch.

Pending == {a \in Archives : status[a] = "pending"}
Fresh == Tokens \ ({token[a] : a \in Archives} \cup {run[r].token : r \in Runs})
Unclaimed == {e \in Entries : row[e] = "old" /\ \A a \in Archives : e \notin items[a]}

\* claim's UPDATE: a pending archive whose lease ran out gets this run's token.
NeverResumed(r) == {}  \* mutant: only new archives are claimed
Resumable(r) == {a \in Pending : lapsed[a] /\ a \in run[r].sees}

Resume(r) ==
  /\ run[r].pc = "claim"
  /\ \E a \in Resumable(r), t \in Fresh :
       /\ token' = [token EXCEPT ![a] = t]
       /\ lapsed' = [lapsed EXCEPT ![a] = FALSE]
       /\ run' = [run EXCEPT ![r] = [NoRun EXCEPT !.pc = "load", !.archive = a, !.token = t]]
  /\ UNCHANGED <<row, status, count, items, sha, expired, object, late, faults>>

\* claim's batch: a new archive takes the oldest rows that are not claimed.  The
\* unique index on pending archives makes it a no-op next to another one, and an
\* archive without rows is deleted again.
ClaimNew(r) ==
  /\ run[r].pc = "claim" /\ Resumable(r) = {} /\ Pending = {}
  /\ \E a \in Archives, t \in Fresh, S \in SUBSET Unclaimed :
       /\ status[a] = "none"
       /\ S # {} /\ Cardinality(S) <= BatchSize
       /\ status' = [status EXCEPT ![a] = "pending"]
       /\ token' = [token EXCEPT ![a] = t]
       /\ count' = [count EXCEPT ![a] = Cardinality(S)]
       /\ items' = [items EXCEPT ![a] = S]
       /\ run' = [run EXCEPT ![r] = [NoRun EXCEPT !.pc = "load", !.archive = a, !.token = t]]
  /\ UNCHANGED <<row, lapsed, sha, expired, object, late, faults>>

ClaimNothing(r) ==
  /\ run[r].pc = "claim" /\ Resumable(r) = {}
  /\ Pending # {} \/ Unclaimed = {}
  /\ EndRun(r)
  /\ UNCHANGED <<row, archiveVars, items, object, late, faults>>

Holds(r) == status[run[r].archive] = "pending" /\ token[run[r].archive] = run[r].token

\* loadClaim; a claim without rows is an error.
Load(r) ==
  /\ run[r].pc = "load"
  /\ LET rows == IF Holds(r) THEN items[run[r].archive] ELSE {} IN
     IF rows = {} THEN EndRun(r)
     ELSE run' = [run EXCEPT ![r].pc = "put", ![r].entries = rows]
  /\ UNCHANGED <<row, archiveVars, items, object, late, faults>>

\* putIfAbsent: an existing file is accepted if it is the same.
PutFile(r) ==
  /\ run[r].pc = "put"
  /\ LET a == run[r].archive
         f == run[r].entries IN
     IF object[a] \in {{}, f}
     THEN /\ object' = [object EXCEPT ![a] = f]
          /\ run' = [run EXCEPT ![r].pc = "finalize"]
     ELSE UNCHANGED object /\ EndRun(r)
  /\ UNCHANGED <<row, archiveVars, items, late, faults>>

\* finalize: status, digest and the deletion of the rows in one batch.
\* audit_archives_finalize_consistent.
Uncounted(a) == TRUE  \* mutant: no trigger on the number of items
Counted(a) == count[a] = Cardinality(items[a])

Finalized(r) == Holds(r) /\ Counted(run[r].archive)

AnyHolder(r) == items[run[r].archive]  \* mutant: DELETE without AND EXISTS (... 'ready')
Retired(r) == IF Finalized(r) THEN items[run[r].archive] ELSE {}

Finalize(r) ==
  /\ run[r].pc = "finalize"
  /\ LET a == run[r].archive
         D == Retired(r) IN
     /\ IF Finalized(r)
        THEN /\ status' = [status EXCEPT ![a] = "ready"]
             /\ token' = [token EXCEPT ![a] = None]
             /\ lapsed' = [lapsed EXCEPT ![a] = FALSE]
             /\ sha' = [sha EXCEPT ![a] = run[r].entries]
        ELSE UNCHANGED <<status, token, lapsed, sha>>
     /\ row' = [e \in Entries |-> IF e \in D THEN "archived" ELSE row[e]]
     /\ items' = [b \in Archives |-> items[b] \ D]
  /\ EndRun(r)
  /\ UNCHANGED <<count, expired, object, late, faults>>

\* A run dies or a statement of it fails; its write may be under way.
RunFault(r) ==
  /\ Fault
  /\ run[r].pc # "idle"
  /\ late' \in IF run[r].pc = "put"
               THEN {late, late \cup {<<run[r].archive, run[r].entries>>}} ELSE {late}
  /\ EndRun(r)
  /\ UNCHANGED <<row, archiveVars, items, object>>

LateWrite ==
  /\ \E w \in late :
       /\ late' = late \ {w}
       /\ \/ object' = [object EXCEPT ![w[1]] = IF @ = {} THEN w[2] ELSE @]
          \/ UNCHANGED object
  /\ UNCHANGED <<row, archiveVars, items, run, faults>>

JobStep(r) ==
  \/ Start(r) \/ DeleteObject(r) \/ DropArchive(r) \/ Resume(r) \/ ClaimNew(r)
  \/ ClaimNothing(r) \/ Load(r) \/ PutFile(r) \/ Finalize(r)

Next ==
  \/ \E e \in Entries : Record(e) \/ Age(e) \/ Erase(e)
  \/ \E a \in Archives : Lapse(a) \/ Expire(a)
  \/ \E r \in Runs : JobStep(r) \/ DeleteFails(r) \/ RunFault(r)
  \/ LateWrite

Spec == Init /\ [][Next]_vars

\* The job is scheduled every day, its calls return, and leases run out.
FairSpec ==
  /\ Spec
  /\ \A r \in Runs : WF_vars(JobStep(r))
  /\ \A a \in Archives : WF_vars(Lapse(a))

------------------------------------------------------------------------------
\* Properties.

RunState ==
  [pc : {"idle", "clean", "drop", "claim", "load", "put", "finalize"},
   archive : Archives \cup {None}, token : Tokens \cup {None}, entries : SUBSET Entries,
   sees : SUBSET Archives, todo : SUBSET Archives]

\* Types, and what CHECK audit_archives_state_consistent and the index
\* ux_audit_archives_one_pending say of the archives.
TypeOK ==
  /\ row \in [Entries -> {"unborn", "recent", "old", "archived", "erased"}]
  /\ status \in [Archives -> {"none", "pending", "ready", "dropped"}]
  /\ token \in [Archives -> Tokens \cup {None}]
  /\ lapsed \in [Archives -> BOOLEAN]
  /\ count \in [Archives -> Nat]
  /\ items \in [Archives -> SUBSET Entries]
  /\ sha \in [Archives -> SUBSET Entries]
  /\ expired \in [Archives -> BOOLEAN]
  /\ object \in [Archives -> SUBSET Entries]
  /\ late \subseteq Archives \X SUBSET Entries
  /\ run \in [Runs -> RunState]
  /\ faults \in 0..MaxFaults
  /\ \A a \in Archives :
       /\ status[a] = "pending" <=> token[a] # None
       /\ status[a] = "ready" => count[a] > 0 /\ sha[a] # {}
  /\ \A a, b \in Pending : a = b

\* Every entry that left the log by the archive is in exactly one finished file,
\* and no file repeats an entry that is still in the log: not with two runs on
\* one archive, nor with an entry that a system test takes back meanwhile.
ExactlyOneFile ==
  \A e \in Entries :
    LET files == {a \in Archives : e \in sha[a]} IN
    IF row[e] = "archived" THEN \E a \in Archives : files = {a} ELSE files = {}

\* A ready archive can be downloaded for a year, and passes its digest check.
ReadyIsServed ==
  \A a \in Archives : status[a] = "ready" /\ ~expired[a] => object[a] = sha[a]

\* Retention forgets no file: what is in the store belongs to an archive.
NoOrphanFiles ==
  \A a \in Archives : object[a] # {} => status[a] \in {"pending", "ready"}

\* Every entry is archived in the end, whatever dies on the way, unless a system
\* test erases rows of a claimed batch.
EveryEntryArchived ==
  \A e \in Entries : row[e] = "old" ~> row[e] = "archived"

\* read: a download has the file of a ready archive, if it is there and is the one
\* that was finished.
Download(a) ==
  IF status[a] = "ready" /\ object[a] = sha[a] THEN object[a] ELSE {}

\* Archiving behaves like exports that take one step each: what two runs, dead ones
\* and late writes do in between shows neither in the log nor in a download, and
\* nothing that finished is out of reach within its year.
Log == INSTANCE AuditLog
  WITH log <- {e \in Entries : row[e] \in {"recent", "old"}},
       known <- {e \in Entries : row[e] # "unborn"},
       written <- sha,
       served <- [a \in Archives |-> Download(a)],
       kept <- {a \in Archives : status[a] = "ready" /\ ~expired[a]}
RefinesAuditLog == Log!Spec
=============================================================================
