# TLA+ models and proofs of Infini Guild Management

This directory models the parts of the server whose correctness depends on the
order in which requests, scheduled jobs, blob-store calls and crashes happen.
The modules are checked with TLC on small instances, and their main properties
are proved with TLAPS for every instance.

| File | Contents |
| --- | --- |
| `StorageLedger.tla` | stock submissions, idempotency keys, ledger triggers, item editors |
| `StockBook.tla` | abstract specification that `StorageLedger` implements |
| `MediaLifecycle.tla` | uploads, references, garbage collection |
| `MediaShelf.tla` | abstract specification that `MediaLifecycle` implements |
| `AuditArchive.tla` | the audit-archive job: claim, file, finalize, retention |
| `AuditLog.tla` | abstract specification that `AuditArchive` implements |
| `JobLease.tla` | the lease, cursor, batches and status row of a scheduled job |
| `Recurrence.tla` | recurring events: JobLease with the batch of the recurrence job, and staff |
| `EventSeries.tla` | abstract specification that `Recurrence` implements |
| `EventSignup.tla` | sign-ups, votes, draws, edits and archive of one event, with its two jobs |
| `AuthSessions.tla` | one member's credential, temporary passwords and sessions |
| `GuildWar.tla` | the wars of one event, their rosters and history, next to its participants |
| `MC*.tla`, `*.cfg` | model values, bounds and properties of the runs |
| `*Proofs.tla` | theorems and proofs |
| `PROJECT.json` | components, runs, mutants, map to the source, hazards, theorems |

`tlc -config storage_race.cfg MCStorageLedger` checks a run,
`tlapm StorageLedgerProofs.tla` checks the proofs of a module.

Contents: 1 the system; 2-9 the modules and their runs; 10 fairness; 11 what is
proved; 12 a disagreement; 13 observations; 14 what is not modelled and what is left.

In this text `storage-service.ts` stands for
`src/packages/server/src/modules/storage/storage-service.ts`, `storage-store.ts`
for `src/packages/persistence-sqlite/src/stores/storage-store.ts`, and so on; `map` in
`PROJECT.json` has the full path and the lines of every definition.

## 1. The system

A guild's portal: a TypeScript server over SQLite (VPS) or D1 (Cloudflare), one
blob store for media and audit archives, and a browser application.

How the parts interact:

- A request is routed by `transport-http`, authorized, and handled by a service
  in `packages/server`. A service reads through a store, decides, and writes with
  **one SQL batch**, which commits or aborts as a whole. Between its awaits any
  other request or job runs. Nothing is kept in the server's memory between
  requests, except rate-limit counters and the scheduler of the VPS.
- Rules that must hold whatever the interleaving are **triggers, CHECKs and
  unique indexes**, or conditions repeated in the `WHERE` of the write. The check a
  service makes on what it read is for the error message; the repeated one counts.
- Blob calls are outside every transaction. Rows are therefore written before
  the objects they name and deleted after them, with random **claim tokens** and
  expiry times to tell a stale worker from the current one.
- Scheduled jobs (`scheduled-jobs.ts`) run under a lease with a heartbeat and
  drain their work in batches. A lease can run out during a batch, so two runners
  of the same job can be at work.
- A system test creates real rows, registers them as artifacts, and takes them
  back; some triggers make an exception for it.

### Inventory

| Component | State | Operations | Hard behaviour | What makes it correct |
| --- | --- | --- | --- | --- |
| storage | items, balances, batches, ledger rows | submit (intake, distribute, adjust), create, edit, delete item | snapshot read long before the commit; retries under an idempotency key; item edited or deleted meanwhile | balance = sum of ledger, never negative; one batch per key; answers are what was booked; no lost edit; items with history stay |
| media | assets, variants, links, revision media, objects | reserve, write, stage, fail, attach, detach, collect | parallel blob writes that fail or arrive late; two collectors; claims that lapse; crash at any await | references resolve; nothing leaks; no orphan objects |
| audit archive | log rows, archives, items, files | claim, resume, write, finalize, retention | crash between file and database; two runs; late write | every old entry in exactly one file, each served for a year |
| scheduled jobs | lease, cursor, status rows | acquire, renew, drain, write cursor, release, record | lease lapses mid-batch; stale release; overwritten status | at most one live lease; cursor only by its holder; batches idempotent |
| events | events, participants, polls, raffles, templates | sign up, leave, lock, vote, draw, materialize | capacity races; draw against leaving; two materializers | capacity respected; one draw, winners are participants; one instance per date |
| guild war | wars, teams, members, history | replace roster, tag, conclude, edit stats | conclusion against roster edits | version advances, concluded wars are frozen |
| auth | credentials, sessions, roles, invitations, OAuth, e-mail | sign in, change/reset password, link, verify, assign role | revocation racing a sign-in; single-use secrets; last administrator | no session of an old revision; secrets used once; a role manager always remains |
| members | profiles, absences, badges | guarded edits | stale edits | single guarded statements |
| system test | runs, requests, artifacts, before-images | begin, register, clean, expire, finalize | cleanup against running requests; two cleaners | what a test made or changed is taken back |
| notifications, important notices | inbox rows, receipts | fan out, read, acknowledge | fan-out by trigger, repeated acknowledgement | one row per recipient and source |
| announcements, gallery, wiki, site config | rows with revisions | guarded edits | stale edits; images are media | covered by guards and by media |
| blob reconciliation, portal read models, admin operations, audit queries | none of their own | reads | none | - |
| Cloudflare and VPS runtimes | objects, rate-limit counters, temp files | ports of `kernel` | `putIfAbsent` on a file system; full limiter | atomic visibility; limiter recovers |
| portal | browser state, session revision shared by tabs | user interface | tabs that disagree about the session | out of the server's scope |

## 2. StorageLedger

`StorageService.submitStock` is one process per request (`handler`), with one
action per stretch between awaits:

| Action | Code |
| --- | --- |
| `Submit` | checks on the caller and the normalized request (874-910) |
| `LookUp` | `findBatch` by actor and key; replay or go on (912-913) |
| `ReadSnapshot` | one SELECT; checks; deltas and audit event planned from it (915-1013) |
| `CommitStock` | the batch of `commitStock` with its three triggers |
| `CommitDuplicate`, `Recheck` | unique index hit; look up again and replay (1017-1022) |
| `CommitRejected` | a trigger or CHECK aborted the batch (1023-1031) |
| `Leave` | the answer arrives or is lost, or the runtime drops the request |

A crash is `Leave` before an answer: the database keeps what the batch committed,
and the client may send the same key again, as long as it likes. `CreateItem`,
`OpenEditor`, `RequestSave`, `UpdateItem`, `RequestDelete`, `DeleteItem` and `CloseEditor` are the item
editor: the revision (`updated_at`) it was opened on, the check when it saves, and
the guarded statement. Request times come from `Instants` in any order: requests
may commit in another order than they were stamped, and `AdvancedRevision`
(`storage_ledger_advance_item_revision`, `monotonicTimestamp`) must make up for it.

`StockBook` promises users less and says it in one action: a booking happens in one
step, once per actor and key, from the stock of that moment, and not below zero.
`RefinesStockBook` maps `stock` to the balances and `booked` to the set of batches.

Abstractions: quantities are integers (SQL has REALs; the code's check for deltas
below the precision of a REAL is not modelled), the fingerprint of a request is the
request, notes and names are left out, accounts are not deleted, and an edit is an
edit of the two self-service flags (an edit of other fields advances the revision in
the same way). Storages, categories, images and the removal of a system test's
ledger rows are not modelled.

Runs:

- `storage_race` (about 470,000 states): one account, two items, two concurrent requests and
  three keys, so that a third submission can overtake, and one key can be retried while it
  is in progress; three batches. The requests (`SomeRequests`) name both items or one, so that one
  line of a batch may be refused and the other not. One account: keys of different accounts
  never meet, which is `OneBatchPerKey` as proved for any number of them; with two
  accounts the run takes millions of states more.
- `storage_items` (about 2.3 million): one request and two editors on one item, times 0 and 1,
  all four policies, any request; equal timestamps and a request older than the item occur.
- `storage_audit`: a disagreement, see section 12.

Deadlock is checked in every run of sections 2 to 6: the bounds stop new batches,
edits and faults, never `Leave`, `CloseEditor` or the next run of a job. In `signup`,
`sessions` and `guild_war` (`CHECK_DEADLOCK FALSE`) the requests of a behaviour are counted,
so it really ends when they are answered and the clock stands at its bound.

## 3. MediaLifecycle

`upload` is a request in `persistUploads`: `Reserve` (rows, with the budget check in the
same statement), `StartWrite`/`WriteDone`/`WriteFails` for up to `Parallel` writers,
`WritesSettle` (`Promise.all`), `MarkStaged` or `MarkDeleting`, and `UploadFault` for failed
statements and death. Writes in flight survive their request: `WriteDone` and `WriteLost` are
enabled for a dead one. `gc` is a run of `collectGarbage`: `SelectGarbage` (the
SELECT), `ClaimGarbage` (the UPDATE that repeats its condition), `DeleteBlobs`, `DeleteFails`,
`Finalize`, `CollectorFault`. `Refer` is any batch that inserts and deletes references, with
the triggers of `media_links` and `wiki_revision_media`; `ReplaceLinks`, `SaveArticle` and
`EraseArticle` are the batches of the code. `Expire` and `Lapse` are time: they
may happen as soon as a row has an expiry, so every ratio of durations occurs.

Abstractions: the ownership and purpose checks made before attaching are reduced to
`Known` (clients know the ids of successful uploads), collectors pick any garbage and not
the oldest, validation and read authorization are left out, and so is the
deletion of asset rows by a system test.

Runs:

- `media_race` (about 615,000 states): `SlowUploads = TRUE`, two collectors, one upload of one or
  two assets with two objects each, two articles and one other target, one fault.
  Two collectors with a lapsed claim between them, a slow upload collected under its
  writer, and an image shared by two articles and retained by old revisions occur.
  It also checks `RefinesMediaShelf`: the store behaves like `MediaShelf`, which knows of no objects, writes,
  claims or collectors. There an asset is reserved, put on the shelf, and lost in the step that takes
  its last reference, or at any time before it has one; an asset whose row says it can be
  served while an object is missing has no place in it (`Place`).
- `media_reclaim` (about 285,000): `SlowUploads = FALSE`, two uploads with two parallel writers,
  one collector, two faults, under `FairSpec`. No symmetry, as liveness is checked.

`SlowUploads` says whether an upload may outlive its reservation of 24 hours
(`STAGED_TTL_MS`). Safety of references holds either way and is proved for both.
That no object is orphaned holds only for uploads that end in time, and is proved for those: the comment at
`media-service.ts:360-361` protects the upload's own transitions, but an upload stalled
for a day can store an object after its row was collected. `docs/SECURITY.md` makes
the database authoritative for deletion, so nothing would find that object but the
offline reconciliation.

Fairness: a request's calls return (its steps are weakly fair; writes of dead requests
arrive or are lost), time passes (`Expire`, `Lapse`), and media-gc is scheduled again
and again (`CollectorStep`). Faults are bounded: `NothingLingers` says the system recovers once
faults stop, not that it makes progress while every call fails.

## 4. AuditArchive

One run of the job (`scheduled-job-adapters.ts:322-350`) is `Start` (list expired archives, fixing
the run's time), `DeleteObject`/`DropArchive`/`DeleteFails` for retention, then `Resume` or
`ClaimNew` or `ClaimNothing`, `Load`, `PutFile`, `Finalize`. `RunFault` is death or a failed statement
anywhere; if it hits the write, the write may still arrive (`LateWrite`). `Record`,
`Age`, `Erase` are the rest of the system: rows are added, grow old, and a
system test takes its own back, with the exception `audit_log_delete_only_ready_archive` makes.

A file and its digest are the set of entries in it. The order of entries is fixed by
their positions and their rows are immutable, so equal sets are equal files. A run
uses the time of its start for all comparisons: `sees` keeps the leases that
had lapsed then. `Expire` (a year) happens only when no run or write of the
archive's time is left, a year being longer than any of them.

Runs:

- `archive_race` (about 302,000 states): three entries, one of a system test, three
  archives of at most two entries, two runs at once, two faults. It also checks `RefinesAuditLog`: the
  job behaves like `AuditLog`, where an export takes entries from the log and puts
  them in reach in one step, an archive is retired only after its year, and there are no
  claims, leases or files under way. A download has the file if it passes `read`'s comparison.
- `archive_live` (about 8,000): one run after the other, three faults, under `FairSpec`.

Fairness: the daily job is scheduled for ever and its calls return; leases run out. `EveryEntryArchived`
is checked without test entries. With them it fails: if an entry is taken back while a
pending archive holds it, `audit_archives_finalize_consistent` refuses that archive for ever
and `ux_audit_archives_one_pending` keeps new ones from starting. It takes a test
run left uncleaned for three months, so it is recorded as a hazard and not as a finding.

## 5. JobLease

`ScheduledJobCoordinator.run` (`scheduled-jobs.ts`) over `SqliteScheduledJobLeaseStore`: a
process per member of `Runs`, one action per await.

| Action | Code |
| --- | --- |
| `RecordRunning` | the status row says running before the lease is asked for |
| `TryAcquire`, `AcquireFails` | `tryAcquire`: a row that is absent or expired; the cursor stays |
| `RenewalFails` | the heartbeat's timer; a renewal that works keeps a live lease live and needs no action |
| `ReadCursor`, `Batch`, `WriteCursor`, `NextBatch`, `StatementFails` | `drainLeased` |
| `Release`, `ReleaseFails` | `heartbeat.stop`, then `release` of the row with this token |
| `RecordOutcome` | `recordOutcome`, which leaves a running row alone if the lease was held |
| `Die`, `Lapse` | the process ends anywhere; ten minutes pass |

All statements compare `expires_at` with the clock of their moment, so the timestamps
are one flag, `lease.live`. A lease whose holder is alive lapses only as a fault, because
its heartbeat renews it three times as often. `Batch` is left open here: it does
something, names a cursor, and ends. A token is a value that nobody else has (`Fresh`).

JobLease is checked and proved as part of Recurrence, which refines its `Batch`; the
theorem `ImplementsJobLease` says that Recurrence is `LeaseSpec` with more variables. Its three
properties therefore hold of any job whose batch changes nothing of the lease.

## 6. Recurrence

EXTENDS JobLease with `materializeDueBatch` and `materializeTemplate`
(`events-store.ts`, from 1506) as the batch: `Select` (`selectWindow`, twice when the
keyset ran out), then per template `LookUp` (the events there already) and `Materialize` (one
batch: events, and the guarded UPDATE of the template), then `Finish`. Beside it
staff create, update, pause, resume and delete templates and destroy events, and days pass (`Dawn`).

A date is a day, a rule is a set of days and the count after which it ends. What
calendar arithmetic makes of a rule, a time zone and a start time is that set, so the
theorems hold for any set and the arithmetic itself is not checked.
A rule here is one whose columns are all in the row of the template. Weekdays are rows of their own, which
`updateTemplate` replaces after its UPDATE and a run reads after the template; a staff request
is one step, and its own read is left out.

The batch of `materializeTemplate` compares what the run read in one place, the `WHERE` of the
UPDATE of the template. The INSERTs after it (`events-store.ts:1739-1746`, `1755-1783`) ask whether the
template is unpaused, has the count this batch would give it, and the `updated_at` it would write. A batch
whose UPDATE was refused may find all three if another run wrote the same value: `Overtaken`. The
value is `monotonicTimestamp(now, read.updatedAt)`, so two runs that read the same row write the
same if both started in one millisecond or not after the `updated_at` they read. `written`
is the day of a template's `updated_at` and `Wanted` the day of what a run would write; of times of
one day, whether they are the same is a choice. `Materialize` has both outcomes of a refused UPDATE:
nothing, or the events without the count.

`since` is a history variable: the day from which a template must have its events.
`FinalDate` is the last planned day, as in the code, and `NothingSkipped` says that
nothing planned before it was left out.

Runs:

- `recurrence_race` (about 3.8 million states): two processes, two templates, two days, a daily and a
  later rule, one staff edit, one fault, one template per batch. A run that lost its
  lease to the other and still materializes what it read before staff changed the rule
  occurs, and so does a release that comes after the next run has acquired.
  It also checks `RefinesEventSeries`: what runs do looks like `EventSeries`, which knows of no processes,
  leases, batches or `updated_at`. There a template generates its next events in one step, from
  the template as it is in that step, at some time `at` that has come (a run goes by the
  time it started at), and only days that have no event yet, or one that was destroyed, get one.
  `Repeat` is what an overtaken run adds: events that are not counted, no more of them than were counted
  so far, and none ahead of its time. `MadeByTheRule` and `StaysDestroyed` except the same steps
  (`Repeated`): the run must have read the template before as many events were counted.
- `recurrence_live` (about 171,000): one process, batches of one template, two batches in a
  run, one edit, one death or stall, under `FairSpec`.

## 7. EventSignup

One event (`events-service.ts`, `events-store.ts`). A request is two or three steps: `Ask*` reads
the row and decides, `ReadRest` reads what hangs on it (draws and edits), and one action
applies the batch: `SignUp` (join and add), `Leave` (leave and remove), `Vote`, `Draw`,
`Edit`, `Archive`, or `Refused`. `Destroy` compares nothing in the code and is one step.
`ListDue` starts the raffle job; `AutoArchive` is `archiveDue`, which repeats its condition in the UPDATE.

The UPDATE of every batch but the deletion's and the archive job's is under `WHERE updated_at = <as read>`, and
sets a value past that (`monotonicTimestamp`), so a request keeps the flag `current`, and an UPDATE that is applied clears
that of the others. The archive job is the exception: it sets the time it started at, which may be what a request
has read, so `AutoArchive` leaves any set of them current (section 13).

The statements after the UPDATE do not compare what was read. They ask that `updated_at` is the value the
request would write. Two requests of one millisecond, or both not after the `updated_at` they read, write the same
value; the second one's UPDATE is refused and it is answered CONFLICT, but its other statements are applied. That is
`Late`: `LateSignUp` (an INSERT under the trigger on participants, which knows capacity and end but not
the lock), `LateLeave`, `LateVote`, `LateDraw` (from the participants read before, and without the lock) and
`LateEdit` (the poll's settings and options are deleted or made, and votes go with the options). Times are
left out, so any refused request may be one of them; every shortest case needs no more than
two requests of one millisecond. `collided` is an auxiliary variable, true once
that has happened: `DrawFromEveryone`, `DrawIsFinal` and `VotesStand` except it for the parts the code loses then, and hold as
they are for the rest (winners take part, the draw is the last, its configuration stays). `NeverOverbooked` and `RaffleIsDrawn` hold
with it. The late statements on class quotas, attachments and the audit log are not modelled.

The conditions of a batch are the service's, the statement's and
the triggers' together: capacity and end by the trigger on `event_participants`, the
CHECK on a type's columns (`BehaviorColumns`), the poll and raffle triggers `KeepsPoll` and `KeepsDraw`.
An edit carries one decision at a time. `signup` stands for the event types without
votes or draw; sign-ups for guild wars have a trigger more, which is in GuildWar.

Run `signup` (about 1.5 million states): two members, two answers, two requests at a time and
three in all, each with any edit of `SomePatches` under way, ends before and
after the bound of the clock, under `FairSpec`. Three requests are what the properties
need: one that is stale, the one that made it so, and one to build the state both read.

## 8. AuthSessions

One member's credential (`auth-service.ts`, `auth-store.ts`, `identity-admin-service.ts`). A request is
read, hash, write: `AskLogin`, then `Rehash`, then `OpenSession`, or `Consume` for a temporary
password; `AskChange`, `ReadCredential`, then `Change` or `Complete`; `AskReset`, `ReadTarget`,
`Reset`. Sessions are resolved, renewed, logged out and cleaned up; an administrator
deactivates the member, and changes a password of his own once during a reset.

Passwords are numbers in the order they are set. `knew` is a history field: the password
the request of a session was sent with. A session has a life, and an absolute one;
one life in the model is one or two ticks, so every order of expiry and request occurs.

Run `sessions` (about a million states): four requests, symmetric, at most two sessions, a clock of
three instants. A login that was verified before a reset and opens its session after
it, two logins with one temporary password, and a completion whose session was
trimmed by then occur.

## 9. GuildWar

`guild-war-service.ts` over `guild-war-store.ts` and the store that writes an event's participants
and the roster of its war in one batch. `ReadEvent`, `ReadWar`, `CreateActive` and `ReadHistory`
are the reads (a war is created by the first request that needs one; two may try at once), and
`Save`, `Move`, `SetRoleTags`, `Conclude`, `UpdateMemberStats`, `UpdateHistory`, `DeleteHistory` and
`CreateHistory` the batches. Each compares `roster_version` and the status; a move also the event's
`updated_at`. `Join`, `Leave` and `Destroy` are the event's side, where the trigger
`active_war_participant_delete` keeps whoever is on the roster. The teams of a war are one (a place is
out, pool or team), which is enough to lose a place or a tag.

Run `guild_war` (about a million states): two members, two wars, two requests at a time and four in
all, members, wars and requests symmetric. The second war is one made after
the first was concluded and taken off the event, or destroyed with it.

## 10. Fairness

Safety properties are about `Spec`, without fairness; a run that also checks liveness has them under
`FairSpec`, which reaches the same states. The four `FairSpec`s:

- MediaLifecycle, AuditArchive: sections 3 and 4.
- Recurrence: every step of a run is weakly fair, `Start` included (both runtimes
  start the job on a schedule for ever), and so is `Lapse` of a
  lease that nobody renews, which is a matter of ten minutes. Staff, days and faults
  are not fair. `EveryEventMade` is about a template that stays as it is while it is due:
  `Due` is a state, and pausing or deleting the template ends it.
- EventSignup: `ListDue(now)`, `ReadRest(Job)` and the job's write are weakly fair, as above.
  `SF(Draw(Job))` says that a draw tried again and again, when it could succeed each time, does not fail
  for ever: `Refused(Job)` also stands for a batch that failed for reasons outside the model. It
  does not say that the event stands still: an edit between the read and the write still refuses the draw.

## 11. What is proved

The proof modules prove, for any constants that satisfy the named assumptions, what
the runs check on small ones. The assumptions (`StorageAssumption`, `AskedAssumption`, `MediaAssumption`,
`ArchiveAssumption`, `LeaseAssumption`, `RecurrenceAssumption`, `SignupAssumption`, `AuthAssumption`,
`GuildWarAssumption`) are type facts, distinct `None`s, and finiteness where something is counted.

| Theorem | Statement |
| --- | --- |
| `TypeCorrect`, `MediaTypes`, `ArchiveTypes`, `LeaseTypes`, `RecurrenceTypes`, `SignupTypes`, `AuthTypes`, `WarTypes` | `[]TypeOK`, with the CHECKs of the tables of storage, media, archives and events |
| `NoOverdraft`, `BookedOnce`, `AnswersAreTrue`, `ItemsWithHistoryStay` | the invariants of `storage_race` and `storage_items` |
| `NoLostEdit`, `SelfServiceTheorem` | the action properties of `storage_items` |
| `ImplementsStockBook` | `Spec => Book!Spec` |
| `ReferencesAreServed`, `NoAttachedLeak` | the invariants of `media_race` |
| `NothingOrphaned` | `SlowUploads = FALSE => (Spec => []NoOrphanBlobs)`, the invariant of `media_reclaim` |
| `BalanceTheorem` | `[]BalanceIsLedgerSum`, for any number of batches |
| `ImplementsMediaShelf` | MediaLifecycle's `Spec => Shelf!Spec`, for slow and timely uploads |
| `ImplementsAuditLog` | AuditArchive's `Spec => Log!Spec` |
| `NothingLostOrRepeated`, `ArchivesAreServed`, `RetentionForgetsNothing` | the invariants of `archive_race` |
| `CursorIsHandedOver`, `LeaseIsTakenFromNobody`, `StatusIsSettled` | the three properties of JobLease, of `LeaseSpec`; the last: once no run is under way, a status that still says running was cut off by a crash |
| `ImplementsJobLease` | Recurrence's `Spec => LeaseSpec` |
| `RecurrenceHandover`, `RecurrenceLease`, `RecurrenceStatus` | the same three of Recurrence, by `ImplementsJobLease` |
| `ImplementsEventSeries` | Recurrence's `Spec => Series!Spec`, where an overtaken run is a `Repeat` |
| `NoDaySkipped`, `MadeAsItStands`, `DestroyedStays` | the rest of `recurrence_race` |
| `DrawnFromEveryone`, `DrawnIsFinal`, `VotesStandFast`, `NobodyOverbooks` | the action properties of `signup` |
| `HoldersAreIn`, `UsedOnce`, `SessionsLimited`, `ChangedByHolder` | all of `sessions` |
| `RosterTakesPart`, `RosterWasSeen` | all of `guild_war` |

Each rests on an inductive invariant, needed because the properties alone do not say
what a process in the middle of its work may rely on:

- **StorageInv** adds `PlanShape` (a handler about to commit holds the plan of its
  request: for intake and distribution it does not depend on the snapshot),
  `AbsentIsEmpty`, and `EditorSawThePresent`: whatever an editor holds is either
  the item as it is or has a smaller revision. From that, an accepted save saw the present.
- **MediaInv** adds: staged assets are complete; uploads own disjoint assets; what an
  upload has not stored is still to do or in flight; and collectors only hold assets that are
  `deleting` or `gone`. A slow upload cannot stage a collected row,
  because staging requires `uploading`, which a claimed row never is again.
- **OrphanInv**, for uploads that end in time, adds to MediaInv that the rows of an upload with writes
  to come or under way are `uploading` and have not expired (`Kept`), so what it stores has its row;
  and that an asset a collector has deleted under a claim it still holds has no objects
  (`Emptied`), so its row may go. Between a write that stays behind and a
  collector there is nothing but the expiry: `Kept` is what an upload that outlives it breaks.
- **ArchiveInv** adds what a run relies on by program counter (`Sound`): as long as it
  owns its archive it has all items in hand, and before `Finalize` its file is
  the one in the store. The count check and `Cardinality(items) <= count` exclude that an erased
  entry is in a digest (`OwnerHasAll`).
- **LeaseInv** says of a run with the token in the row that the cursor is the one it has seen
  (`HoldersHaveSeen`); that a live lease has its run (`LiveIsHeld`); and that a running status has a
  run that will report (`SomeoneReports`), unless one was cut short.
- **RecurrenceInv** adds the types of templates and events and `WorkSound`: what a run has read of a
  template has a revision no later than the present one and, if it is the present one, is the
  template (`ReadSound`); an event it found there is there yet, or destroyed, unless the template is gone
  (`KnownSound`). The guard on `updated_at` then carries each property over for the batches it lets through;
  of one it refuses, `Strays` says what it may still do (`OvertakenStrays`).
- **SignupInv** adds that a drawn raffle is locked unless `collided`, and `Sound`: while the row is as a request read
  it, the event exists and is not archived, the pool of a draw is the participants and an edit of
  the options has found no votes. "Not archived" is needed because the archive job may write an
  `updated_at` that makes an overtaken request current again.
- **AuthInv** adds what is known under each revision: a request that holds the present revision
  knows the present password (`Knows`), a login with a temporary one knows it as long as it is unused or
  was the one to use it (`LetIn`, `KnowsTemp`), and sessions are finite, so that trimming bounds them.
- **WarInv** adds `OneHeld` (one war belongs to the event) and `SeenSound`: a request whose version is the
  war's present one has seen its roster.

The refinement proof of StockBook shows that `CommitStock` is a `Book` step, since the delta it
commits is `After - stock` for each named item, and every other step a stutter. That
of JobLease maps the variables to themselves: `Select` and `Finish` are a `Batch`, `LookUp`, `Materialize` and
everything staff do are stutters, and so a fault of a batch is a fault of the lease.

In that of MediaShelf, MediaInv makes the place of an asset a function of its row (`PlacesByRow`), so only steps
that change rows show: `Reserve`, `MarkStaged` (`Put`), the batches of references (`Refer`), and
`MarkDeleting` or `ClaimGarbage` for rows that were not `deleting` yet (`Lose`).
In that of AuditLog, `Finalize` is the `Export` if it succeeds, `Expire` the end of the year, and `DeleteObject` or `DeleteFails` the
`Retire` if it deletes the file; every other step is a stutter. ArchiveInv is what makes it
one: a late or repeated write finds an archive before its year's end and, if finished, its own file.

In that of EventSeries, a `Materialize` that writes is a `Generate`: the guard on `updated_at` and `ReadSound` make what
the run read the template itself (`AsRead`), so what it planned is what is upcoming there (`PlannedIsUpcoming`,
which is where the two ways to limit a batch are shown equal), `KnownSound` gives each day it leaves out an event, and
`NotAhead` makes its time one that has come. A `Materialize` that is refused and makes events all the same is a `Repeat`: it
planned them at a time that has come, and `Overtaken` asks for a count that includes as many. Staff steps map to their own; an update that keeps the rule
shows nothing. That the lease admits one run at a time is not used: it spares work and is no part of the guarantee.

`BalanceTheorem` needs induction over the batches, and the library's induction theorems
cannot be instantiated here. A sum is defined by a recursive function (`RunningSum`), and each fact about
sums is proved by the least counterexample: the lengths at which it fails are a set of naturals,
which has a least member (`LeastNatural`, from `WFMin`), and the step refutes that one. `SumAppend` then
gives the new sum when a batch is added, and the batch adds to the balance what it adds to the sum.

The type invariants of MediaLifecycle, AuditArchive and Recurrence are proved and in no run, which check
the refinements in their place.

Only model-checked: the liveness properties `NothingLingers`, `EveryEntryArchived`, `EveryEventMade` and
`RaffleIsDrawn`, since liveness under fairness is out of reach of the prover.

## 12. A disagreement

`storage_audit` finds that an audit row may state another change than the ledger. For an
adjustment `commitStock` recomputes the delta inside the batch
(`storage-store.ts:841-859`), as the test at `storage-store.test.ts:512` wants, but the
audit event was built from the snapshot (`storage-service.ts:984-990`). If another submission
commits in between, stock 10 is planned to change by 2 and changes by -3, and the
audit log says 2. Balance, ledger and answer are right (`BalanceIsLedgerSum`, `AnswerIsWhatWasBooked`).

## 13. Observations

What the models made plain of the code, where no document promises otherwise:

- *Jobs.* An attempt that finds the lease held may overwrite the `completed` row of a run that
  ended in between: only `running` is protected (`admin-operations-store.ts:22`).
- *Templates.* Resuming works on a template that is not paused, and moves its cursor to yesterday: events
  that were destroyed since come back if their day is today or later. `StaysDestroyed` excepts that.
- *Events.* Of two requests that write the same `updated_at`, the refused one is answered CONFLICT and its later
  statements are applied (sections 6 and 7). In the models TLC finds: a vote deleted by an edit of the options; a draw from a stale
  pool, without the lock; a participant added to a drawn raffle; an event that staff destroyed made again by
  a second run. The tests of the store say otherwise (`events-store.test.ts`: "rejects stale participant
  additions without creating a participant or audit row", 771; "rejects stale participant removals without
  deleting a participant or auditing", 801; "rejects stale poll votes without replacing votes or auditing", 879; "rejects a stale
  raffle draw before creating draw, winner, or audit rows", 917; "abandons a stale materialization when template metadata
  changes before its CAS", 1237), but all of them give the two requests different values.
- The archive job sets `updated_at` to the time it started
  (`scheduled-job-store.ts:82`), which may be an earlier value: an edit read before a later change is
  applied to the archived event if it had just that value. The votes of an archived poll may go this way.
- Changing the type of a poll always fails: the trigger `event_poll_parent_type_update`
  (`events.invariants.sql:73`) fires before the batch deletes the poll's settings (`events-store.ts:762`).
- A vote compares `end_at` with the start of its request and no trigger asks the clock again, so a slow
  one may be counted after the end. Sign-ups have the trigger. Raffles without participants are never drawn and not archived.
- *Sessions.* `openUserSession` trims to `MAX_SESSIONS_PER_USER` with an offset of one less, and counts the new session:
  ordinary logins leave two where three are named. `consumeTemporaryPassword...` spares its own. With a
  slow login or equal times the new session may be the one trimmed, and the login still succeeds.
- `changeOwnPassword` leaves the columns of a temporary password as they are. A login read before a
  deactivation may insert its session after it; it authorizes nothing while the member is inactive.
- *Guild war.* `activeEtag` (`guild-war-service.ts:788`) names the event and the version, not the war: a board of
  a war since deleted passes If-Match against a new one of the same version. `SavedOnRosterSeen` is
  about what the service read, not about that. `hydrate` reads the row before its members, so a torn read has
  an old version and its write is refused.

## 14. Not modelled, and what is left

Not modelled, with the reason in `PROJECT.json`: components that keep no state between requests
(transport, read models, queries, portal, composition); those whose every operation is one
guarded statement on one row (members, announcements, gallery, site config, notices, wiki
articles apart from their images), where an interleaving has nothing to get between;
formatting and validation. These are most of the lines of the repository, and most of
those are the browser application; the models stand for the parts of the stores and services where order matters.

Inside the modelled components: storages and categories, class quotas and attachments of events,
the arithmetic of recurrence rules, notes and results of wars, wars of several events,
registration, invitations, OAuth, e-mail and roles.

Left, in this order:

1. **RoleManagers**: role assignment, deactivation and permissions under the triggers of
   `auth-triggers.sql:33`: a role manager remains under concurrent demotions.
2. **Invites** and linked identities: invitation counts, OAuth links, single-use e-mail codes, over AuthSessions.
3. **SystemTest**: requests, registration, claims of the cleanup, expiry of a running
   request, before-images; composed with MediaLifecycle for fixtures with images.
   A first property is whether the scheduled recovery gets to every run: `listExpiredRunIds` takes the
   oldest expired one whatever its status (`system-test-store.ts:172`), the job takes one per batch, and
   a run whose before-image was overtaken fails each time, in front of all younger ones.
4. **FilesystemBlobs** (temporary file, link, crash cleanup) as an implementation of the
   `putIfAbsent` store that MediaLifecycle and AuditArchive assume; **RateLimiter**.
5. MediaLifecycle's collector and AuditArchive's run as batches of JobLease, as Recurrence is.
