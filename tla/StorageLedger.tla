---------------------------- MODULE StorageLedger ----------------------------
(***************************************************************************)
(* Guild storage: stock submissions (StorageService.submitStock over       *)
(* SqliteStorageStore) racing with each other and with the item editor.    *)
(*                                                                         *)
(* A request handler is a process that may be preempted at every await: it *)
(* looks its idempotency key up, reads a snapshot, and commits one atomic  *)
(* SQL batch (storage_batches row, ledger rows, balance and revision       *)
(* triggers, audit row).  A handler that dies leaves only what its batch   *)
(* committed; the client may then submit the same key again.               *)
(*                                                                         *)
(* Data abstraction: quantities are integers instead of SQL REALs, and a   *)
(* request's fingerprint is the normalized request itself.                 *)
(***************************************************************************)
EXTENDS Integers, Sequences, FiniteSets

CONSTANTS
  Users, Items, Keys,   \* accounts, item ids, client-chosen idempotency keys
  Handlers, Editors,    \* concurrent stock requests, concurrent item editors
  None,               \* SQL NULL in recipient_user_id
  Policies,             \* self-service settings staff choose from
  Asked,                \* what clients ask for, explored
  MaxQuantity,          \* largest amount a client enters
  MaxDelta,             \* CHECK bound on one ledger row
  Instants,             \* request timestamps; requests may commit out of order
  MaxBatches,           \* bound: number of committed batches explored
  MaxRevision           \* bound: no edit is explored past this revision

Flags == [deposit : BOOLEAN, withdraw : BOOLEAN]

ASSUME StorageAssumption ==
  /\ Policies \subseteq Flags
  /\ None \notin Users \cup Items \cup Keys
  /\ MaxQuantity \in Nat /\ MaxDelta \in Nat /\ MaxQuantity <= MaxDelta
  /\ Instants \subseteq Nat
  /\ MaxBatches \in Nat /\ MaxRevision \in Nat

VARIABLES
  itemState,  \* storage_items row: never inserted, present, or deleted
  flags,      \* allow_member_deposit / allow_member_withdraw
  balance,    \* storage_balances.quantity
  revision,   \* storage_items.updated_at
  batches,    \* storage_batches with their ledger rows and audit row
  handler,    \* one stock request each
  editor      \* one item editor each

vars == <<itemState, flags, balance, revision, batches, handler, editor>>
itemVars == <<itemState, flags, balance, revision>>

------------------------------------------------------------------------------
Types == {"intake", "distribute", "adjust"}

\* What a request asks of each item: an amount, or for an adjustment the target
\* quantity.  NoLine stands for the items it does not name.
NoLine == -1
Request == [type : Types, lines : [Items -> {NoLine} \cup 0..MaxQuantity],
            to : Users \cup {None}]
ASSUME AskedAssumption == Asked \subseteq Request

Named(req) == {i \in Items : req.lines[i] # NoLine}

\* Change per item; zero for the items that get no ledger row.
Deltas == [Items -> Int]
NoDelta == [i \in Items |-> 0]

Batch == [actor : Users, key : Keys, mode : {"stock_admin", "member_self"},
          req : Request, delta : Deltas, audited : Deltas]

NoRequest == [type |-> "adjust", lines |-> [i \in Items |-> NoLine], to |-> None]
Idle == [pc |-> "idle", actor |-> None, key |-> None, manager |-> FALSE,
         req |-> NoRequest, at |-> 0, plan |-> NoDelta,
         reply |-> "none", answer |-> NoDelta]
Shut == [deposit |-> FALSE, withdraw |-> FALSE]
Closed == [pc |-> "closed", item |-> None, seen |-> 0, seenFlags |-> Shut,
           seenBalance |-> 0, newFlags |-> Shut, at |-> 0]

Later(a, b) == IF a >= b THEN a ELSE b
Magnitude(d) == IF d < 0 THEN -d ELSE d

Init ==
  /\ itemState = [i \in Items |-> "absent"]
  /\ flags = [i \in Items |-> Shut]
  /\ balance = [i \in Items |-> 0]
  /\ revision = [i \in Items |-> 0]
  /\ batches = <<>>
  /\ handler = [h \in Handlers |-> Idle]
  /\ editor = [e \in Editors |-> Closed]

------------------------------------------------------------------------------
\* Stock submission.

\* The checks made before anything is read, and the recipient a request ends
\* up with; None stands for an absent recipient.
Allowed(actor, manager, req) ==
  /\ ~manager => req.to \in {None, actor} /\ req.type # "adjust"
  /\ manager /\ req.type = "distribute" => req.to # None
  /\ Named(req) # {}
  /\ req.type = "adjust" => Cardinality(Named(req)) = 1
  /\ req.type # "adjust" => \A i \in Named(req) : req.lines[i] > 0

AskedRecipient(actor, manager, req) ==  \* mutant: take the recipient as sent
  IF ~manager THEN actor ELSE req.to
Recipient(actor, manager, req) ==
  IF ~manager THEN actor ELSE IF req.type = "adjust" THEN None ELSE req.to

\* The change a request makes to an item whose quantity is q.
LineDelta(req, i, q) ==
  CASE req.type = "adjust"     -> req.lines[i] - q
    [] req.type = "intake"     -> req.lines[i]
    [] req.type = "distribute" -> -req.lines[i]

RequestDelta(req) ==
  [i \in Items |-> IF i \in Named(req) THEN LineDelta(req, i, balance[i]) ELSE 0]

SelfServiceOpen(type, i) ==
  \/ type = "intake" /\ flags[i].deposit
  \/ type = "distribute" /\ flags[i].withdraw

\* Rows of storage_batches with this actor and key.
Booked(actor, key) ==
  {n \in DOMAIN batches : batches[n].actor = actor /\ batches[n].key = key}

KeyFreeAlways(h) == TRUE  \* mutant: no unique index on the key
KeyFree(h) == Booked(handler[h].actor, handler[h].key) = {}

\* The request is answered: with the booked deltas, or with an error.
Succeed(h, reply, answer) ==
  handler' = [handler EXCEPT ![h] =
    [Idle EXCEPT !.pc = "done", !.actor = handler[h].actor, !.key = handler[h].key,
       !.req = handler[h].req, !.reply = reply, !.answer = answer]]

Refuse(h, reply) ==
  handler' = [handler EXCEPT ![h] = [Idle EXCEPT !.pc = "done", !.reply = reply]]

Received(actor, key, manager, req, at) ==
  [Idle EXCEPT !.pc = "lookup", !.actor = actor, !.key = key, !.manager = manager,
     !.req = [req EXCEPT !.to = Recipient(actor, manager, req)], !.at = at]

Submit(h) ==
  /\ handler[h].pc = "idle"
  /\ \E actor \in Users, key \in Keys, manager \in BOOLEAN, req \in Asked, at \in Instants :
       /\ Allowed(actor, manager, req)
       /\ handler' = [handler EXCEPT ![h] = Received(actor, key, manager, req, at)]
  /\ UNCHANGED <<itemVars, batches, editor>>

\* Answer from the batch already stored under the key: the stored rows when the
\* request is the same, a conflict when the key was used for another request.
Replay(h) ==
  \E n \in Booked(handler[h].actor, handler[h].key) :
    IF batches[n].req = handler[h].req
      THEN Succeed(h, "replayed", batches[n].delta)
      ELSE Refuse(h, "key_conflict")

LookUp(h) ==
  /\ handler[h].pc = "lookup"
  /\ IF KeyFree(h)
       THEN handler' = [handler EXCEPT ![h].pc = "snapshot"]
       ELSE Replay(h)
  /\ UNCHANGED <<itemVars, batches, editor>>

\* The snapshot is one SELECT; the deltas planned from it feed the audit event.
SnapshotOk(h) ==
  LET req == handler[h].req IN
  \A i \in Named(req) :
    /\ itemState[i] = "live"
    /\ ~handler[h].manager => SelfServiceOpen(req.type, i)
    /\ balance[i] + LineDelta(req, i, balance[i]) >= 0

ReadSnapshot(h) ==
  /\ handler[h].pc = "snapshot"
  /\ IF SnapshotOk(h)
       THEN handler' = [handler EXCEPT ![h].pc = "commit",
                          ![h].plan = RequestDelta(handler[h].req)]
       ELSE Refuse(h, "rejected")
  /\ UNCHANGED <<itemVars, batches, editor>>

\* What the batch inserts: an adjustment's delta is recomputed by the INSERT
\* from the current balance, the others are the planned ones.
PlannedDelta(h) == handler[h].plan  \* mutant: adjust by the delta planned earlier
CommittedDelta(h) ==
  IF handler[h].req.type = "adjust"
    THEN RequestDelta(handler[h].req)
    ELSE handler[h].plan

\* storage_ledger_validate_insert and the CHECKs of the ledger and balance rows.
NoPermissionCheck(h, i) == TRUE  \* mutant: trust the check made on the snapshot
PermittedNow(h, i) ==
  ~handler[h].manager => SelfServiceOpen(handler[h].req.type, i)

NoBalanceCheck(i, d) == TRUE  \* mutant: trust the check made on the snapshot
CoveredNow(i, d) == balance[i] + d >= 0

LedgerAccepts(h) ==
  LET delta == CommittedDelta(h) IN
  \A i \in Named(handler[h].req) :
    /\ itemState[i] = "live"
    /\ PermittedNow(h, i)
    /\ delta[i] # 0
    /\ CoveredNow(i, delta[i])
    /\ Magnitude(delta[i]) <= MaxDelta

\* storage_ledger_apply_balance.
BalanceFromPlan(h) ==  \* mutant: apply the planned delta, book the recomputed one
  [i \in Items |-> balance[i] + handler[h].plan[i]]
BalanceAfter(h) == [i \in Items |-> balance[i] + CommittedDelta(h)[i]]

\* storage_ledger_advance_item_revision, and monotonicTimestamp for edits.
RequestTime(i, at) == at  \* mutant: stamp the row with the request's own time
AdvancedRevision(i, at) == Later(at, revision[i] + 1)

\* The deltas commitStock returns: RETURNING for an adjustment, else the plan.
ReportedPlan(h) == handler[h].plan  \* mutant: answer with the planned deltas
ReportedDelta(h) == CommittedDelta(h)

\* commitStock succeeds: batch, ledger rows, balances, revisions and the audit
\* row, all or nothing.
CommitStock(h) ==
  /\ handler[h].pc = "commit"
  /\ Len(batches) < MaxBatches
  /\ KeyFree(h)
  /\ LedgerAccepts(h)
  /\ batches' = Append(batches,
       [actor |-> handler[h].actor, key |-> handler[h].key,
        mode |-> IF handler[h].manager THEN "stock_admin" ELSE "member_self",
        req |-> handler[h].req, delta |-> CommittedDelta(h),
        audited |-> handler[h].plan])
  /\ balance' = BalanceAfter(h)
  /\ revision' = [i \in Items |->
       IF i \in Named(handler[h].req)
         THEN AdvancedRevision(i, handler[h].at) ELSE revision[i]]
  /\ Succeed(h, "committed", ReportedDelta(h))
  /\ UNCHANGED <<itemState, flags, editor>>

\* The unique index on (actor_id, idempotency_key) aborted the batch.
CommitDuplicate(h) ==
  /\ handler[h].pc = "commit"
  /\ ~KeyFree(h)
  /\ handler' = [handler EXCEPT ![h].pc = "recheck"]
  /\ UNCHANGED <<itemVars, batches, editor>>

\* A trigger or CHECK aborted the batch; every such error is reported.
CommitRejected(h) ==
  /\ handler[h].pc = "commit"
  /\ KeyFree(h)
  /\ ~LedgerAccepts(h)
  /\ Refuse(h, "rejected")
  /\ UNCHANGED <<itemVars, batches, editor>>

Recheck(h) ==
  /\ handler[h].pc = "recheck"
  /\ IF KeyFree(h) THEN Refuse(h, "rejected") ELSE Replay(h)
  /\ UNCHANGED <<itemVars, batches, editor>>

\* The response is delivered or lost, or the runtime dropped the request: either
\* way the client is free to submit again, with the same key or another one.
Leave(h) ==
  /\ handler[h].pc # "idle"
  /\ handler' = [handler EXCEPT ![h] = Idle]
  /\ UNCHANGED <<itemVars, batches, editor>>

StockStep(h) ==
  \/ LookUp(h) \/ ReadSnapshot(h) \/ CommitStock(h)
  \/ CommitDuplicate(h) \/ CommitRejected(h) \/ Recheck(h)

------------------------------------------------------------------------------
\* Items and the item editor.

CreateItem(i) ==
  /\ itemState[i] = "absent"
  /\ itemState' = [itemState EXCEPT ![i] = "live"]
  /\ \E f \in Policies, at \in Instants :
       /\ flags' = [flags EXCEPT ![i] = f]
       /\ revision' = [revision EXCEPT ![i] = at]
  /\ balance' = [balance EXCEPT ![i] = 0]
  /\ UNCHANGED <<batches, handler, editor>>

\* The staff member opens the editor: the page shows the item as it is now.
OpenEditor(e) ==
  /\ editor[e].pc = "closed"
  /\ \E i \in Items :
       /\ itemState[i] = "live"
       /\ editor' = [editor EXCEPT ![e] =
            [Closed EXCEPT !.pc = "open", !.item = i, !.seen = revision[i],
               !.seenFlags = flags[i], !.seenBalance = balance[i]]]
  /\ UNCHANGED <<itemVars, batches, handler>>

Unchanged(e) ==
  /\ itemState[editor[e].item] = "live"
  /\ revision[editor[e].item] = editor[e].seen

NeverBooked(i) == FALSE  \* mutant: deletion does not look for ledger rows
HasLedger(i) == \E n \in DOMAIN batches : i \in Named(batches[n].req)

\* updateItem / deleteItem read the row and compare the revision the editor
\* sent; a stale or deleted item ends the request with CONFLICT or NOT_FOUND.
RequestSave(e) ==
  /\ editor[e].pc = "open"
  /\ \E f \in Policies, at \in Instants :
       editor' = [editor EXCEPT ![e] =
         IF Unchanged(e) /\ f # flags[editor[e].item]
           THEN [@ EXCEPT !.pc = "saving", !.newFlags = f, !.at = at]
           ELSE Closed]
  /\ UNCHANGED <<itemVars, batches, handler>>

RequestDelete(e) ==
  /\ editor[e].pc = "open"
  /\ editor' = [editor EXCEPT ![e] =
       IF Unchanged(e) /\ ~HasLedger(editor[e].item)
         THEN [@ EXCEPT !.pc = "deleting"]
         ELSE Closed]
  /\ UNCHANGED <<itemVars, batches, handler>>

\* UPDATE storage_items ... WHERE id = ? AND updated_at = ?
UpdateItem(e) ==
  LET i == editor[e].item IN
  /\ editor[e].pc = "saving"
  /\ revision[i] < MaxRevision
  /\ Unchanged(e)
  /\ flags' = [flags EXCEPT ![i] = editor[e].newFlags]
  /\ revision' = [revision EXCEPT ![i] = AdvancedRevision(i, editor[e].at)]
  /\ editor' = [editor EXCEPT ![e].pc = "saved"]
  /\ UNCHANGED <<itemState, balance, batches, handler>>

\* DELETE ... WHERE updated_at = ? AND NOT EXISTS (ledger rows); the balance
\* row goes with it.
DeleteItem(e) ==
  LET i == editor[e].item IN
  /\ editor[e].pc = "deleting"
  /\ Unchanged(e)
  /\ ~HasLedger(i)
  /\ itemState' = [itemState EXCEPT ![i] = "deleted"]
  /\ editor' = [editor EXCEPT ![e] = Closed]
  /\ UNCHANGED <<flags, balance, revision, batches, handler>>

\* The guarded statement matched no row (CONFLICT), or the editor is left.
CloseEditor(e) ==
  /\ editor[e].pc # "closed"
  /\ editor' = [editor EXCEPT ![e] = Closed]
  /\ UNCHANGED <<itemVars, batches, handler>>

Next ==
  \/ \E h \in Handlers : Submit(h) \/ StockStep(h) \/ Leave(h)
  \/ \E i \in Items : CreateItem(i)
  \/ \E e \in Editors :
       \/ OpenEditor(e) \/ RequestSave(e) \/ RequestDelete(e)
       \/ UpdateItem(e) \/ DeleteItem(e) \/ CloseEditor(e)

Spec == Init /\ [][Next]_vars

------------------------------------------------------------------------------
\* Properties.

HandlerState ==
  [pc : {"idle", "lookup", "snapshot", "commit", "recheck", "done"},
   actor : Users \cup {None}, key : Keys \cup {None}, manager : BOOLEAN,
   req : Request, at : Nat, plan : Deltas,
   reply : {"none", "committed", "replayed", "key_conflict", "rejected"},
   answer : Deltas]

EditorState ==
  [pc : {"closed", "open", "saving", "deleting", "saved"},
   item : Items \cup {None}, seen : Nat, seenFlags : Flags, seenBalance : Int,
   newFlags : Flags, at : Nat]

\* A request in progress has been normalized.
Normalized(s) ==
  /\ s.actor \in Users /\ s.key \in Keys
  /\ s.req.type = "adjust" => s.req.to = None
  /\ ~s.manager => s.req.type # "adjust" /\ s.req.to = s.actor

\* The CHECKs storage_batches_recipient_valid and storage_batches_member_self_valid.
RowValid(b) ==
  /\ b.req.type = "adjust" => b.req.to = None
  /\ b.mode = "member_self" => b.req.type # "adjust" /\ b.req.to = b.actor

\* Every variable has its type, and what is stored meets the table's CHECKs.
TypeOK ==
  /\ itemState \in [Items -> {"absent", "live", "deleted"}]
  /\ flags \in [Items -> Flags]
  /\ balance \in [Items -> Int]
  /\ revision \in [Items -> Nat]
  /\ batches \in Seq(Batch)
  /\ handler \in [Handlers -> HandlerState]
  /\ \A h \in Handlers : handler[h].pc \notin {"idle", "done"} => Normalized(handler[h])
  /\ \A n \in DOMAIN batches : RowValid(batches[n])
  /\ editor \in [Editors -> EditorState]
  /\ \A e \in Editors : editor[e].pc # "closed" => editor[e].item \in Items

\* An item's stored quantity is the sum of its ledger rows: no race between
\* submissions makes the materialized balance drift from the history.
RunningSum(d) ==
  LET sum[n \in 0..Len(d)] == IF n = 0 THEN 0 ELSE sum[n - 1] + d[n] IN sum
SumOf(d) == RunningSum(d)[Len(d)]
Changes(i) == [n \in 1..Len(batches) |-> batches[n].delta[i]]
LedgerTotal(i) == SumOf(Changes(i))
BalanceIsLedgerSum == \A i \in Items : balance[i] = LedgerTotal(i)

\* Two withdrawals that each saw enough stock never take it below zero.
NeverOverdrawn == \A i \in Items : balance[i] >= 0

\* Retries and concurrent duplicates of a submission are booked once.
OneBatchPerKey ==
  \A m, n \in DOMAIN batches :
    batches[m].actor = batches[n].actor /\ batches[m].key = batches[n].key => m = n

\* A success answer, fresh or replayed, reports exactly the deltas of the one
\* batch stored for the caller's own request under its key.
AnswerIsWhatWasBooked ==
  \A h \in Handlers : handler[h].reply \in {"committed", "replayed"} =>
    \E n \in Booked(handler[h].actor, handler[h].key) :
      /\ batches[n].req = handler[h].req
      /\ batches[n].delta = handler[h].answer

\* No item that the ledger refers to is ever deleted, whatever an editor
\* confirmed while the first transaction was on its way.
LedgerKeepsItems ==
  \A n \in DOMAIN batches : \A i \in Named(batches[n].req) : itemState[i] = "live"

\* A member's own submission is booked only while the item is open to it, also
\* when staff closed the item after the submission was checked.
SelfServiceOnlyWhileOpen ==
  [][\A n \in DOMAIN batches' \ DOMAIN batches :
       batches'[n].mode = "member_self" =>
         \A i \in Named(batches'[n].req) : SelfServiceOpen(batches'[n].req.type, i)]_vars

\* An editor's save is accepted only if flags and quantity are still the ones
\* the editor was opened on: revisions never repeat, even at equal timestamps.
SavedOnWhatWasSeen ==
  [][\A e \in Editors : editor[e].pc = "saving" /\ editor'[e].pc = "saved" =>
       /\ flags[editor[e].item] = editor[e].seenFlags
       /\ balance[editor[e].item] = editor[e].seenBalance]_vars

\* The audit row of a batch states the change the ledger made.
AuditMatchesLedger ==
  \A n \in DOMAIN batches : batches[n].audited = batches[n].delta

\* Submissions behave like atomic bookings, each at most once per key.
Book == INSTANCE StockBook
  WITH stock <- balance, booked <- {batches[n] : n \in DOMAIN batches}
RefinesStockBook == Book!Spec
==============================================================================
