-------------------------- MODULE StorageLedgerProofs --------------------------
(***************************************************************************)
(* Theorems about StorageLedger, for every set of accounts, items, keys,   *)
(* handlers and editors and every bound.                                   *)
(***************************************************************************)
EXTENDS StorageLedger, WellFoundedInduction, TLAPS

------------------------------------------------------------------------------
\* Sums of sequences.  RunningSum is recursive, so what it computes is shown by
\* least counterexamples: the least length, or place, where a claim fails is
\* preceded by one where it holds.

LEMMA LeastNatural ==
  ASSUME NEW T, T \subseteq Nat, T # {}
  PROVE  \E x \in T : \A y \in T : x <= y
<1>1. PICK x \in T : \A y \in T : ~(<<y, x>> \in OpToRel(<, Nat))
  BY NatLessThanWellFounded, WFMin, Zenon
<1>2. \A y \in T : ~(y < x)
  BY <1>1, Zenon DEF OpToRel
<1>3. QED BY <1>2

\* f holds the sums of the first n elements of d for every n up to k.
Sums(f, d, k) == f = [n \in 0..k |-> IF n = 0 THEN 0 ELSE f[n - 1] + d[n]]

LEMMA SumsExist ==
  ASSUME NEW d \in Seq(Int)
  PROVE  \E f : Sums(f, d, Len(d))
<1> DEFINE Bad == {n \in 0..Len(d) : ~\E f : Sums(f, d, n)}
<1>1. SUFFICES ASSUME Bad # {} PROVE FALSE
  BY Len(d) \in 0..Len(d)
<1>2. Len(d) \in Nat /\ Bad \subseteq Nat
  OBVIOUS
<1>3. PICK m \in Bad : \A n \in Bad : m <= n
  <2> HIDE DEF Bad
  <2> QED BY <1>1, <1>2, LeastNatural
<1>4. CASE m = 0
  <2>1. Sums([n \in 0..0 |-> 0], d, 0)
    BY DEF Sums
  <2>2. QED BY <1>4, <2>1
<1>5. CASE m > 0
  <2>1. m - 1 \in 0..Len(d) /\ m - 1 \notin Bad
    BY <1>2, <1>3, <1>5
  <2>2. PICK f : Sums(f, d, m - 1)
    BY <2>1
  <2> DEFINE g == [n \in 0..m |-> IF n = m THEN f[m - 1] + d[m] ELSE f[n]]
  <2>3. ASSUME NEW n \in 0..m PROVE g[n] = IF n = 0 THEN 0 ELSE g[n - 1] + d[n]
    BY <1>5, <2>2 DEF Sums
  <2>4. Sums(g, d, m)
    BY <2>3 DEF Sums
  <2>5. QED BY <2>4
<1>6. QED BY <1>4, <1>5

\* The sums of two sequences agree as far as the sequences do.
LEMMA SumsAgree ==
  ASSUME NEW k \in Nat, NEW j \in Nat, k <= j, NEW d, NEW e, NEW f, NEW g,
         Sums(f, d, k), Sums(g, e, j), \A n \in 1..k : d[n] = e[n]
  PROVE  f[k] = g[k]
<1> DEFINE Bad == {n \in 0..k : f[n] # g[n]}
<1>1. SUFFICES ASSUME Bad # {} PROVE FALSE
  OBVIOUS
<1>2. Bad \subseteq Nat
  OBVIOUS
<1>3. PICK m \in Bad : \A n \in Bad : m <= n
  <2> HIDE DEF Bad
  <2> QED BY <1>1, <1>2, LeastNatural
<1>4. m # 0
  BY <1>3 DEF Sums
<1>5. m - 1 \in 0..k /\ f[m - 1] = g[m - 1]
  BY <1>3, <1>4
<1>6. f[m] = f[m - 1] + d[m] /\ g[m] = g[m - 1] + e[m]
  BY <1>3, <1>4 DEF Sums
<1>7. QED BY <1>3, <1>4, <1>5, <1>6

LEMMA RunningSumDef ==
  ASSUME NEW d \in Seq(Int)
  PROVE  Sums(RunningSum(d), d, Len(d))
<1>1. PICK f : Sums(f, d, Len(d))
  BY SumsExist
<1>2. RunningSum(d) = CHOOSE s : Sums(s, d, Len(d))
  BY DEF RunningSum, Sums
<1>3. QED BY <1>1, <1>2, Zenon

LEMMA SumEmpty == SumOf(<<>>) = 0
<1>1. Sums(RunningSum(<<>>), <<>>, 0)
  BY <<>> \in Seq(Int), Len(<<>>) = 0, RunningSumDef
<1>2. QED BY <1>1 DEF SumOf, Sums

LEMMA SumAppend ==
  ASSUME NEW d \in Seq(Int), NEW x \in Int
  PROVE  SumOf(Append(d, x)) = SumOf(d) + x
<1> DEFINE e == Append(d, x)
           k == Len(d)
           f == RunningSum(d)
           g == RunningSum(e)
<1>1. /\ e \in Seq(Int) /\ k \in Nat /\ Len(e) = k + 1
      /\ e[k + 1] = x /\ \A n \in 1..k : d[n] = e[n]
  OBVIOUS
<1> HIDE DEF e
<1>2. Sums(f, d, k) /\ Sums(g, e, k + 1)
  BY <1>1, RunningSumDef
<1> HIDE DEF f, g, k
<1>3. f[k] = g[k]
  BY <1>1, <1>2, SumsAgree
<1>4. g[k + 1] = g[k] + e[k + 1]
  BY <1>1, <1>2 DEF Sums
<1>5. QED BY <1>1, <1>3, <1>4 DEF SumOf, e, f, g, k

------------------------------------------------------------------------------
\* Type correctness.

LEMMA DeltaTypes ==
  ASSUME TypeOK, NEW h \in Handlers
  PROVE  /\ RequestDelta(handler[h].req) \in Deltas
         /\ CommittedDelta(h) \in Deltas
<1>1. handler[h] \in HandlerState
  BY DEF TypeOK
<1>2. handler[h].req \in Request /\ handler[h].plan \in Deltas
  BY <1>1 DEF HandlerState
<1>3. ASSUME NEW i \in Items
      PROVE  LineDelta(handler[h].req, i, balance[i]) \in Int
  <2>1. handler[h].req.type \in Types /\ handler[h].req.lines[i] \in Int /\ balance[i] \in Int
    BY <1>2, StorageAssumption DEF Request, NoLine, TypeOK
  <2>2. QED BY <2>1 DEF LineDelta, Types
<1>4. RequestDelta(handler[h].req) \in Deltas
  BY <1>3 DEF RequestDelta, Deltas
<1>5. QED BY <1>2, <1>4 DEF CommittedDelta

LEMMA IdleType == Idle \in HandlerState
<1>1. NoRequest \in Request
  BY DEF NoRequest, Request, Types, NoLine
<1>2. NoDelta \in Deltas
  BY DEF NoDelta, Deltas
<1>3. QED BY <1>1, <1>2 DEF Idle, HandlerState

\* The records a handler can become, field by field.
LEMMA DoneType ==
  ASSUME NEW s \in HandlerState, NEW r \in {"key_conflict", "rejected", "committed", "replayed"},
         NEW a \in Deltas
  PROVE  /\ [Idle EXCEPT !.pc = "done", !.reply = r] \in HandlerState
         /\ [Idle EXCEPT !.pc = "done", !.actor = s.actor, !.key = s.key,
              !.req = s.req, !.reply = r, !.answer = a] \in HandlerState
BY IdleType DEF HandlerState

LEMMA AnswerType ==
  ASSUME TypeOK, NEW h \in Handlers
  PROVE  /\ Replay(h) => \E s \in HandlerState :
              s.pc = "done" /\ handler' = [handler EXCEPT ![h] = s]
         /\ \A r \in {"key_conflict", "rejected"} : Refuse(h, r) =>
              \E s \in HandlerState : s.pc = "done" /\ handler' = [handler EXCEPT ![h] = s]
         /\ \A r \in {"committed", "replayed"}, a \in Deltas : Succeed(h, r, a) =>
              \E s \in HandlerState : s.pc = "done" /\ handler' = [handler EXCEPT ![h] = s]
<1>1. handler[h] \in HandlerState
  BY DEF TypeOK
<1>2. ASSUME NEW r \in {"key_conflict", "rejected"}, Refuse(h, r)
      PROVE  \E s \in HandlerState : s.pc = "done" /\ handler' = [handler EXCEPT ![h] = s]
  <2>1. [Idle EXCEPT !.pc = "done", !.reply = r] \in HandlerState
    BY <1>1, NoDelta \in Deltas, DoneType DEF NoDelta, Deltas
  <2>2. [Idle EXCEPT !.pc = "done", !.reply = r].pc = "done"
    BY DEF Idle
  <2>3. QED BY <1>2, <2>1, <2>2 DEF Refuse
<1>3. ASSUME NEW r \in {"committed", "replayed"}, NEW a \in Deltas, Succeed(h, r, a)
      PROVE  \E s \in HandlerState : s.pc = "done" /\ handler' = [handler EXCEPT ![h] = s]
  <2> DEFINE t == [Idle EXCEPT !.pc = "done", !.actor = handler[h].actor,
                     !.key = handler[h].key, !.req = handler[h].req,
                     !.reply = r, !.answer = a]
  <2>1. t \in HandlerState
    BY <1>1, DoneType
  <2>2. t.pc = "done"
    BY DEF Idle
  <2>3. handler' = [handler EXCEPT ![h] = t]
    BY <1>3 DEF Succeed
  <2> QED BY <2>1, <2>2, <2>3
<1>4. ASSUME Replay(h)
      PROVE  \E s \in HandlerState : s.pc = "done" /\ handler' = [handler EXCEPT ![h] = s]
  <2>1. PICK n \in DOMAIN batches : \/ Succeed(h, "replayed", batches[n].delta)
                                    \/ Refuse(h, "key_conflict")
    BY <1>4, NoDelta \in Deltas DEF Replay, Booked, NoDelta, Deltas
  <2>2. batches[n] \in Batch
    BY DEF TypeOK
  <2>3. batches[n].delta \in Deltas
    BY <2>2 DEF Batch
  <2>4. QED BY <1>2, <1>3, <2>1, <2>3
<1>5. QED BY <1>2, <1>3, <1>4

\* A step of handler h that leaves it in state s.
LEMMA HandlerType ==
  ASSUME TypeOK, NEW h \in Handlers, NEW s \in HandlerState,
         s.pc \notin {"idle", "done"} => Normalized(s),
         handler' = [handler EXCEPT ![h] = s]
  PROVE  /\ handler' \in [Handlers -> HandlerState]
         /\ \A g \in Handlers : handler'[g].pc \notin {"idle", "done"} =>
              Normalized(handler'[g])
BY DEF TypeOK

LEMMA EditorType ==
  ASSUME TypeOK, NEW e \in Editors, NEW s \in EditorState,
         s.pc # "closed" => s.item \in Items,
         editor' = [editor EXCEPT ![e] = s]
  PROVE  /\ editor' \in [Editors -> EditorState]
         /\ \A f \in Editors : editor'[f].pc # "closed" => editor'[f].item \in Items
BY DEF TypeOK

LEMMA TypeStep == TypeOK /\ [Next]_vars => TypeOK'
<1> SUFFICES ASSUME TypeOK, [Next]_vars PROVE TypeOK'
  OBVIOUS
<1> USE DEF itemVars
<1> DEFINE HandlerOK ==
      /\ handler' \in [Handlers -> HandlerState]
      /\ \A g \in Handlers : handler'[g].pc \notin {"idle", "done"} =>
           Normalized(handler'[g])
<1>1. ASSUME NEW h \in Handlers, Submit(h) PROVE TypeOK'
  <2>1. PICK actor \in Users, key \in Keys, manager \in BOOLEAN, req \in Asked, at \in Instants :
          /\ Allowed(actor, manager, req)
          /\ handler' = [handler EXCEPT ![h] = Received(actor, key, manager, req, at)]
    BY <1>1 DEF Submit
  <2> DEFINE asked == [req EXCEPT !.to = Recipient(actor, manager, req)]
             s == Received(actor, key, manager, req, at)
  <2>2. /\ asked \in Request /\ asked.type = req.type
        /\ asked.to = Recipient(actor, manager, req)
    BY AskedAssumption DEF Request, Recipient
  <2>3. at \in Nat
    BY StorageAssumption
  <2>4. /\ s \in HandlerState /\ s.actor = actor /\ s.key = key
        /\ s.manager = manager /\ s.req = asked
    BY <2>2, <2>3, IdleType DEF HandlerState, Received
  <2>5. HandlerOK
    <3>1. Normalized(s)
      <4> HIDE DEF s, asked
      <4> QED BY <2>1, <2>2, <2>4 DEF Normalized, Recipient, Allowed
    <3> HIDE DEF s
    <3> QED BY <2>1, <2>4, <3>1, HandlerType DEF s
  <2>6. QED BY <1>1, <2>5 DEF Submit, TypeOK
<1>2. ASSUME NEW h \in Handlers, LookUp(h) PROVE TypeOK'
  <2>1. HandlerOK
    <3>1. CASE KeyFree(h)
      <4> DEFINE s == [handler[h] EXCEPT !.pc = "snapshot"]
      <4>1. s \in HandlerState /\ Normalized(s)
        BY <1>2 DEF LookUp, TypeOK, HandlerState, Normalized
      <4>2. handler' = [handler EXCEPT ![h] = s]
        BY <1>2, <3>1 DEF LookUp
      <4>3. QED BY <4>1, <4>2, HandlerType
    <3>2. CASE ~KeyFree(h)
      BY <1>2, <3>2, AnswerType, HandlerType DEF LookUp
    <3>3. QED BY <3>1, <3>2
  <2>2. QED BY <1>2, <2>1 DEF LookUp, TypeOK
<1>3. ASSUME NEW h \in Handlers, ReadSnapshot(h) PROVE TypeOK'
  <2>1. HandlerOK
    <3>1. CASE SnapshotOk(h)
      <4> DEFINE s == [handler[h] EXCEPT !.pc = "commit", !.plan = RequestDelta(handler[h].req)]
      <4>1. s \in HandlerState /\ Normalized(s)
        BY <1>3, DeltaTypes DEF ReadSnapshot, TypeOK, HandlerState, Normalized
      <4>2. handler' = [handler EXCEPT ![h] = s]
        BY <1>3, <3>1 DEF ReadSnapshot
      <4>3. QED BY <4>1, <4>2, HandlerType
    <3>2. CASE ~SnapshotOk(h)
      BY <1>3, <3>2, AnswerType, HandlerType DEF ReadSnapshot
    <3>3. QED BY <3>1, <3>2
  <2>2. QED BY <1>3, <2>1 DEF ReadSnapshot, TypeOK
<1>4. ASSUME NEW h \in Handlers, CommitStock(h) PROVE TypeOK'
  <2>1. handler[h] \in HandlerState /\ CommittedDelta(h) \in Deltas
    BY DeltaTypes DEF TypeOK
  <2>2. HandlerOK
    BY <1>4, <2>1, AnswerType, HandlerType DEF CommitStock, ReportedDelta
  <2>3. batches' \in Seq(Batch) /\ \A n \in DOMAIN batches' : RowValid(batches'[n])
    <3> DEFINE b == [actor |-> handler[h].actor, key |-> handler[h].key,
                     mode |-> IF handler[h].manager THEN "stock_admin" ELSE "member_self",
                     req |-> handler[h].req, delta |-> CommittedDelta(h),
                     audited |-> handler[h].plan]
    <3>1. b \in Batch
      BY <1>4, <2>1 DEF CommitStock, TypeOK, Batch, HandlerState, Normalized
    <3>2. RowValid(b)
      BY <1>4, <2>1 DEF CommitStock, TypeOK, HandlerState, Normalized, RowValid
    <3>3. batches' = Append(batches, b)
      BY <1>4 DEF CommitStock
    <3> HIDE DEF b
    <3>4. QED BY <3>1, <3>2, <3>3 DEF TypeOK
  <2>4. balance' \in [Items -> Int]
    BY <1>4, <2>1 DEF CommitStock, BalanceAfter, TypeOK, Deltas
  <2>5. revision' \in [Items -> Nat]
    BY <1>4, <2>1 DEF CommitStock, AdvancedRevision, Later, TypeOK, HandlerState
  <2>6. QED BY <1>4, <2>2, <2>3, <2>4, <2>5 DEF CommitStock, TypeOK
<1>5. ASSUME NEW h \in Handlers, CommitDuplicate(h) PROVE TypeOK'
  <2> DEFINE s == [handler[h] EXCEPT !.pc = "recheck"]
  <2>1. s \in HandlerState /\ Normalized(s)
    BY <1>5 DEF CommitDuplicate, TypeOK, HandlerState, Normalized
  <2>2. handler' = [handler EXCEPT ![h] = s]
    BY <1>5 DEF CommitDuplicate
  <2>3. HandlerOK
    BY <2>1, <2>2, HandlerType
  <2>4. QED BY <1>5, <2>3 DEF CommitDuplicate, TypeOK
<1>6. ASSUME NEW h \in Handlers, CommitRejected(h) PROVE TypeOK'
  <2>1. HandlerOK
    BY <1>6, AnswerType, HandlerType DEF CommitRejected
  <2>2. QED BY <1>6, <2>1 DEF CommitRejected, TypeOK
<1>7. ASSUME NEW h \in Handlers, Recheck(h) PROVE TypeOK'
  <2>1. HandlerOK
    BY <1>7, AnswerType, HandlerType DEF Recheck
  <2>2. QED BY <1>7, <2>1 DEF Recheck, TypeOK
<1>8. ASSUME NEW h \in Handlers, Leave(h) PROVE TypeOK'
  <2>1. Idle.pc = "idle"
    BY DEF Idle
  <2>2. HandlerOK
    BY <1>8, <2>1, IdleType, HandlerType DEF Leave
  <2>3. QED BY <1>8, <2>2 DEF Leave, TypeOK
<1>9. ASSUME NEW i \in Items, CreateItem(i) PROVE TypeOK'
  BY <1>9, StorageAssumption DEF CreateItem, TypeOK
<1>10. ASSUME NEW e \in Editors,
              OpenEditor(e) \/ RequestSave(e) \/ RequestDelete(e) \/ CloseEditor(e)
       PROVE  TypeOK'
  <2> DEFINE EditorOK ==
        /\ editor' \in [Editors -> EditorState]
        /\ \A f \in Editors : editor'[f].pc # "closed" => editor'[f].item \in Items
  <2>1. Closed \in EditorState /\ Closed.pc = "closed"
    BY DEF Closed, EditorState, Shut, Flags
  <2>2. CASE OpenEditor(e)
    <3>1. PICK i \in Items : editor' = [editor EXCEPT ![e] =
            [Closed EXCEPT !.pc = "open", !.item = i, !.seen = revision[i],
               !.seenFlags = flags[i], !.seenBalance = balance[i]]]
      BY <2>2 DEF OpenEditor
    <3> DEFINE s == [Closed EXCEPT !.pc = "open", !.item = i, !.seen = revision[i],
                       !.seenFlags = flags[i], !.seenBalance = balance[i]]
    <3>2. s \in EditorState /\ s.item \in Items
      BY <2>1 DEF EditorState, TypeOK
    <3>3. EditorOK
      <4> HIDE DEF s
      <4> QED BY <3>1, <3>2, EditorType DEF s
    <3>4. QED BY <2>2, <3>3 DEF OpenEditor, TypeOK
  <2>3. CASE RequestSave(e)
    <3>1. PICK f \in Policies, at \in Instants :
            \/ editor' = [editor EXCEPT ![e] = Closed]
            \/ editor' = [editor EXCEPT ![e] =
                 [editor[e] EXCEPT !.pc = "saving", !.newFlags = f, !.at = at]]
      BY <2>3 DEF RequestSave, TypeOK
    <3> DEFINE s == [editor[e] EXCEPT !.pc = "saving", !.newFlags = f, !.at = at]
    <3>2. s \in EditorState /\ s.item \in Items
      BY <2>3, StorageAssumption DEF RequestSave, EditorState, TypeOK
    <3>3. EditorOK
      BY <2>1, <3>1, <3>2, EditorType
    <3>4. QED BY <2>3, <3>3 DEF RequestSave, TypeOK
  <2>4. CASE RequestDelete(e)
    <3>1. \/ editor' = [editor EXCEPT ![e] = Closed]
          \/ editor' = [editor EXCEPT ![e] = [editor[e] EXCEPT !.pc = "deleting"]]
      BY <2>4 DEF RequestDelete, TypeOK
    <3>2. [editor[e] EXCEPT !.pc = "deleting"] \in EditorState /\ editor[e].item \in Items
      BY <2>4 DEF RequestDelete, EditorState, TypeOK
    <3>3. EditorOK
      BY <2>1, <3>1, <3>2, EditorType DEF EditorState
    <3>4. QED BY <2>4, <3>3 DEF RequestDelete, TypeOK
  <2>5. CASE CloseEditor(e)
    BY <2>1, <2>5, EditorType DEF CloseEditor, TypeOK
  <2>6. QED BY <1>10, <2>2, <2>3, <2>4, <2>5
<1>11. ASSUME NEW e \in Editors, UpdateItem(e) PROVE TypeOK'
  <2>1. editor[e] \in EditorState /\ editor[e].item \in Items
    BY <1>11 DEF UpdateItem, TypeOK
  <2> DEFINE s == [editor[e] EXCEPT !.pc = "saved"]
  <2>2. s \in EditorState /\ s.item \in Items
    BY <2>1 DEF EditorState
  <2>3. editor' = [editor EXCEPT ![e] = s]
    BY <1>11 DEF UpdateItem
  <2>4. /\ editor' \in [Editors -> EditorState]
        /\ \A f \in Editors : editor'[f].pc # "closed" => editor'[f].item \in Items
    BY <2>2, <2>3, EditorType
  <2>5. flags' \in [Items -> Flags] /\ revision' \in [Items -> Nat]
    BY <1>11, <2>1 DEF UpdateItem, AdvancedRevision, Later, TypeOK, EditorState
  <2>6. QED BY <1>11, <2>4, <2>5 DEF UpdateItem, TypeOK
<1>12. ASSUME NEW e \in Editors, DeleteItem(e) PROVE TypeOK'
  <2>1. Closed \in EditorState /\ Closed.pc = "closed"
    BY DEF Closed, EditorState, Shut, Flags
  <2>2. /\ editor' \in [Editors -> EditorState]
        /\ \A f \in Editors : editor'[f].pc # "closed" => editor'[f].item \in Items
    BY <1>12, <2>1, EditorType DEF DeleteItem
  <2>3. QED BY <1>12, <2>2 DEF DeleteItem, TypeOK
<1>13. CASE UNCHANGED vars
  BY <1>13 DEF vars, TypeOK
<1>14. QED
  BY <1>1, <1>2, <1>3, <1>4, <1>5, <1>6, <1>7, <1>8, <1>9, <1>10, <1>11, <1>12, <1>13
  DEF Next, StockStep

\* Type correctness of the whole component.
THEOREM TypeCorrect == Spec => []TypeOK
<1>1. Init => TypeOK
  <2>1. Shut \in Flags
    BY DEF Shut, Flags
  <2>2. Closed \in EditorState /\ Closed.pc = "closed" /\ Idle.pc = "idle"
    BY DEF Closed, EditorState, Shut, Flags, Idle
  <2>3. QED BY <2>1, <2>2, IdleType DEF Init, TypeOK
<1>2. QED BY <1>1, TypeStep, PTL DEF Spec

------------------------------------------------------------------------------
\* The inductive invariant.  The four properties the runs check need to know
\* what a planned delta looks like, that an item without a row has no stock,
\* and that an open editor saw the present item or an older revision of it.

PlanShape ==
  \A h \in Handlers : handler[h].pc = "commit" =>
    \A i \in Items :
      /\ i \notin Named(handler[h].req) => handler[h].plan[i] = 0
      /\ i \in Named(handler[h].req) =>
           /\ handler[h].req.type = "intake" => handler[h].plan[i] = handler[h].req.lines[i]
           /\ handler[h].req.type = "distribute" => handler[h].plan[i] = -handler[h].req.lines[i]

AbsentIsEmpty == \A i \in Items : itemState[i] = "absent" => balance[i] = 0

EditorSawThePresent ==
  \A e \in Editors : editor[e].pc \in {"open", "saving"} =>
    LET i == editor[e].item IN
    /\ itemState[i] # "absent"
    /\ editor[e].seen <= revision[i]
    /\ editor[e].seen = revision[i] =>
         flags[i] = editor[e].seenFlags /\ balance[i] = editor[e].seenBalance

StorageInv ==
  /\ TypeOK
  /\ NeverOverdrawn
  /\ OneBatchPerKey
  /\ AnswerIsWhatWasBooked
  /\ LedgerKeepsItems
  /\ PlanShape
  /\ AbsentIsEmpty
  /\ EditorSawThePresent

\* What a commit does to the stored batches and balances.
LEMMA CommitEffect ==
  ASSUME StorageInv, NEW h \in Handlers, CommitStock(h)
  PROVE  /\ CommittedDelta(h) \in Deltas
         /\ \A i \in Items : i \notin Named(handler[h].req) => CommittedDelta(h)[i] = 0
         /\ \A i \in Items : balance'[i] = balance[i] + CommittedDelta(h)[i]
         /\ DOMAIN batches = 1..Len(batches) /\ Len(batches) \in Nat
         /\ DOMAIN batches' = 1..(Len(batches) + 1)
         /\ \A n \in DOMAIN batches : batches'[n] = batches[n]
         /\ batches'[Len(batches) + 1].actor = handler[h].actor
         /\ batches'[Len(batches) + 1].key = handler[h].key
         /\ batches'[Len(batches) + 1].req = handler[h].req
         /\ batches'[Len(batches) + 1].delta = CommittedDelta(h)
<1> USE DEF StorageInv
<1>1. CommittedDelta(h) \in Deltas
  BY DeltaTypes
<1>2. \A i \in Items : i \notin Named(handler[h].req) => CommittedDelta(h)[i] = 0
  BY DEF CommittedDelta, RequestDelta, PlanShape, CommitStock
<1>3. \A i \in Items : balance'[i] = balance[i] + CommittedDelta(h)[i]
  BY DEF CommitStock, BalanceAfter
<1> DEFINE b == [actor |-> handler[h].actor, key |-> handler[h].key,
                 mode |-> IF handler[h].manager THEN "stock_admin" ELSE "member_self",
                 req |-> handler[h].req, delta |-> CommittedDelta(h),
                 audited |-> handler[h].plan]
<1>4. /\ b.actor = handler[h].actor /\ b.key = handler[h].key
      /\ b.req = handler[h].req /\ b.delta = CommittedDelta(h)
  OBVIOUS
<1>5. batches' = Append(batches, b)
  BY DEF CommitStock
<1>6. batches \in Seq(Batch)
  BY DEF TypeOK
<1> HIDE DEF b
<1>7. QED BY <1>1, <1>2, <1>3, <1>4, <1>5, <1>6

\* Steps that book nothing.
LEMMA QuietSteps ==
  [Next]_vars => \/ \E h \in Handlers : CommitStock(h)
                 \/ UNCHANGED batches
BY DEF Next, StockStep, Submit, LookUp, ReadSnapshot, CommitDuplicate, CommitRejected,
   Recheck, Leave, CreateItem, OpenEditor, RequestSave, RequestDelete, UpdateItem,
   DeleteItem, CloseEditor, vars

LEMMA QuietBalance ==
  [Next]_vars => \/ \E h \in Handlers : CommitStock(h)
                 \/ \E i \in Items : CreateItem(i)
                 \/ UNCHANGED balance
BY DEF Next, StockStep, Submit, LookUp, ReadSnapshot, CommitDuplicate, CommitRejected,
   Recheck, Leave, OpenEditor, RequestSave, RequestDelete, UpdateItem,
   DeleteItem, CloseEditor, vars, itemVars

LEMMA QuietHandler ==
  [Next]_vars => \/ \E h \in Handlers : Submit(h) \/ StockStep(h) \/ Leave(h)
                 \/ UNCHANGED handler
BY DEF Next, CreateItem, OpenEditor, RequestSave, RequestDelete, UpdateItem,
   DeleteItem, CloseEditor, vars

LEMMA OverdraftStep == StorageInv /\ [Next]_vars => NeverOverdrawn'
<1> SUFFICES ASSUME StorageInv, [Next]_vars PROVE NeverOverdrawn'
  OBVIOUS
<1>1. balance \in [Items -> Int] /\ \A i \in Items : balance[i] >= 0
  BY DEF StorageInv, NeverOverdrawn, TypeOK
<1>2. ASSUME NEW h \in Handlers, CommitStock(h) PROVE NeverOverdrawn'
  <2>1. ASSUME NEW i \in Items PROVE balance'[i] >= 0
    <3>1. balance'[i] = balance[i] + CommittedDelta(h)[i]
      BY <1>2, CommitEffect
    <3>2. CASE i \in Named(handler[h].req)
      BY <1>2, <3>1, <3>2 DEF CommitStock, LedgerAccepts, CoveredNow
    <3>3. CASE i \notin Named(handler[h].req)
      BY <1>1, <1>2, <3>1, <3>3, CommitEffect
    <3>4. QED BY <3>2, <3>3
  <2>2. QED BY <2>1 DEF NeverOverdrawn
<1>3. ASSUME NEW i \in Items, CreateItem(i) PROVE NeverOverdrawn'
  BY <1>1, <1>3 DEF CreateItem, NeverOverdrawn
<1>4. CASE UNCHANGED balance
  BY <1>1, <1>4 DEF NeverOverdrawn
<1>5. QED BY <1>2, <1>3, <1>4, QuietBalance

LEMMA KeyStep == StorageInv /\ [Next]_vars => OneBatchPerKey'
<1> SUFFICES ASSUME StorageInv, [Next]_vars PROVE OneBatchPerKey'
  OBVIOUS
<1>1. ASSUME NEW h \in Handlers, CommitStock(h) PROVE OneBatchPerKey'
  <2>1. \A n \in DOMAIN batches :
          ~(batches[n].actor = handler[h].actor /\ batches[n].key = handler[h].key)
    BY <1>1 DEF CommitStock, KeyFree, Booked
  <2>2. QED BY <1>1, <2>1, CommitEffect DEF StorageInv, OneBatchPerKey
<1>2. CASE UNCHANGED batches
  BY <1>2 DEF StorageInv, OneBatchPerKey
<1>3. QED BY <1>1, <1>2, QuietSteps

LEMMA ItemStep == StorageInv /\ [Next]_vars => LedgerKeepsItems'
<1> SUFFICES ASSUME StorageInv, [Next]_vars PROVE LedgerKeepsItems'
  OBVIOUS
<1>1. \A n \in DOMAIN batches : Named(batches[n].req) \subseteq Items
  BY DEF Named
<1>2. ASSUME NEW h \in Handlers, CommitStock(h) PROVE LedgerKeepsItems'
  <2>1. \A i \in Named(handler[h].req) : itemState[i] = "live"
    BY <1>2 DEF CommitStock, LedgerAccepts
  <2>2. UNCHANGED itemState
    BY <1>2 DEF CommitStock
  <2>3. QED BY <1>2, <2>1, <2>2, CommitEffect DEF StorageInv, LedgerKeepsItems
<1>3. ASSUME NEW i \in Items, CreateItem(i) PROVE LedgerKeepsItems'
  BY <1>1, <1>3 DEF CreateItem, StorageInv, TypeOK, LedgerKeepsItems
<1>4. ASSUME NEW e \in Editors, DeleteItem(e) PROVE LedgerKeepsItems'
  BY <1>1, <1>4 DEF DeleteItem, HasLedger, StorageInv, TypeOK, LedgerKeepsItems
<1>5. CASE UNCHANGED <<itemState, batches>>
  BY <1>5 DEF StorageInv, LedgerKeepsItems
<1>6. QED
  BY <1>2, <1>3, <1>4, <1>5
  DEF Next, StockStep, Submit, LookUp, ReadSnapshot, CommitDuplicate, CommitRejected,
      Recheck, Leave, OpenEditor, RequestSave, RequestDelete, UpdateItem,
      CloseEditor, vars, itemVars

\* Batches are never changed or removed.
LEMMA BatchesStay ==
  StorageInv /\ [Next]_vars =>
    \A n \in DOMAIN batches : n \in DOMAIN batches' /\ batches'[n] = batches[n]
<1> SUFFICES ASSUME StorageInv, [Next]_vars, NEW n \in DOMAIN batches
             PROVE  n \in DOMAIN batches' /\ batches'[n] = batches[n]
  OBVIOUS
<1>1. ASSUME NEW h \in Handlers, CommitStock(h)
      PROVE  n \in DOMAIN batches' /\ batches'[n] = batches[n]
  BY <1>1, CommitEffect
<1>2. QED BY <1>1, QuietSteps

\* Whatever handler h does, only its own record changes; an answer it gives is
\* in a batch stored under its key.
Answered(s, rows) ==
  s.reply \in {"committed", "replayed"} =>
    \E n \in DOMAIN rows : /\ rows[n].actor = s.actor /\ rows[n].key = s.key
                           /\ rows[n].req = s.req /\ rows[n].delta = s.answer

LEMMA AnswerForm ==
  AnswerIsWhatWasBooked <=> \A h \in Handlers : Answered(handler[h], batches)
BY DEF AnswerIsWhatWasBooked, Answered, Booked

LEMMA ReplayAnswers ==
  ASSUME TypeOK, NEW h \in Handlers, Replay(h)
  PROVE  \E s \in HandlerState : Answered(s, batches) /\ handler' = [handler EXCEPT ![h] = s]
<1>1. PICK n \in DOMAIN batches :
        /\ batches[n].actor = handler[h].actor /\ batches[n].key = handler[h].key
        /\ IF batches[n].req = handler[h].req
             THEN Succeed(h, "replayed", batches[n].delta)
             ELSE Refuse(h, "key_conflict")
  BY DEF Replay, Booked
<1>2. handler[h] \in HandlerState /\ batches[n].delta \in Deltas
  <2>1. handler[h] \in HandlerState /\ batches[n] \in Batch
    BY DEF TypeOK
  <2>2. QED BY <2>1 DEF Batch
<1>3. CASE batches[n].req = handler[h].req
  <2> DEFINE s == [Idle EXCEPT !.pc = "done", !.actor = handler[h].actor,
                     !.key = handler[h].key, !.req = handler[h].req,
                     !.reply = "replayed", !.answer = batches[n].delta]
  <2>1. s \in HandlerState
    BY <1>2, DoneType
  <2>2. s.actor = handler[h].actor /\ s.key = handler[h].key
        /\ s.req = handler[h].req /\ s.answer = batches[n].delta
    BY DEF Idle
  <2>3. handler' = [handler EXCEPT ![h] = s]
    BY <1>1, <1>3 DEF Succeed
  <2> HIDE DEF s
  <2>4. QED BY <1>1, <1>3, <2>1, <2>2, <2>3 DEF Answered
<1>4. CASE batches[n].req # handler[h].req
  <2> DEFINE s == [Idle EXCEPT !.pc = "done", !.reply = "key_conflict"]
  <2>1. s \in HandlerState /\ s.reply = "key_conflict"
    BY NoDelta \in Deltas, <1>2, DoneType DEF NoDelta, Deltas, Idle
  <2>2. handler' = [handler EXCEPT ![h] = s]
    BY <1>1, <1>4 DEF Refuse
  <2> HIDE DEF s
  <2>3. QED BY <2>1, <2>2 DEF Answered
<1>5. QED BY <1>3, <1>4

LEMMA AnswerStep == StorageInv /\ [Next]_vars => AnswerIsWhatWasBooked'
<1> SUFFICES ASSUME StorageInv, [Next]_vars PROVE AnswerIsWhatWasBooked'
  OBVIOUS
<1> DEFINE Goal == \A h \in Handlers : Answered(handler'[h], batches')
<1>1. Goal => AnswerIsWhatWasBooked'
  BY DEF AnswerIsWhatWasBooked, Answered, Booked
<1>2. handler \in [Handlers -> HandlerState]
  BY DEF StorageInv, TypeOK
<1>3. \A h \in Handlers : Answered(handler[h], batches')
  BY BatchesStay, AnswerForm DEF StorageInv, Answered
<1>4. ASSUME NEW h \in Handlers, NEW s, Answered(s, batches'),
             handler' = [handler EXCEPT ![h] = s]
      PROVE  Goal
  BY <1>2, <1>3, <1>4
<1>5. ASSUME NEW h \in Handlers, Submit(h) PROVE Goal
  <2>1. PICK actor \in Users, key \in Keys, manager \in BOOLEAN, req \in Asked, at \in Instants :
          handler' = [handler EXCEPT ![h] = Received(actor, key, manager, req, at)]
    BY <1>5 DEF Submit
  <2>2. Received(actor, key, manager, req, at).reply = "none"
    BY DEF Received, Idle
  <2>3. Answered(Received(actor, key, manager, req, at), batches')
    BY <2>2 DEF Answered
  <2>4. QED BY <1>4, <2>1, <2>3
<1>6. ASSUME NEW h \in Handlers, NEW r \in {"key_conflict", "rejected"}, Refuse(h, r) PROVE Goal
  <2>1. [Idle EXCEPT !.pc = "done", !.reply = r].reply = r
    BY DEF Idle
  <2>2. Answered([Idle EXCEPT !.pc = "done", !.reply = r], batches')
    BY <2>1 DEF Answered
  <2>3. QED BY <1>4, <1>6, <2>2 DEF Refuse
<1>7. ASSUME NEW h \in Handlers, Replay(h), UNCHANGED batches PROVE Goal
  <2>1. PICK s \in HandlerState : Answered(s, batches) /\ handler' = [handler EXCEPT ![h] = s]
    BY <1>7, ReplayAnswers DEF StorageInv
  <2>2. Answered(s, batches')
    BY <1>7, <2>1
  <2>3. QED BY <1>4, <2>1, <2>2
<1>8. ASSUME NEW h \in Handlers, CommitStock(h) PROVE Goal
  <2> DEFINE s == [Idle EXCEPT !.pc = "done", !.actor = handler[h].actor,
                     !.key = handler[h].key, !.req = handler[h].req,
                     !.reply = "committed", !.answer = CommittedDelta(h)]
  <2>1. s.actor = handler[h].actor /\ s.key = handler[h].key
        /\ s.req = handler[h].req /\ s.answer = CommittedDelta(h)
    BY DEF Idle
  <2>2. handler' = [handler EXCEPT ![h] = s]
    BY <1>8 DEF CommitStock, Succeed, ReportedDelta
  <2> HIDE DEF s
  <2>3. Len(batches) + 1 \in DOMAIN batches'
    BY <1>8, CommitEffect
  <2>4. Answered(s, batches')
    BY <1>8, <2>1, <2>3, CommitEffect DEF Answered
  <2>5. QED BY <1>4, <2>2, <2>4
<1>9. ASSUME NEW h \in Handlers, NEW p \in {"snapshot", "recheck"},
             handler' = [handler EXCEPT ![h].pc = p]
      PROVE  Goal
  <2>1. Answered([handler[h] EXCEPT !.pc = p], batches')
    BY <1>2, <1>3 DEF Answered, HandlerState
  <2>2. QED BY <1>4, <1>9, <2>1
<1>10. ASSUME NEW h \in Handlers, ReadSnapshot(h) PROVE Goal
  <2>1. CASE Refuse(h, "rejected")
    BY <1>6, <2>1
  <2>2. CASE handler' = [handler EXCEPT ![h].pc = "commit", ![h].plan = RequestDelta(handler[h].req)]
    <3>1. Answered([handler[h] EXCEPT !.pc = "commit", !.plan = RequestDelta(handler[h].req)], batches')
      BY <1>2, <1>3 DEF Answered, HandlerState
    <3>2. handler' = [handler EXCEPT ![h] =
            [handler[h] EXCEPT !.pc = "commit", !.plan = RequestDelta(handler[h].req)]]
      BY <2>2
    <3>3. QED BY <1>4, <3>1, <3>2
  <2>3. QED BY <1>10, <2>1, <2>2 DEF ReadSnapshot
<1>11. ASSUME NEW h \in Handlers, Leave(h) PROVE Goal
  <2>1. Answered(Idle, batches')
    BY DEF Answered, Idle
  <2>2. QED BY <1>4, <1>11, <2>1 DEF Leave
<1>12. ASSUME UNCHANGED handler PROVE Goal
  BY <1>3, <1>12
<1>13. ASSUME NEW h \in Handlers, StockStep(h) PROVE Goal
  BY <1>6, <1>7, <1>8, <1>9, <1>10, <1>13
  DEF StockStep, LookUp, CommitDuplicate, CommitRejected, Recheck
<1>14. Goal
  BY <1>5, <1>11, <1>12, <1>13, QuietHandler
<1>15. QED BY <1>1, <1>14

\* The parts the four properties need.
LEMMA PlanStep == StorageInv /\ [Next]_vars => PlanShape'
<1> SUFFICES ASSUME StorageInv, [Next]_vars PROVE PlanShape'
  OBVIOUS
<1> DEFINE Shaped(s) == s.pc = "commit" =>
      \A i \in Items :
        /\ i \notin Named(s.req) => s.plan[i] = 0
        /\ i \in Named(s.req) =>
             /\ s.req.type = "intake" => s.plan[i] = s.req.lines[i]
             /\ s.req.type = "distribute" => s.plan[i] = -s.req.lines[i]
<1>1. handler \in [Handlers -> HandlerState] /\ \A h \in Handlers : Shaped(handler[h])
  BY DEF StorageInv, TypeOK, PlanShape
<1>2. ASSUME NEW h \in Handlers, NEW s, Shaped(s), handler' = [handler EXCEPT ![h] = s]
      PROVE  PlanShape'
  BY <1>1, <1>2 DEF PlanShape
<1>3. ASSUME NEW h \in Handlers, NEW s, s.pc # "commit", handler' = [handler EXCEPT ![h] = s]
      PROVE  PlanShape'
  BY <1>2, <1>3
<1>4. ASSUME NEW h \in Handlers, Submit(h) PROVE PlanShape'
  <2>1. PICK actor \in Users, key \in Keys, manager \in BOOLEAN, req \in Asked, at \in Instants :
          handler' = [handler EXCEPT ![h] = Received(actor, key, manager, req, at)]
    BY <1>4 DEF Submit
  <2>2. Received(actor, key, manager, req, at).pc = "lookup"
    BY DEF Received, Idle
  <2>3. QED BY <1>3, <2>1, <2>2
<1>5. ASSUME NEW h \in Handlers, NEW s \in HandlerState, s.pc = "done",
             handler' = [handler EXCEPT ![h] = s]
      PROVE  PlanShape'
  BY <1>3, <1>5
<1>6. ASSUME NEW h \in Handlers, Replay(h) \/ Refuse(h, "rejected") PROVE PlanShape'
  BY <1>5, <1>6, AnswerType DEF StorageInv
<1>7. ASSUME NEW h \in Handlers, CommitStock(h) PROVE PlanShape'
  BY <1>5, <1>7, CommitEffect, AnswerType DEF StorageInv, CommitStock, ReportedDelta
<1>8. ASSUME NEW h \in Handlers, NEW p \in {"snapshot", "recheck"},
             handler' = [handler EXCEPT ![h].pc = p]
      PROVE  PlanShape'
  <2>1. [handler[h] EXCEPT !.pc = p].pc = p
    BY <1>1 DEF HandlerState
  <2>2. QED BY <1>3, <1>8, <2>1
<1>9. ASSUME NEW h \in Handlers, SnapshotOk(h),
             handler' = [handler EXCEPT ![h].pc = "commit",
                           ![h].plan = RequestDelta(handler[h].req)]
      PROVE  PlanShape'
  <2> DEFINE s == [handler[h] EXCEPT !.pc = "commit", !.plan = RequestDelta(handler[h].req)]
  <2>1. s.req = handler[h].req /\ s.plan = RequestDelta(handler[h].req)
    BY <1>1 DEF HandlerState
  <2>2. handler' = [handler EXCEPT ![h] = s]
    BY <1>9
  <2> HIDE DEF s
  <2>3. Shaped(s)
    BY <2>1 DEF RequestDelta, LineDelta
  <2>4. QED BY <1>2, <2>2, <2>3
<1>10. ASSUME NEW h \in Handlers, Leave(h) PROVE PlanShape'
  <2>1. Idle.pc # "commit"
    BY DEF Idle
  <2>2. QED BY <1>3, <1>10, <2>1 DEF Leave
<1>11. CASE UNCHANGED handler
  BY <1>11 DEF StorageInv, PlanShape
<1>12. ASSUME NEW h \in Handlers, StockStep(h) PROVE PlanShape'
  BY <1>6, <1>7, <1>8, <1>9, <1>12
  DEF StockStep, LookUp, ReadSnapshot, CommitDuplicate, CommitRejected, Recheck
<1>13. QED BY <1>4, <1>10, <1>11, <1>12, QuietHandler

LEMMA EmptyStep == StorageInv /\ [Next]_vars => AbsentIsEmpty'
<1> SUFFICES ASSUME StorageInv, [Next]_vars PROVE AbsentIsEmpty'
  OBVIOUS
<1>1. itemState \in [Items -> {"absent", "live", "deleted"}] /\ balance \in [Items -> Int]
  BY DEF StorageInv, TypeOK
<1>2. ASSUME NEW h \in Handlers, CommitStock(h) PROVE AbsentIsEmpty'
  <2>1. UNCHANGED itemState /\ \A i \in Named(handler[h].req) : itemState[i] = "live"
    BY <1>2 DEF CommitStock, LedgerAccepts
  <2>2. QED BY <1>1, <1>2, <2>1, CommitEffect DEF StorageInv, AbsentIsEmpty
<1>3. ASSUME NEW i \in Items, CreateItem(i) PROVE AbsentIsEmpty'
  BY <1>1, <1>3 DEF CreateItem, StorageInv, AbsentIsEmpty
<1>4. ASSUME NEW e \in Editors, DeleteItem(e) PROVE AbsentIsEmpty'
  BY <1>1, <1>4 DEF DeleteItem, StorageInv, TypeOK, AbsentIsEmpty
<1>5. CASE UNCHANGED <<itemState, balance>>
  BY <1>5 DEF StorageInv, AbsentIsEmpty
<1>6. QED
  BY <1>2, <1>3, <1>4, <1>5
  DEF Next, StockStep, Submit, LookUp, ReadSnapshot, CommitDuplicate, CommitRejected,
      Recheck, Leave, OpenEditor, RequestSave, RequestDelete, UpdateItem,
      CloseEditor, vars, itemVars

LEMMA EditorStep == StorageInv /\ [Next]_vars => EditorSawThePresent'
<1> SUFFICES ASSUME StorageInv, [Next]_vars PROVE EditorSawThePresent'
  OBVIOUS
<1> DEFINE Saw(s) == s.pc \in {"open", "saving"} =>
      /\ itemState'[s.item] # "absent"
      /\ s.seen <= revision'[s.item]
      /\ s.seen = revision'[s.item] =>
           flags'[s.item] = s.seenFlags /\ balance'[s.item] = s.seenBalance
<1>1. TypeOK /\ EditorSawThePresent
  BY DEF StorageInv
<1>2. /\ itemState \in [Items -> {"absent", "live", "deleted"}]
      /\ flags \in [Items -> Flags]
      /\ balance \in [Items -> Int]
      /\ revision \in [Items -> Nat]
      /\ editor \in [Editors -> EditorState]
      /\ \A e \in Editors : editor[e].pc # "closed" => editor[e].item \in Items
  BY <1>1 DEF TypeOK
<1>3. ASSUME NEW i \in Items, NEW at \in Nat
      PROVE  AdvancedRevision(i, at) \in Nat /\ AdvancedRevision(i, at) > revision[i]
  BY <1>2 DEF AdvancedRevision, Later
<1>4. ASSUME UNCHANGED editor, \A e \in Editors : Saw(editor[e])
      PROVE  EditorSawThePresent'
  BY <1>4 DEF EditorSawThePresent
<1>5. ASSUME NEW e \in Editors, NEW s, editor' = [editor EXCEPT ![e] = s], Saw(s),
             \A f \in Editors : Saw(editor[f])
      PROVE  EditorSawThePresent'
  BY <1>2, <1>5 DEF EditorSawThePresent
<1>6. ASSUME UNCHANGED itemVars PROVE \A e \in Editors : Saw(editor[e])
  BY <1>1, <1>6 DEF EditorSawThePresent, itemVars
<1>7. ASSUME NEW h \in Handlers, CommitStock(h) PROVE EditorSawThePresent'
  <2>1. UNCHANGED <<itemState, flags, editor>> /\ handler[h].at \in Nat
    BY <1>1, <1>7 DEF CommitStock, TypeOK, HandlerState
  <2>2. ASSUME NEW e \in Editors PROVE Saw(editor[e])
    <3> DEFINE i == editor[e].item
    <3>1. CASE editor[e].pc \notin {"open", "saving"}
      BY <3>1
    <3>2. CASE editor[e].pc \in {"open", "saving"}
      <4>1. /\ i \in Items /\ itemState[i] # "absent" /\ editor[e].seen <= revision[i]
            /\ editor[e].seen \in Nat
            /\ editor[e].seen = revision[i] =>
                 flags[i] = editor[e].seenFlags /\ balance[i] = editor[e].seenBalance
        BY <1>1, <1>2, <3>2 DEF EditorSawThePresent, EditorState
      <4>2. CASE i \in Named(handler[h].req)
        <5>1. revision'[i] > revision[i] /\ revision'[i] \in Nat
          BY <1>3, <1>7, <2>1, <4>1, <4>2 DEF CommitStock
        <5>2. editor[e].seen < revision'[i]
          BY <1>2, <4>1, <5>1
        <5>3. QED BY <2>1, <4>1, <5>1, <5>2
      <4>3. CASE i \notin Named(handler[h].req)
        <5>1. revision'[i] = revision[i]
          BY <1>7, <4>1, <4>3 DEF CommitStock
        <5>2. balance'[i] = balance[i]
          BY <1>2, <1>7, <4>1, <4>3, CommitEffect
        <5>3. QED BY <2>1, <4>1, <5>1, <5>2
      <4>4. QED BY <4>2, <4>3
    <3>3. QED BY <3>1, <3>2
  <2>3. QED BY <1>4, <2>1, <2>2
<1>8. ASSUME NEW j \in Items, CreateItem(j) PROVE EditorSawThePresent'
  <2>1. ASSUME NEW e \in Editors PROVE Saw(editor[e])
    <3> DEFINE i == editor[e].item
    <3>1. CASE editor[e].pc \notin {"open", "saving"}
      BY <3>1
    <3>2. CASE editor[e].pc \in {"open", "saving"}
      <4>1. i \in Items /\ i # j
        BY <1>1, <1>2, <1>8, <3>2 DEF EditorSawThePresent, CreateItem
      <4>2. /\ itemState'[i] = itemState[i] /\ flags'[i] = flags[i]
            /\ balance'[i] = balance[i] /\ revision'[i] = revision[i]
        BY <1>2, <1>8, <4>1 DEF CreateItem
      <4>3. QED BY <1>1, <3>2, <4>2 DEF EditorSawThePresent
    <3>3. QED BY <3>1, <3>2
  <2>2. QED BY <1>4, <1>8, <2>1 DEF CreateItem
<1>9. ASSUME NEW e \in Editors, OpenEditor(e) PROVE EditorSawThePresent'
  <2>1. PICK i \in Items : itemState[i] = "live" /\ editor' = [editor EXCEPT ![e] =
          [Closed EXCEPT !.pc = "open", !.item = i, !.seen = revision[i],
             !.seenFlags = flags[i], !.seenBalance = balance[i]]]
    BY <1>9 DEF OpenEditor
  <2> DEFINE s == [Closed EXCEPT !.pc = "open", !.item = i, !.seen = revision[i],
                     !.seenFlags = flags[i], !.seenBalance = balance[i]]
  <2>2. /\ s.item = i /\ s.seen = revision[i]
        /\ s.seenFlags = flags[i] /\ s.seenBalance = balance[i]
    BY DEF Closed
  <2>3. UNCHANGED itemVars /\ editor' = [editor EXCEPT ![e] = s]
    BY <1>9, <2>1 DEF OpenEditor
  <2> HIDE DEF s
  <2>4. Saw(s)
    BY <1>2, <2>1, <2>2, <2>3 DEF itemVars
  <2>5. QED BY <1>5, <1>6, <2>3, <2>4
<1>10. ASSUME NEW e \in Editors, UNCHANGED itemVars, editor' = [editor EXCEPT ![e] = Closed]
       PROVE  EditorSawThePresent'
  <2>1. Saw(Closed)
    BY DEF Closed
  <2>2. QED BY <1>5, <1>6, <1>10, <2>1
<1>11. ASSUME NEW e \in Editors, RequestSave(e) PROVE EditorSawThePresent'
  <2>1. PICK f \in Policies, at \in Instants :
          \/ editor' = [editor EXCEPT ![e] = Closed]
          \/ editor' = [editor EXCEPT ![e] =
               [editor[e] EXCEPT !.pc = "saving", !.newFlags = f, !.at = at]]
    BY <1>11 DEF RequestSave, TypeOK
  <2>2. UNCHANGED itemVars /\ editor[e].pc = "open"
    BY <1>11 DEF RequestSave
  <2> DEFINE s == [editor[e] EXCEPT !.pc = "saving", !.newFlags = f, !.at = at]
  <2>3. /\ s.item = editor[e].item /\ s.seen = editor[e].seen
        /\ s.seenFlags = editor[e].seenFlags /\ s.seenBalance = editor[e].seenBalance
    BY <1>2 DEF EditorState
  <2>4. Saw(editor[e])
    BY <1>6, <2>2
  <2>5. ASSUME editor' = [editor EXCEPT ![e] = s] PROVE EditorSawThePresent'
    <3> HIDE DEF s
    <3>1. Saw(s)
      BY <2>2, <2>3, <2>4
    <3>2. QED BY <1>5, <1>6, <2>2, <2>5, <3>1
  <2>6. QED BY <1>10, <2>1, <2>2, <2>5
<1>12. ASSUME NEW e \in Editors, NEW p \in {"deleting", "saved"},
              editor' = [editor EXCEPT ![e].pc = p], \A f \in Editors : Saw(editor[f])
       PROVE  EditorSawThePresent'
  <2>1. [editor[e] EXCEPT !.pc = p].pc = p
    BY <1>2 DEF EditorState
  <2>2. Saw([editor[e] EXCEPT !.pc = p])
    BY <2>1
  <2>3. QED BY <1>5, <1>12, <2>2
<1>13. ASSUME NEW e \in Editors, RequestDelete(e) PROVE EditorSawThePresent'
  <2>1. CASE editor' = [editor EXCEPT ![e] = Closed]
    BY <1>10, <1>13, <2>1 DEF RequestDelete
  <2>2. CASE editor' = [editor EXCEPT ![e].pc = "deleting"]
    BY <1>6, <1>12, <1>13, <2>2 DEF RequestDelete
  <2>3. QED BY <1>13, <2>1, <2>2 DEF RequestDelete
<1>14. ASSUME NEW e \in Editors, UpdateItem(e) PROVE EditorSawThePresent'
  <2> DEFINE i == editor[e].item
  <2>1. /\ i \in Items /\ editor[e].at \in Nat
        /\ revision' = [revision EXCEPT ![i] = AdvancedRevision(i, editor[e].at)]
        /\ flags' = [flags EXCEPT ![i] = editor[e].newFlags]
        /\ UNCHANGED <<itemState, balance>>
        /\ editor' = [editor EXCEPT ![e].pc = "saved"]
    BY <1>2, <1>14 DEF UpdateItem, EditorState
  <2>2. ASSUME NEW f \in Editors PROVE Saw(editor[f])
    <3>1. CASE editor[f].pc \notin {"open", "saving"}
      BY <3>1
    <3>2. CASE editor[f].pc \in {"open", "saving"}
      <4>1. /\ editor[f].item \in Items /\ editor[f].seen \in Nat
            /\ itemState[editor[f].item] # "absent"
            /\ editor[f].seen <= revision[editor[f].item]
            /\ editor[f].seen = revision[editor[f].item] =>
                 /\ flags[editor[f].item] = editor[f].seenFlags
                 /\ balance[editor[f].item] = editor[f].seenBalance
        BY <1>1, <1>2, <3>2 DEF EditorSawThePresent, EditorState
      <4>2. CASE editor[f].item = i
        <5>1. revision'[i] \in Nat /\ revision'[i] > revision[i]
          BY <1>2, <1>3, <2>1
        <5>2. editor[f].seen < revision'[i]
          BY <1>2, <2>1, <4>1, <4>2, <5>1
        <5>3. QED BY <2>1, <4>1, <4>2, <5>1, <5>2
      <4>3. CASE editor[f].item # i
        BY <1>2, <2>1, <4>1, <4>3
      <4>4. QED BY <4>2, <4>3
    <3>3. QED BY <3>1, <3>2
  <2>3. QED BY <1>12, <2>1, <2>2
<1>15. ASSUME NEW e \in Editors, DeleteItem(e) PROVE EditorSawThePresent'
  <2>1. Saw(Closed)
    BY DEF Closed
  <2>2. \A f \in Editors : Saw(editor[f])
    BY <1>1, <1>2, <1>15 DEF DeleteItem, EditorSawThePresent
  <2>3. QED BY <1>5, <1>15, <2>1, <2>2 DEF DeleteItem
<1>16. ASSUME NEW e \in Editors, CloseEditor(e) PROVE EditorSawThePresent'
  BY <1>10, <1>16 DEF CloseEditor
<1>17. ASSUME UNCHANGED <<itemVars, editor>> PROVE EditorSawThePresent'
  BY <1>4, <1>6, <1>17
<1>18. QED
  BY <1>7, <1>8, <1>9, <1>11, <1>13, <1>14, <1>15, <1>16, <1>17
  DEF Next, StockStep, Submit, LookUp, ReadSnapshot, CommitDuplicate, CommitRejected,
      Recheck, Leave, vars, itemVars

------------------------------------------------------------------------------
\* The safety invariants.

LEMMA InvInit == Init => StorageInv
<1> SUFFICES ASSUME Init PROVE StorageInv
  OBVIOUS
<1>1. Shut \in Flags /\ Closed \in EditorState /\ Closed.pc = "closed"
      /\ Idle.pc = "idle" /\ Idle.reply = "none"
  BY DEF Shut, Flags, Closed, EditorState, Idle
<1>2. TypeOK
  BY <1>1, IdleType DEF Init, TypeOK
<1>3. DOMAIN batches = {}
  BY DEF Init
<1>4. NeverOverdrawn /\ OneBatchPerKey /\ LedgerKeepsItems /\ AbsentIsEmpty
  BY <1>3 DEF Init, NeverOverdrawn, OneBatchPerKey, LedgerKeepsItems, AbsentIsEmpty
<1>5. AnswerIsWhatWasBooked /\ PlanShape /\ EditorSawThePresent
  BY <1>1 DEF Init, AnswerIsWhatWasBooked, PlanShape, EditorSawThePresent
<1>6. QED BY <1>2, <1>4, <1>5 DEF StorageInv

\* The inductive invariant holds in every reachable state.
THEOREM StorageInvariant == Spec => []StorageInv
<1>1. StorageInv /\ [Next]_vars => StorageInv'
  BY TypeStep, OverdraftStep, KeyStep, AnswerStep, ItemStep, PlanStep, EmptyStep, EditorStep
  DEF StorageInv
<1>2. QED BY <1>1, InvInit, PTL DEF Spec

\* The changes booked for an item grow by the change of the batch that commits.
LEMMA ChangesGrow ==
  ASSUME StorageInv, NEW h \in Handlers, CommitStock(h), NEW i \in Items
  PROVE  /\ Changes(i) \in Seq(Int) /\ CommittedDelta(h)[i] \in Int
         /\ Changes(i)' = Append(Changes(i), CommittedDelta(h)[i])
<1>1. \A n \in 1..Len(batches) : batches[n].delta[i] \in Int
  <2>1. batches \in Seq(Batch)
    BY DEF StorageInv, TypeOK
  <2>2. ASSUME NEW n \in 1..Len(batches) PROVE batches[n].delta \in Deltas
    <3>1. batches[n] \in Batch
      BY <2>1
    <3>2. QED BY <3>1 DEF Batch
  <2>3. QED BY <2>2 DEF Deltas
<1>2. Len(batches) \in Nat /\ CommittedDelta(h)[i] \in Int
  BY CommitEffect DEF Deltas
<1>3. Changes(i) \in Seq(Int) /\ Len(Changes(i)) = Len(batches)
  BY <1>1, <1>2 DEF Changes
<1>4. /\ Len(batches') = Len(batches) + 1
      /\ \A n \in 1..Len(batches) : batches'[n] = batches[n]
      /\ batches'[Len(batches) + 1].delta = CommittedDelta(h)
  <2>1. /\ DOMAIN batches = 1..Len(batches)
        /\ \A n \in DOMAIN batches : batches'[n] = batches[n]
        /\ batches'[Len(batches) + 1].delta = CommittedDelta(h)
    BY CommitEffect
  <2>2. Len(batches') = Len(batches) + 1
    BY DEF CommitStock, StorageInv, TypeOK
  <2>3. QED BY <2>1, <2>2
<1>5. QED BY <1>1, <1>2, <1>3, <1>4 DEF Changes

LEMMA LedgerSumStep == StorageInv /\ BalanceIsLedgerSum /\ [Next]_vars => BalanceIsLedgerSum'
<1> SUFFICES ASSUME StorageInv, BalanceIsLedgerSum, [Next]_vars, NEW i \in Items
             PROVE  balance'[i] = LedgerTotal(i)'
  BY DEF BalanceIsLedgerSum
<1>1. balance[i] = LedgerTotal(i)
  BY DEF BalanceIsLedgerSum
<1>2. ASSUME NEW h \in Handlers, CommitStock(h) PROVE balance'[i] = LedgerTotal(i)'
  <2>1. balance'[i] = balance[i] + CommittedDelta(h)[i]
    BY <1>2, CommitEffect
  <2>2. SumOf(Changes(i)') = SumOf(Changes(i)) + CommittedDelta(h)[i]
    BY <1>2, ChangesGrow, SumAppend
  <2>3. QED BY <1>1, <2>1, <2>2 DEF LedgerTotal
<1>3. ASSUME NEW j \in Items, CreateItem(j) PROVE balance'[i] = LedgerTotal(i)'
  <2>1. UNCHANGED batches /\ balance'[i] = balance[i]
    BY <1>3 DEF CreateItem, StorageInv, TypeOK, AbsentIsEmpty
  <2>2. QED BY <1>1, <2>1 DEF LedgerTotal, Changes
<1>4. CASE UNCHANGED <<balance, batches>>
  BY <1>1, <1>4 DEF LedgerTotal, Changes
<1>5. QED BY <1>2, <1>3, <1>4, QuietSteps, QuietBalance

\* Whatever submissions race, and however many were booked, an item's stored
\* quantity is the sum of its ledger rows.
THEOREM BalanceTheorem == Spec => []BalanceIsLedgerSum
<1>1. Init => BalanceIsLedgerSum
  <2> SUFFICES ASSUME Init, NEW i \in Items PROVE balance[i] = LedgerTotal(i)
    BY DEF BalanceIsLedgerSum
  <2>1. Changes(i) = <<>>
    BY DEF Init, Changes
  <2>2. QED BY <2>1, SumEmpty DEF Init, LedgerTotal
<1>2. QED BY <1>1, LedgerSumStep, StorageInvariant, PTL DEF Spec

\* No interleaving of withdrawals and adjustments takes an item below zero: the
\* trigger's check at commit suffices, whatever the snapshot said.
THEOREM NoOverdraft == Spec => []NeverOverdrawn
<1>1. StorageInv => NeverOverdrawn
  BY DEF StorageInv
<1>2. QED BY <1>1, StorageInvariant, PTL

\* A submission retried any number of times, at once or later, is booked once.
THEOREM BookedOnce == Spec => []OneBatchPerKey
<1>1. StorageInv => OneBatchPerKey
  BY DEF StorageInv
<1>2. QED BY <1>1, StorageInvariant, PTL

\* Every success answer, also one given after a lost race, reports the deltas of
\* the batch stored for that very request.
THEOREM AnswersAreTrue == Spec => []AnswerIsWhatWasBooked
<1>1. StorageInv => AnswerIsWhatWasBooked
  BY DEF StorageInv
<1>2. QED BY <1>1, StorageInvariant, PTL

\* Deleting items and booking transactions never leaves a ledger row without
\* its item.
THEOREM ItemsWithHistoryStay == Spec => []LedgerKeepsItems
<1>1. StorageInv => LedgerKeepsItems
  BY DEF StorageInv
<1>2. QED BY <1>1, StorageInvariant, PTL

------------------------------------------------------------------------------
\* Action properties and refinement.

\* An editor's save replaces exactly the flags and quantity it was opened on.
THEOREM NoLostEdit == Spec => SavedOnWhatWasSeen
<1> DEFINE A == \A e \in Editors : editor[e].pc = "saving" /\ editor'[e].pc = "saved" =>
                  /\ flags[editor[e].item] = editor[e].seenFlags
                  /\ balance[editor[e].item] = editor[e].seenBalance
<1>1. ASSUME StorageInv, [Next]_vars, NEW e \in Editors,
             editor[e].pc = "saving", editor'[e].pc = "saved"
      PROVE  /\ flags[editor[e].item] = editor[e].seenFlags
             /\ balance[editor[e].item] = editor[e].seenBalance
  <2>1. editor \in [Editors -> EditorState]
    BY <1>1 DEF StorageInv, TypeOK
  <2>2. Closed.pc = "closed"
    BY DEF Closed
  <2>3. ASSUME NEW f \in Editors, NEW s, editor' = [editor EXCEPT ![f] = s], s.pc # "saved"
        PROVE  FALSE
    BY <1>1, <2>1, <2>3
  <2>4. ASSUME NEW f \in Editors, OpenEditor(f) PROVE FALSE
    <3>1. PICK i \in Items : editor' = [editor EXCEPT ![f] =
            [Closed EXCEPT !.pc = "open", !.item = i, !.seen = revision[i],
               !.seenFlags = flags[i], !.seenBalance = balance[i]]]
      BY <2>4 DEF OpenEditor
    <3>2. [Closed EXCEPT !.pc = "open", !.item = i, !.seen = revision[i],
             !.seenFlags = flags[i], !.seenBalance = balance[i]].pc = "open"
      BY DEF Closed
    <3>3. QED BY <2>3, <3>1, <3>2
  <2>5. ASSUME NEW f \in Editors, RequestSave(f) PROVE FALSE
    BY <1>1, <2>1, <2>2, <2>5 DEF RequestSave, EditorState
  <2>6. ASSUME NEW f \in Editors, RequestDelete(f) PROVE FALSE
    BY <1>1, <2>1, <2>2, <2>6 DEF RequestDelete, EditorState
  <2>7. ASSUME NEW f \in Editors, DeleteItem(f) \/ CloseEditor(f) PROVE FALSE
    BY <2>2, <2>3, <2>7 DEF DeleteItem, CloseEditor
  <2>8. ASSUME NEW f \in Editors, UpdateItem(f) PROVE e = f /\ Unchanged(e)
    BY <1>1, <2>1, <2>8 DEF UpdateItem, EditorState
  <2>9. Unchanged(e)
    BY <1>1, <2>4, <2>5, <2>6, <2>7, <2>8
    DEF Next, StockStep, Submit, LookUp, ReadSnapshot, CommitStock, CommitDuplicate,
        CommitRejected, Recheck, Leave, CreateItem, vars
  <2>10. QED BY <1>1, <2>9 DEF Unchanged, StorageInv, EditorSawThePresent
<1>2. StorageInv /\ [Next]_vars => [A]_vars
  BY <1>1
<1>3. QED BY <1>2, StorageInvariant, PTL DEF Spec, SavedOnWhatWasSeen

\* Closing an item to self-service takes effect at once, also for submissions
\* that were checked before.
THEOREM SelfServiceTheorem == Spec => SelfServiceOnlyWhileOpen
<1> DEFINE A == \A n \in DOMAIN batches' \ DOMAIN batches :
                  batches'[n].mode = "member_self" =>
                    \A i \in Named(batches'[n].req) : SelfServiceOpen(batches'[n].req.type, i)
<1>1. ASSUME StorageInv, NEW h \in Handlers, CommitStock(h) PROVE A
  <2> DEFINE b == [actor |-> handler[h].actor, key |-> handler[h].key,
                   mode |-> IF handler[h].manager THEN "stock_admin" ELSE "member_self",
                   req |-> handler[h].req, delta |-> CommittedDelta(h),
                   audited |-> handler[h].plan]
  <2>1. batches \in Seq(Batch) /\ batches' = Append(batches, b)
    BY <1>1 DEF StorageInv, TypeOK, CommitStock
  <2>2. b.mode = "member_self" => \A i \in Named(b.req) : SelfServiceOpen(b.req.type, i)
    BY <1>1 DEF CommitStock, LedgerAccepts, PermittedNow
  <2> HIDE DEF b
  <2>3. \A n \in DOMAIN batches' \ DOMAIN batches : batches'[n] = b
    BY <2>1
  <2>4. QED BY <2>2, <2>3
<1>2. StorageInv /\ [Next]_vars => [A]_vars
  <2> SUFFICES ASSUME StorageInv, [Next]_vars PROVE [A]_vars
    OBVIOUS
  <2>1. CASE UNCHANGED batches
    BY <2>1
  <2>2. QED BY <1>1, <2>1, QuietSteps
<1>3. QED BY <1>2, StorageInvariant, PTL DEF Spec, SelfServiceOnlyWhileOpen

\* Submissions implement the stock book: each is one atomic booking computed
\* from the stock at the moment it commits, and every other step changes neither
\* stock nor bookings.
THEOREM ImplementsStockBook == Spec => RefinesStockBook
<1> DEFINE booked == {batches[n] : n \in DOMAIN batches}
<1>1. Init => Book!Init
  BY DEF Init, Book!Init
<1>2. ASSUME StorageInv, NEW h \in Handlers, CommitStock(h) PROVE Book!Next
  <2> DEFINE b == batches'[Len(batches) + 1]
             d == CommittedDelta(h)
  <2>1. /\ b.actor = handler[h].actor /\ b.key = handler[h].key
        /\ b.req = handler[h].req /\ b.delta = d /\ d \in Deltas
    BY <1>2, CommitEffect
  <2>2. booked' = booked \cup {b}
    <3>1. /\ DOMAIN batches = 1..Len(batches) /\ Len(batches) \in Nat
          /\ DOMAIN batches' = 1..(Len(batches) + 1)
          /\ \A n \in DOMAIN batches : batches'[n] = batches[n]
      BY <1>2, CommitEffect
    <3>2. DOMAIN batches' = DOMAIN batches \cup {Len(batches) + 1}
      BY <3>1
    <3>3. QED BY <3>1, <3>2
  <2>3. \A old \in booked : old.actor # b.actor \/ old.key # b.key
    BY <1>2, <2>1 DEF CommitStock, KeyFree, Booked
  <2>4. handler[h] \in HandlerState /\ handler[h].req \in Request /\ balance \in [Items -> Int]
    BY <1>2 DEF StorageInv, TypeOK, HandlerState
  <2>5. balance' = BalanceAfter(h)
    BY <1>2 DEF CommitStock
  <2>6. ASSUME NEW i \in Items
        PROVE  balance'[i] = IF b.req.lines[i] = NoLine
                               THEN balance[i]
                               ELSE Book!After(b.req.type, b.req.lines[i], balance[i])
    <3>1. balance'[i] = balance[i] + d[i]
      BY <1>2, CommitEffect
    <3>2. CASE i \notin Named(handler[h].req)
      BY <1>2, <2>1, <2>4, <3>1, <3>2, CommitEffect DEF Named
    <3>3. CASE i \in Named(handler[h].req)
      <4>1. d[i] = LineDelta(handler[h].req, i, balance[i])
        BY <1>2, <2>4, <3>3
        DEF StorageInv, PlanShape, CommitStock, CommittedDelta, RequestDelta, LineDelta,
            Request, Types
      <4>2. handler[h].req.lines[i] \in Int /\ handler[h].req.lines[i] # NoLine
            /\ handler[h].req.type \in Types /\ balance[i] \in Int
        BY <2>4, <3>3, StorageAssumption DEF Request, Named, NoLine
      <4>3. QED BY <2>1, <3>1, <4>1, <4>2 DEF LineDelta, Types, Book!After
    <3>4. QED BY <3>2, <3>3
  <2>7. balance' = [i \in Items |-> IF b.req.lines[i] = NoLine
                      THEN balance[i]
                      ELSE Book!After(b.req.type, b.req.lines[i], balance[i])]
    BY <2>5, <2>6 DEF BalanceAfter
  <2>8. b.delta = [i \in Items |-> balance'[i] - balance[i]]
    BY <2>1, <2>4, <2>5 DEF BalanceAfter, Deltas
  <2>9. \A i \in Items : balance'[i] >= 0
    <3>1. [Next]_vars
      BY <1>2 DEF Next, StockStep
    <3>2. QED BY <1>2, <3>1, OverdraftStep DEF NeverOverdrawn
  <2> HIDE DEF b
  <2>10. b \in booked'
    BY <2>2
  <2>11. PICK new \in booked' : new = b
    BY <2>10
  <2>12. Book!Book(new)
    BY <2>2, <2>3, <2>7, <2>8, <2>9, <2>11 DEF Book!Book
  <2>13. QED BY <2>12 DEF Book!Next
<1>3. ASSUME StorageInv, NEW i \in Items, CreateItem(i) PROVE UNCHANGED <<balance, booked>>
  BY <1>3 DEF CreateItem, StorageInv, TypeOK, AbsentIsEmpty
<1>4. ASSUME UNCHANGED <<balance, batches>> PROVE UNCHANGED <<balance, booked>>
  BY <1>4
<1>5. StorageInv /\ [Next]_vars => [Book!Next]_<<balance, booked>>
  <2> SUFFICES ASSUME StorageInv, [Next]_vars PROVE [Book!Next]_<<balance, booked>>
    OBVIOUS
  <2>1. \/ \E h \in Handlers : CommitStock(h)
        \/ \E i \in Items : CreateItem(i)
        \/ UNCHANGED <<balance, batches>>
    BY QuietSteps, QuietBalance
  <2>2. QED BY <1>2, <1>3, <1>4, <2>1
<1>6. QED
  BY <1>1, <1>5, StorageInvariant, PTL DEF Spec, RefinesStockBook, Book!Spec
==============================================================================
