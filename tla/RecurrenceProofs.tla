-------------------------- MODULE RecurrenceProofs --------------------------
(***************************************************************************)
(* Theorems about Recurrence, for any number of processes, templates, days *)
(* and staff operations, any rules and any limits of a batch.              *)
(***************************************************************************)
EXTENDS Recurrence, JobLeaseProofs, FiniteSetTheorems, TLAPS

------------------------------------------------------------------------------
\* Least and greatest elements, and the earliest days of a set.

LEMMA Greatest ==
  ASSUME NEW S, S \subseteq Int, IsFiniteSet(S), S # {}
  PROVE  Max(S) \in S /\ \A y \in S : y <= Max(S)
<1> DEFINE above(x) == {y \in S : y > x}
<1>1. \E x \in S : \A y \in S : y <= x
  <2> DEFINE T == {above(x) : x \in S}
  <2>1. T \subseteq FiniteSubsetsOf(S) /\ T # {}
    <3>1. \A x \in S : above(x) \in SUBSET S /\ IsFiniteSet(above(x))
      BY FS_Subset
    <3>2. QED BY <3>1 DEF FiniteSubsetsOf
  <2>2. PICK U \in T : \A V \in T : <<V, U>> \notin StrictSubsetOrdering(S)
    BY <2>1, WFMin, FS_StrictSubsetOrderingWellFounded
  <2>3. PICK x \in S : U = above(x)
    BY <2>2
  <2>4. ASSUME NEW y \in S, y > x PROVE FALSE
    <3>1. above(y) \subseteq above(x) /\ y \in above(x) /\ y \notin above(y)
      <4>1. x \in Int /\ y \in Int /\ \A z \in S : z \in Int
        OBVIOUS
      <4>2. \A z \in S : z > y => z > x
        BY <2>4, <4>1
      <4>3. above(y) \subseteq above(x)
        BY <4>2
      <4>4. QED BY <2>4, <4>1, <4>3
    <3>2. above(y) \in T /\ above(y) \subseteq S /\ above(x) \subseteq S
      OBVIOUS
    <3>3. <<above(y), above(x)>> \in StrictSubsetOrdering(S)
      BY <3>1, <3>2 DEF StrictSubsetOrdering
    <3>4. QED BY <2>2, <2>3, <3>2, <3>3
  <2>5. QED BY <2>3, <2>4
<1>2. PICK x \in S : \A y \in S : x >= y
  BY <1>1
<1>3. QED BY <1>2 DEF Max

LEMMA Least ==
  ASSUME NEW S, S \subseteq Int, IsFiniteSet(S), S # {}
  PROVE  \E x \in S : \A y \in S : x <= y
<1> DEFINE below(x) == {y \in S : y < x}
<1> DEFINE T == {below(x) : x \in S}
<1>1. T \subseteq FiniteSubsetsOf(S) /\ T # {}
  <2>1. \A x \in S : below(x) \in SUBSET S /\ IsFiniteSet(below(x))
    BY FS_Subset
  <2>2. QED BY <2>1 DEF FiniteSubsetsOf
<1>2. PICK U \in T : \A V \in T : <<V, U>> \notin StrictSubsetOrdering(S)
  BY <1>1, WFMin, FS_StrictSubsetOrderingWellFounded
<1>3. PICK x \in S : U = below(x)
  BY <1>2
<1>4. ASSUME NEW y \in S, y < x PROVE FALSE
  <2>1. below(y) \subseteq below(x) /\ y \in below(x) /\ y \notin below(y)
    <3>1. x \in Int /\ y \in Int /\ \A z \in S : z \in Int
      OBVIOUS
    <3>2. \A z \in S : z < y => z < x
      BY <1>4, <3>1
    <3>3. below(y) \subseteq below(x)
      BY <3>2
    <3>4. QED BY <1>4, <3>1, <3>3
  <2>2. below(y) \in T /\ below(y) \subseteq S /\ below(x) \subseteq S
    OBVIOUS
  <2>3. <<below(y), below(x)>> \in StrictSubsetOrdering(S)
    BY <2>1, <2>2 DEF StrictSubsetOrdering
  <2>4. QED BY <1>2, <1>3, <2>2, <2>3
<1>5. QED BY <1>3, <1>4

LEMMA LesserOfTwo ==
  ASSUME NEW a \in Int, NEW b \in Int
  PROVE  Min({a, b}) \in {a, b} /\ Min({a, b}) <= a /\ Min({a, b}) <= b
<1>1. \E x \in {a, b} : \A y \in {a, b} : x =< y
  OBVIOUS
<1>2. QED BY <1>1 DEF Min

\* No more than n days are the earliest n, and with a day come all before it.
LEMMA EarliestBounded ==
  ASSUME NEW S, S \subseteq Int, IsFiniteSet(S), NEW n \in Int, Earliest(S, n) # {}
  PROVE  Cardinality(Earliest(S, n)) <= n
<1> DEFINE E == Earliest(S, n)
<1>1. IsFiniteSet(E) /\ E \subseteq S /\ Cardinality(E) \in Nat
  BY FS_Subset, FS_CardinalityType DEF Earliest
<1>2. Max(E) \in E /\ \A y \in E : y <= Max(E)
  BY <1>1, Greatest
<1> DEFINE before == {e \in S : e < Max(E)}
<1>3. Cardinality(before) < n
  BY <1>2 DEF Earliest
<1>4. IsFiniteSet(before) /\ Cardinality(before) \in Nat
  BY FS_Subset, FS_CardinalityType
<1>5. E \ {Max(E)} \subseteq before
  <2>1. \A y \in E : y \in Int /\ y \in S
    BY <1>1
  <2>2. QED BY <1>2, <2>1
<1>6. Cardinality(E \ {Max(E)}) = Cardinality(E) - 1
  BY <1>1, <1>2, FS_RemoveElement
<1>7. Cardinality(E \ {Max(E)}) <= Cardinality(before)
  BY <1>4, <1>5, FS_Subset
<1> HIDE DEF E, before
<1>8. Cardinality(E) <= n
  BY <1>1, <1>3, <1>4, <1>6, <1>7
<1>9. QED BY <1>8 DEF E

LEMMA EarliestDownward ==
  ASSUME NEW S, S \subseteq Int, IsFiniteSet(S), NEW n \in Int,
         NEW e \in Earliest(S, n), NEW d \in S, d <= e
  PROVE  d \in Earliest(S, n)
<1> DEFINE before(x) == {y \in S : y < x}
<1>1. e \in S /\ Cardinality(before(e)) < n
  BY DEF Earliest
<1>2. before(d) \subseteq before(e) /\ IsFiniteSet(before(e)) /\ IsFiniteSet(before(d))
  <2>1. d \in Int /\ e \in Int /\ \A z \in S : z \in Int
    BY <1>1
  <2>2. before(d) \subseteq before(e)
    <3>1. \A z \in S : z < d => z < e
      BY <2>1
    <3>2. QED BY <3>1
  <2>3. before(d) \in SUBSET S /\ before(e) \in SUBSET S
    OBVIOUS
  <2>4. QED BY <2>2, <2>3, FS_Subset
<1>3. Cardinality(before(d)) <= Cardinality(before(e))
  BY <1>2, FS_Subset
<1>4. Cardinality(before(d)) \in Int /\ Cardinality(before(e)) \in Int
  BY <1>2, FS_CardinalityType
<1>5. Cardinality(before(d)) < n
  BY <1>1, <1>3, <1>4
<1>6. QED BY <1>5 DEF Earliest

------------------------------------------------------------------------------
\* Recurrence is a job under a JobLease.

LEMMA ActiveType == \A c : Window(c) \subseteq Templates /\ IsFiniteSet(Window(c))
<1>1. \A c : Window(c) \subseteq Templates
  BY DEF Window, After, Active
<1>2. QED BY <1>1, RecurrenceAssumption, FS_Subset

LEMMA NextCursorType == \A c : NextCursor(c) \in Cursors \cup {None}
<1> SUFFICES ASSUME NEW c, Rows(c) # Window(c) PROVE Max(Rows(c)) \in Cursors
  BY DEF NextCursor
<1>1. Window(c) \subseteq Int /\ IsFiniteSet(Window(c)) /\ Templates \subseteq Int
  <2>1. Templates \subseteq Int
    BY RecurrenceAssumption
  <2>2. Window(c) \subseteq Templates /\ IsFiniteSet(Window(c))
    BY ActiveType
  <2>3. QED BY <2>1, <2>2
<1>2. Rows(c) \subseteq Window(c) /\ IsFiniteSet(Rows(c)) /\ Window(c) # {}
  <2>1. Rows(c) \subseteq Window(c)
    BY DEF Rows
  <2>2. QED BY <1>1, <2>1, FS_Subset
<1>3. Rows(c) # {}
  <2>1. PICK x \in Window(c) : \A y \in Window(c) : x <= y
    BY <1>1, <1>2, Least
  <2>2. {u \in Window(c) : u < x} = {}
    BY <1>1, <2>1
  <2>3. Cardinality({u \in Window(c) : u < x}) < MaxTemplates
    BY <2>2, FS_EmptySet, RecurrenceAssumption
  <2>4. QED BY <2>1, <2>3 DEF Rows
<1>4. Max(Rows(c)) \in Rows(c)
  BY <1>1, <1>2, <1>3, Greatest
<1>5. QED BY <1>2, <1>4, ActiveType, RecurrenceAssumption

LEMMA LeaseSimulation ==
  ASSUME LeaseInv, [Next]_recurrenceVars
  PROVE  [LeaseNext]_leaseVars
<1>1. ASSUME NEW r \in Runs, Select(r) PROVE Batch(r)
  <2>1. run' = [run EXCEPT ![r].next = NextCursor(run[r].seen)] /\ run[r].pc = "batch"
        /\ UNCHANGED <<lease, cursor, status, cut, faults>>
    BY <1>1 DEF Select
  <2>2. NextCursor(run[r].seen) \in Cursors \cup {None}
    BY NextCursorType
  <2>3. QED BY <2>1, <2>2 DEF Batch
<1>2. ASSUME NEW r \in Runs, Finish(r) PROVE Batch(r)
  <2>1. EndBatch(r, run[r].next) /\ UNCHANGED <<lease, cursor, status, cut, faults>>
    BY <1>2 DEF Finish
  <2>2. run[r].next \in Cursors \cup {None}
    BY RunType DEF RunState
  <2>3. QED BY <2>1, <2>2 DEF Batch, EndBatch
<1>3. ASSUME NEW r \in Runs, LookUp(r) \/ Materialize(r) PROVE UNCHANGED leaseVars
  BY <1>3 DEF LookUp, Materialize
<1>4. ASSUME NEW r \in Runs, Start(r) \/ Proceed(r) PROVE RunStep(r)
  BY <1>4 DEF Start, Proceed, RunStep
<1>5. ASSUME NEW r \in Runs, Abort(r) PROVE StatementFails(r) \/ Die(r)
  BY <1>5 DEF Abort
<1>6. ASSUME NEW t \in Templates,
             CreateTemplate(t) \/ UpdateTemplate(t) \/ PauseTemplate(t) \/ ResumeTemplate(t)
             \/ DeleteTemplate(t) \/ \E d \in Days : DestroyEvent(t, d)
      PROVE  UNCHANGED leaseVars
  BY <1>6 DEF CreateTemplate, UpdateTemplate, PauseTemplate, ResumeTemplate, DeleteTemplate,
     DestroyEvent
<1>7. Dawn \/ UNCHANGED recurrenceVars => UNCHANGED leaseVars
  BY DEF Dawn, recurrenceVars
<1>8. QED
  BY <1>1, <1>2, <1>3, <1>4, <1>5, <1>6, <1>7 DEF Next, LeaseNext, RunBatch

\* The recurrence job is a run of JobLease, whatever its batches and the staff do.
THEOREM ImplementsJobLease == Spec => LeaseSpec
<1>1. Init => LeaseInit
  BY DEF Init
<1>2. QED BY <1>1, LeaseStart, LeaseStep, LeaseSimulation, PTL DEF Spec, LeaseSpec

\* A run of the recurrence job that lost its lease moves no cursor.
THEOREM RecurrenceHandover == Spec => CursorHandover
BY ImplementsJobLease, CursorIsHandedOver, PTL

\* The lease of a recurrence run is taken from nobody while it is live.
THEOREM RecurrenceLease == Spec => LeaseIsKept
BY ImplementsJobLease, LeaseIsTakenFromNobody, PTL

\* The status of the recurrence job says "running" only while it runs or was cut off.
THEOREM RecurrenceStatus == Spec => []StatusSettles
BY ImplementsJobLease, StatusIsSettled, PTL

------------------------------------------------------------------------------
\* The inductive invariant of templates, events and what runs have read of them.

UnbornIsNew ==
  \A t \in Templates :
    template[t].state = "unborn" \/ (template[t].updatedAt = 0 /\ template[t].state # "gone")
      => template[t] = NoTemplate

Data ==
  /\ today \in Days
  /\ template \in [Templates -> TemplateState]
  /\ instance \in [Templates -> [Days -> {"none", "live", "destroyed"}]]
  /\ edits \in 0..MaxEdits
  /\ UnbornIsNew
  /\ NothingSkipped

\* A template is as it was read unless its updated_at has grown.
ReadSound(w) ==
  /\ w.read \in [Templates -> TemplateState]
  /\ \A t \in Templates : template[t].state # "gone" =>
       /\ w.read[t].updatedAt <= template[t].updatedAt
       /\ w.read[t].updatedAt = template[t].updatedAt => w.read[t] = template[t]

\* Events that were found do not vanish but with their template.
KnownSound(w) ==
  w.asked => /\ Planned(w, Head(w.todo)) # {}
             /\ \A t \in Templates, d \in Days :
                  t = Head(w.todo) /\ d \in w.known /\ template[t].state # "gone"
                    => instance[t][d] # "none"

Shaped(w) ==
  w = [now |-> w.now, todo |-> w.todo, read |-> w.read, known |-> w.known, asked |-> w.asked]

WorkSound(r) ==
  /\ Shaped(work[r])
  /\ run[r].pc \in Started => work[r].now \in Days
  /\ work[r].todo = <<>> => ~work[r].asked
  /\ work[r].todo # <<>> => run[r].pc = "batch" /\ ReadSound(work[r]) /\ KnownSound(work[r])

RecurrenceInv ==
  /\ LeaseInv
  /\ Data
  /\ work = [r \in Runs |-> work[r]]
  /\ \A r \in Runs : WorkSound(r)

\* How templates and events change as seen by a run that read them.
TemplatesGrow ==
  \A t \in Templates :
    /\ \/ template'[t] = template[t]
       \/ template'[t].state = "gone"
       \/ template[t].state # "gone" /\ template[t].updatedAt < template'[t].updatedAt
    /\ template[t].state = "gone" => template'[t].state = "gone"
    /\ \A d \in Days : instance'[t][d] = "none"
         => instance[t][d] = "none" \/ template'[t].state = "gone"

LEMMA ReadStaysSound ==
  ASSUME Data, Data', TemplatesGrow, NEW w, ReadSound(w)
  PROVE  /\ w.read \in [Templates -> TemplateState]
         /\ \A t \in Templates : template'[t].state # "gone" =>
              /\ w.read[t].updatedAt <= template'[t].updatedAt
              /\ w.read[t].updatedAt = template'[t].updatedAt => w.read[t] = template'[t]
<1>1. w.read \in [Templates -> TemplateState]
  BY DEF ReadSound
<1>2. ASSUME NEW t \in Templates, template'[t].state # "gone"
      PROVE  /\ w.read[t].updatedAt <= template'[t].updatedAt
             /\ w.read[t].updatedAt = template'[t].updatedAt => w.read[t] = template'[t]
  <2>1. /\ w.read[t].updatedAt \in Nat /\ template[t].updatedAt \in Nat
        /\ template'[t].updatedAt \in Nat
    BY <1>1 DEF Data, TemplateState
  <2>2. template[t].state # "gone"
    BY <1>2 DEF TemplatesGrow
  <2>3. QED BY <1>2, <2>1, <2>2 DEF ReadSound, TemplatesGrow
<1>3. QED BY <1>1, <1>2

LEMMA StillSound ==
  ASSUME Data, Data', TemplatesGrow, NEW r \in Runs, WorkSound(r),
         work'[r] = work[r], run'[r] = run[r]
  PROVE  WorkSound(r)'
<1>1. /\ Shaped(work[r])' /\ (run'[r].pc \in Started => work'[r].now \in Days)
      /\ work'[r].todo = <<>> => ~work'[r].asked
  BY DEF WorkSound, Shaped
<1>2. ASSUME ReadSound(work[r]) PROVE ReadSound(work[r])'
  BY <1>2, ReadStaysSound DEF ReadSound
<1>3. ASSUME KnownSound(work[r]) PROVE KnownSound(work[r])'
  BY <1>3 DEF KnownSound, TemplatesGrow, Planned, Visible
<1>4. QED BY <1>1, <1>2, <1>3 DEF WorkSound

LEMMA NoTemplateType == NoTemplate \in TemplateState /\ NoTemplate.last = NoDay
BY RecurrenceAssumption DEF NoTemplate, TemplateState, NoDay

\* A row that was not read, or is forgotten, is behind any template.
LEMMA NothingReadIsSound ==
  ASSUME Data, NEW t \in Templates, NEW old, old \in {template[t], NoTemplate},
         template[t].state # "gone"
  PROVE  /\ old.updatedAt <= template[t].updatedAt
         /\ old.updatedAt = template[t].updatedAt => old = template[t]
<1>1. template[t].updatedAt \in Nat /\ NoTemplate.updatedAt = 0
  BY DEF Data, TemplateState, NoTemplate
<1>2. template[t].updatedAt = 0 => template[t] = NoTemplate
  BY DEF Data, UnbornIsNew
<1>3. QED BY <1>1, <1>2

LEMMA RestOfWork ==
  ASSUME NEW w
  PROVE  /\ Shaped(Rest(w)) /\ Rest(w).now = w.now /\ Rest(w).todo = Tail(w.todo)
         /\ Rest(w).read = [w.read EXCEPT ![Head(w.todo)] = NoTemplate]
         /\ ~Rest(w).asked
<1>1. PICK none, todo, read :
        /\ none = [now |-> 0, todo |-> <<>>, read |-> <<>>, known |-> {}, asked |-> FALSE]
        /\ todo = Tail(w.todo) /\ read = [w.read EXCEPT ![Head(w.todo)] = NoTemplate]
        /\ Rest(w) = [none EXCEPT !.now = w.now, !.todo = todo, !.read = read]
  BY DEF Rest, NoWork
<1>2. QED BY <1>1 DEF Shaped

LEMMA RestIsSound ==
  ASSUME Data, NEW w, ReadSound(w)
  PROVE  ReadSound(Rest(w))
<1>1. w.read \in [Templates -> TemplateState]
  BY DEF ReadSound
<1>2. Rest(w).read = [w.read EXCEPT ![Head(w.todo)] = NoTemplate]
  BY RestOfWork
<1>3. /\ Rest(w).read \in [Templates -> TemplateState]
      /\ \A t \in Templates : Rest(w).read[t] \in {w.read[t], NoTemplate}
  BY <1>1, <1>2, NoTemplateType
<1>4. ASSUME NEW t \in Templates, template[t].state # "gone"
      PROVE  /\ Rest(w).read[t].updatedAt <= template[t].updatedAt
             /\ Rest(w).read[t].updatedAt = template[t].updatedAt
                  => Rest(w).read[t] = template[t]
  BY <1>3, <1>4, NothingReadIsSound DEF ReadSound
<1>5. QED BY <1>3, <1>4 DEF ReadSound

\* Staff change one template: it gets a later updated_at, and its cursor stays or
\* is put where nothing has been skipped.
LEMMA TemplateChanged ==
  ASSUME Data, NEW t \in Templates, NEW new \in TemplateState,
         template' = [template EXCEPT ![t] = new], UNCHANGED <<today, instance>>,
         edits' \in 0..MaxEdits, new.state # "unborn", template[t].state # "gone",
         template[t].updatedAt < new.updatedAt,
         \/ new.since = new.last \/ new.last = NoDay
         \/ /\ t \in Existing /\ new.rule = template[t].rule
            /\ new.last = template[t].last /\ new.since = template[t].since
  PROVE  Data' /\ TemplatesGrow
<1>1. template' \in [Templates -> TemplateState] /\ template'[t] = new
      /\ \A u \in Templates \ {t} : template'[u] = template[u]
  BY DEF Data
<1>2. UnbornIsNew'
  <2>1. template[t].updatedAt \in Nat /\ new.updatedAt \in Nat
    BY DEF Data, TemplateState
  <2>2. new.updatedAt # 0
    BY <2>1
  <2>3. QED BY <1>1, <2>2 DEF Data, UnbornIsNew
<1>3. NothingSkipped'
  <2> SUFFICES ASSUME NEW u \in Templates, u \in Existing', NEW d \in template'[u].rule.days,
                      template'[u].since < d, d <= template'[u].last
               PROVE  instance[u][d] # "none"
    BY DEF NothingSkipped, Existing
  <2>1. CASE u = t
    <3>1. d \in Days
      BY <1>1, <2>1, RecurrenceAssumption DEF TemplateState, NoTemplate
    <3>2. new.last \in Int /\ new.since \in Int /\ d \in Nat
      BY <3>1, RecurrenceAssumption DEF TemplateState, NoDay, Days
    <3>3. new.since # new.last /\ new.last # NoDay
      BY <1>1, <2>1, <3>2 DEF NoDay, TemplateState
    <3>4. QED BY <1>1, <2>1, <3>3 DEF Data, NothingSkipped
  <2>2. CASE u # t
    BY <1>1, <2>2 DEF Data, NothingSkipped, Existing
  <2>3. QED BY <2>1, <2>2
<1>4. Data'
  BY <1>1, <1>2, <1>3 DEF Data
<1>5. QED BY <1>1, <1>4 DEF TemplatesGrow

LEMMA TodayType == ASSUME Data PROVE today \in Nat /\ today - 1 \in 0..LastDay
BY RecurrenceAssumption DEF Data, Days

LEMMA EditType == ASSUME Data, Edit PROVE edits' \in 0..MaxEdits
BY RecurrenceAssumption DEF Data, Edit

LEMMA CreateStep ==
  ASSUME Data, NEW t \in Templates, CreateTemplate(t)
  PROVE  Data' /\ TemplatesGrow
<1>1. PICK rule \in Rules :
        template' = [template EXCEPT ![t] =
          [NoTemplate EXCEPT !.state = "active", !.rule = rule, !.updatedAt = 1,
                             !.written = today]]
  BY DEF CreateTemplate
<1> DEFINE new == [NoTemplate EXCEPT !.state = "active", !.rule = rule, !.updatedAt = 1,
                                     !.written = today]
<1>2. new \in TemplateState /\ new.state = "active" /\ new.updatedAt = 1 /\ new.last = NoDay
  BY NoTemplateType, TodayType DEF TemplateState
<1>3. template[t].state = "unborn" /\ template[t].updatedAt = 0
  BY DEF CreateTemplate, Data, UnbornIsNew, NoTemplate
<1>4. template' = [template EXCEPT ![t] = new] /\ UNCHANGED <<today, instance>>
      /\ edits' \in 0..MaxEdits
  BY <1>1 DEF CreateTemplate, Data
<1> HIDE DEF new
<1>5. new.state # "unborn" /\ template[t].state # "gone" /\ template[t].updatedAt < new.updatedAt
  BY <1>2, <1>3
<1>6. QED BY <1>2, <1>4, <1>5, TemplateChanged

\* What a template in state old becomes when its cursor is restarted.
LEMMA RestartedType ==
  ASSUME Data, NEW old \in TemplateState
  PROVE  /\ Restarted(old) \in TemplateState /\ Restarted(old).since = Restarted(old).last
         /\ Restarted(old).state = old.state /\ Restarted(old).updatedAt = old.updatedAt
<1>1. today - 1 \in 0..LastDay /\ today - 1 \in Nat
  BY RecurrenceAssumption DEF Data, Days
<1>2. QED BY <1>1 DEF Restarted, TemplateState

LEMMA ExistingType ==
  ASSUME Data, NEW t \in Templates, t \in Existing
  PROVE  template[t] \in TemplateState /\ template[t].state \in {"active", "paused"}
         /\ template[t].updatedAt \in Nat
BY DEF Data, Existing, TemplateState

LEMMA UpdateStep ==
  ASSUME Data, NEW t \in Templates, UpdateTemplate(t)
  PROVE  Data' /\ TemplatesGrow
<1>1. edits' \in 0..MaxEdits /\ t \in Existing /\ UNCHANGED <<today, instance>>
  BY EditType DEF UpdateTemplate
<1>2. PICK rule \in Rules :
        LET changed == [template[t] EXCEPT !.rule = rule, !.updatedAt = @ + 1,
                                           !.written = today] IN
        template' = [template EXCEPT ![t] =
          IF rule = template[t].rule THEN changed ELSE Restarted(changed)]
  BY DEF UpdateTemplate
<1> DEFINE changed == [template[t] EXCEPT !.rule = rule, !.updatedAt = @ + 1,
                                         !.written = today]
<1>3. /\ changed \in TemplateState /\ changed.rule = rule
      /\ changed.state = template[t].state /\ changed.updatedAt = template[t].updatedAt + 1
      /\ changed.last = template[t].last /\ changed.since = template[t].since
  <2>1. template[t] \in TemplateState /\ template[t].updatedAt + 1 \in Nat
    BY <1>1, ExistingType
  <2>2. QED BY <2>1, TodayType DEF TemplateState
<1>4. template[t].state \notin {"unborn", "gone"} /\ template[t].updatedAt \in Nat
  BY <1>1, ExistingType
<1>5. CASE rule = template[t].rule
  <2>1. template' = [template EXCEPT ![t] = changed]
    BY <1>2, <1>5
  <2> HIDE DEF changed
  <2>2. changed.state # "unborn" /\ template[t].state # "gone"
        /\ template[t].updatedAt < changed.updatedAt /\ changed.rule = template[t].rule
    BY <1>3, <1>4, <1>5
  <2>3. QED BY <1>1, <1>3, <2>1, <2>2, TemplateChanged
<1>6. CASE rule # template[t].rule
  <2>1. template' = [template EXCEPT ![t] = Restarted(changed)]
    BY <1>2, <1>6
  <2> HIDE DEF changed
  <2>2. /\ Restarted(changed) \in TemplateState
        /\ Restarted(changed).since = Restarted(changed).last
        /\ Restarted(changed).state = changed.state
        /\ Restarted(changed).updatedAt = changed.updatedAt
    BY <1>3, RestartedType
  <2>3. Restarted(changed).state # "unborn" /\ template[t].state # "gone"
        /\ template[t].updatedAt < Restarted(changed).updatedAt
    BY <1>3, <1>4, <2>2
  <2>4. QED BY <1>1, <2>1, <2>2, <2>3, TemplateChanged
<1>7. QED BY <1>5, <1>6

LEMMA PauseStep ==
  ASSUME Data, NEW t \in Templates, PauseTemplate(t)
  PROVE  Data' /\ TemplatesGrow
<1> DEFINE new == [template[t] EXCEPT !.state = "paused", !.updatedAt = @ + 1, !.written = today]
<1>1. /\ edits' \in 0..MaxEdits /\ t \in Existing /\ UNCHANGED <<today, instance>>
      /\ template' = [template EXCEPT ![t] = new]
  BY EditType DEF PauseTemplate
<1>2. /\ new \in TemplateState /\ new.rule = template[t].rule /\ new.state = "paused"
      /\ new.updatedAt = template[t].updatedAt + 1
      /\ new.last = template[t].last /\ new.since = template[t].since
  <2>1. template[t] \in TemplateState /\ template[t].updatedAt + 1 \in Nat
    BY <1>1, ExistingType
  <2>2. QED BY <2>1, TodayType DEF TemplateState
<1>3. template[t].state # "gone" /\ template[t].updatedAt \in Nat
  BY <1>1, ExistingType
<1> HIDE DEF new
<1>4. new.state # "unborn" /\ template[t].updatedAt < new.updatedAt
  BY <1>2, <1>3
<1>5. QED BY <1>1, <1>2, <1>3, <1>4, TemplateChanged

LEMMA ResumeStep ==
  ASSUME Data, NEW t \in Templates, ResumeTemplate(t)
  PROVE  Data' /\ TemplatesGrow
<1> DEFINE changed == [template[t] EXCEPT !.state = "active", !.updatedAt = @ + 1,
                                         !.written = today]
<1>1. /\ edits' \in 0..MaxEdits /\ t \in Existing /\ UNCHANGED <<today, instance>>
      /\ template' = [template EXCEPT ![t] = Restarted(changed)]
  BY EditType DEF ResumeTemplate
<1>2. /\ changed \in TemplateState /\ changed.state = "active"
      /\ changed.updatedAt = template[t].updatedAt + 1
  <2>1. template[t] \in TemplateState /\ template[t].updatedAt + 1 \in Nat
    BY <1>1, ExistingType
  <2>2. QED BY <2>1, TodayType DEF TemplateState
<1>3. template[t].state # "gone" /\ template[t].updatedAt \in Nat
  BY <1>1, ExistingType
<1> HIDE DEF changed
<1>4. /\ Restarted(changed) \in TemplateState
      /\ Restarted(changed).since = Restarted(changed).last
      /\ Restarted(changed).state = changed.state
      /\ Restarted(changed).updatedAt = changed.updatedAt
  BY <1>2, RestartedType
<1>5. Restarted(changed).state # "unborn"
      /\ template[t].updatedAt < Restarted(changed).updatedAt
  BY <1>2, <1>3, <1>4
<1>6. QED BY <1>1, <1>3, <1>4, <1>5, TemplateChanged

LEMMA DeleteStep ==
  ASSUME Data, NEW t \in Templates, DeleteTemplate(t)
  PROVE  Data' /\ TemplatesGrow
<1> DEFINE new == [NoTemplate EXCEPT !.state = "gone"]
<1>1. /\ edits' \in 0..MaxEdits /\ t \in Existing /\ today' = today
      /\ template' = [template EXCEPT ![t] = new]
      /\ instance' = [instance EXCEPT ![t] = [d \in Days |-> "none"]]
  BY EditType DEF DeleteTemplate
<1>2. new \in TemplateState /\ new.state = "gone"
  BY NoTemplateType DEF TemplateState
<1> HIDE DEF new
<1>3. /\ template' \in [Templates -> TemplateState] /\ template'[t] = new
      /\ \A u \in Templates \ {t} : template'[u] = template[u] /\ instance'[u] = instance[u]
      /\ instance' \in [Templates -> [Days -> {"none", "live", "destroyed"}]]
  BY <1>1, <1>2 DEF Data
<1>4. UnbornIsNew' /\ NothingSkipped'
  BY <1>2, <1>3 DEF Data, UnbornIsNew, NothingSkipped, Existing
<1>5. Data'
  BY <1>1, <1>3, <1>4 DEF Data
<1>6. QED BY <1>2, <1>3, <1>5 DEF TemplatesGrow

LEMMA DestroyStep ==
  ASSUME Data, NEW t \in Templates, NEW d \in Days, DestroyEvent(t, d)
  PROVE  Data' /\ TemplatesGrow
<1>1. /\ edits' \in 0..MaxEdits /\ UNCHANGED <<today, template>>
      /\ instance' = [instance EXCEPT ![t][d] = "destroyed"]
  BY EditType DEF DestroyEvent
<1>2. /\ instance' \in [Templates -> [Days -> {"none", "live", "destroyed"}]]
      /\ \A u \in Templates, e \in Days : instance'[u][e] \in {instance[u][e], "destroyed"}
  BY <1>1 DEF Data
<1>3. NothingSkipped'
  <2> SUFFICES ASSUME NEW u \in Templates, u \in Existing, NEW e \in template[u].rule.days,
                      template[u].since < e, e <= template[u].last
               PROVE  instance'[u][e] # "none"
    BY <1>1 DEF NothingSkipped, Existing
  <2>1. e \in Days
    BY RecurrenceAssumption DEF Data, TemplateState, NoTemplate
  <2>2. QED BY <1>2, <2>1 DEF Data, NothingSkipped
<1>4. Data'
  BY <1>1, <1>2, <1>3 DEF Data, UnbornIsNew
<1>5. QED BY <1>1, <1>2, <1>4 DEF TemplatesGrow

LEMMA DawnStep ==
  ASSUME Data, Dawn
  PROVE  Data' /\ TemplatesGrow
<1>1. today' \in Days /\ UNCHANGED <<template, instance, edits>>
  BY DEF Dawn
<1>2. UnbornIsNew' /\ NothingSkipped'
  BY <1>1 DEF Data, UnbornIsNew, NothingSkipped, Existing
<1>3. QED BY <1>1, <1>2 DEF Data, TemplatesGrow

LEMMA StaffIdle ==
  ASSUME Data, UNCHANGED <<today, template, instance, edits>>
  PROVE  Data' /\ TemplatesGrow
<1>1. UnbornIsNew' /\ NothingSkipped'
  BY DEF Data, UnbornIsNew, NothingSkipped, Existing
<1>2. QED BY <1>1 DEF Data, TemplatesGrow

------------------------------------------------------------------------------
\* What a batch plans for one template.

LEMMA PlannedSound ==
  ASSUME NEW w, NEW t \in Templates, w.now \in Days, w.read \in [Templates -> TemplateState]
  PROVE  /\ Visible(w, t) \subseteq Days /\ IsFiniteSet(Visible(w, t))
         /\ Planned(w, t) \subseteq Visible(w, t) /\ IsFiniteSet(Planned(w, t))
<1>1. w.read[t].rule.days \subseteq Days
  BY RecurrenceAssumption DEF TemplateState, NoTemplate
<1>2. Visible(w, t) \subseteq Days
  BY <1>1 DEF Visible
<1>3. IsFiniteSet(Days)
  BY FS_Interval, RecurrenceAssumption DEF Days
<1>4. Planned(w, t) \subseteq Visible(w, t)
  BY DEF Planned, Earliest
<1>5. QED BY <1>2, <1>3, <1>4, FS_Subset

LEMMA PlannedBounded ==
  ASSUME NEW w, NEW t \in Templates, w.now \in Days, w.read \in [Templates -> TemplateState],
         Planned(w, t) # {}
  PROVE  Cardinality(Planned(w, t)) <= w.read[t].rule.endAfter - w.read[t].count
<1> DEFINE left == w.read[t].rule.endAfter - w.read[t].count
           limit == Min({MaxOccurrences, left})
<1>1. left \in Int /\ MaxOccurrences \in Int
  BY RecurrenceAssumption DEF TemplateState, NoTemplate
<1>2. limit \in Int /\ limit <= left
  BY <1>1, LesserOfTwo
<1>3. Visible(w, t) \subseteq Int /\ IsFiniteSet(Visible(w, t))
  BY PlannedSound DEF Days
<1>4. Planned(w, t) = Earliest(Visible(w, t), limit)
  BY DEF Planned
<1> HIDE DEF left, limit
<1>5. Cardinality(Planned(w, t)) <= limit
  BY <1>2, <1>3, <1>4, EarliestBounded
<1>6. Cardinality(Planned(w, t)) \in Nat
  BY PlannedSound, FS_CardinalityType
<1>7. QED BY <1>1, <1>2, <1>5, <1>6 DEF left

------------------------------------------------------------------------------
\* The steps of a run.

\* A run moves itself alone and keeps its own sound.
Moves(r) ==
  /\ work' = [q \in Runs |-> work'[q]]
  /\ \A q \in Runs \ {r} : run'[q] = run[q] /\ work'[q] = work[q]
  /\ WorkSound(r)'

LEMMA RunStepMoves ==
  ASSUME LeaseInv, NEW r \in Runs, RunStep(r)
  PROVE  /\ \A q \in Runs \ {r} : run'[q] = run[q]
         /\ run[r].pc # "idle" /\ run'[r].pc \in Started => run[r].pc \in Started
         /\ run[r].pc = "batch" => run'[r].pc = "batch"
<1>1. run \in [Runs -> RunState]
  BY DEF LeaseInv, LeaseTypeOK
<1>2. run[r] \in RunState
  BY <1>1
<1>3. CASE RecordRunning(r)
  BY <1>1, <1>3 DEF RecordRunning, Goes
<1>4. CASE TryAcquire(r) \/ AcquireFails(r)
  BY <1>1, <1>4 DEF TryAcquire, AcquireFails, Over, NoRun, Started
<1>5. CASE ReadCursor(r) \/ WriteCursor(r)
  BY <1>1, <1>5 DEF ReadCursor, WriteCursor, Ends, NoRun, Started
<1>6. CASE NextBatch(r)
  BY <1>1, <1>6 DEF NextBatch, Goes, Ends, NoRun, Started
<1>7. CASE Release(r) \/ ReleaseFails(r)
  BY <1>1, <1>7 DEF Release, ReleaseFails, Over, NoRun, Started
<1>8. CASE RecordOutcome(r)
  BY <1>1, <1>8, NoRunIsIdle DEF RecordOutcome, Started
<1>9. CASE RenewalFails(r)
  BY <1>1, <1>2, <1>9 DEF RenewalFails, RunState
<1>10. QED
  BY <1>3, <1>4, <1>5, <1>6, <1>7, <1>8, <1>9 DEF RunStep

LEMMA StartStep ==
  ASSUME RecurrenceInv, NEW r \in Runs, Start(r)
  PROVE  Moves(r) /\ UNCHANGED <<today, template, instance, edits>>
<1>1. work' = [work EXCEPT ![r] = [NoWork EXCEPT !.now = today]]
      /\ RecordRunning(r) /\ UNCHANGED <<today, template, instance, edits>>
  BY DEF Start, staffVars
<1>2. /\ work' = [q \in Runs |-> work'[q]]
      /\ \A q \in Runs \ {r} : run'[q] = run[q] /\ work'[q] = work[q]
  BY <1>1, RunStepMoves DEF RecurrenceInv, RunStep
<1>3. work'[r] = [NoWork EXCEPT !.now = today]
  BY <1>1 DEF RecurrenceInv
<1>4. WorkSound(r)'
  BY <1>1, <1>3 DEF WorkSound, Shaped, NoWork, RecurrenceInv, Data
<1>5. QED BY <1>1, <1>2, <1>4 DEF Moves

LEMMA ProceedStep ==
  ASSUME RecurrenceInv, NEW r \in Runs, Proceed(r)
  PROVE  Moves(r) /\ UNCHANGED <<today, template, instance, edits>>
<1>1. /\ run[r].pc # "idle" /\ RunStep(r) /\ UNCHANGED <<today, template, instance, edits>>
      /\ work' = [work EXCEPT ![r] = IF run'[r].pc \in Started THEN work[r] ELSE NoWork]
  BY DEF Proceed, staffVars
<1>2. /\ work' = [q \in Runs |-> work'[q]] /\ \A q \in Runs \ {r} : work'[q] = work[q]
      /\ work'[r] = IF run'[r].pc \in Started THEN work[r] ELSE NoWork
  BY <1>1 DEF RecurrenceInv
<1>3. /\ \A q \in Runs \ {r} : run'[q] = run[q]
      /\ run'[r].pc \in Started => run[r].pc \in Started
      /\ run[r].pc = "batch" => run'[r].pc = "batch"
  BY <1>1, RunStepMoves DEF RecurrenceInv
<1>4. CASE run'[r].pc \in Started
  <2>1. work'[r] = work[r] /\ WorkSound(r)
    BY <1>2, <1>4 DEF RecurrenceInv
  <2>2. ReadSound(work[r]) /\ KnownSound(work[r])
          => ReadSound(work[r])' /\ KnownSound(work[r])'
    BY <1>1, <2>1 DEF ReadSound, KnownSound, Planned, Visible
  <2>3. WorkSound(r)'
    BY <1>3, <2>1, <2>2 DEF WorkSound, Shaped
  <2>4. QED BY <1>1, <1>2, <1>3, <2>3 DEF Moves
<1>5. CASE run'[r].pc \notin Started
  <2>1. WorkSound(r)'
    BY <1>2, <1>5 DEF WorkSound, Shaped, NoWork
  <2>2. QED BY <1>1, <1>2, <1>3, <2>1 DEF Moves
<1>6. QED BY <1>4, <1>5

LEMMA AbortStep ==
  ASSUME RecurrenceInv, NEW r \in Runs, Abort(r)
  PROVE  Moves(r) /\ UNCHANGED <<today, template, instance, edits>>
<1>1. /\ work' = [work EXCEPT ![r] = NoWork]
      /\ UNCHANGED <<today, template, instance, edits>>
  BY DEF Abort, staffVars
<1>2. run \in [Runs -> RunState] /\ (StatementFails(r) \/ Die(r))
  BY DEF Abort, RecurrenceInv, LeaseInv, LeaseTypeOK
<1>3. run'[r].pc \notin Started /\ \A q \in Runs \ {r} : run'[q] = run[q]
  <2>1. CASE StatementFails(r)
    BY <1>2, <2>1 DEF StatementFails, Ends, NoRun, Started
  <2>2. CASE Die(r)
    BY <1>2, <2>2 DEF Die, NoRun, Started
  <2>3. QED BY <1>2, <2>1, <2>2
<1>4. /\ work' = [q \in Runs |-> work'[q]] /\ work'[r] = NoWork
      /\ \A q \in Runs \ {r} : work'[q] = work[q]
  BY <1>1 DEF RecurrenceInv
<1>5. WorkSound(r)'
  BY <1>3, <1>4 DEF WorkSound, Shaped, NoWork
<1>6. QED BY <1>1, <1>3, <1>4, <1>5 DEF Moves

LEMMA FinishStep ==
  ASSUME RecurrenceInv, NEW r \in Runs, Finish(r)
  PROVE  Moves(r) /\ UNCHANGED <<today, template, instance, edits>>
<1>1. /\ work' = [work EXCEPT ![r] = [NoWork EXCEPT !.now = work[r].now]]
      /\ UNCHANGED <<today, template, instance, edits>>
      /\ run[r].pc = "batch"
      /\ run' = [run EXCEPT ![r].pc = "save", ![r].next = run[r].next, ![r].batches = @ + 1]
  BY DEF Finish, staffVars, EndBatch
<1>2. run \in [Runs -> RunState] /\ \A q \in Runs \ {r} : run'[q] = run[q]
  BY <1>1 DEF RecurrenceInv, LeaseInv, LeaseTypeOK
<1>3. /\ work' = [q \in Runs |-> work'[q]] /\ \A q \in Runs \ {r} : work'[q] = work[q]
      /\ work'[r] = [NoWork EXCEPT !.now = work[r].now]
  BY <1>1 DEF RecurrenceInv
<1>4. work[r].now \in Days
  BY <1>1 DEF RecurrenceInv, WorkSound, Started
<1>5. WorkSound(r)'
  BY <1>3, <1>4 DEF WorkSound, Shaped, NoWork
<1>6. QED BY <1>1, <1>2, <1>3, <1>5 DEF Moves

LEMMA SelectStep ==
  ASSUME RecurrenceInv, NEW r \in Runs, Select(r)
  PROVE  Moves(r) /\ UNCHANGED <<today, template, instance, edits>>
<1> DEFINE todo == SetToSortSeq(Rows(run[r].seen), LAMBDA t, u : t < u)
           read == [t \in Templates |->
                      IF t \in Rows(run[r].seen) THEN template[t] ELSE NoTemplate]
<1>1. /\ work' = [work EXCEPT ![r].todo = todo, ![r].read = read]
      /\ run' = [run EXCEPT ![r].next = NextCursor(run[r].seen)]
      /\ run[r].pc = "batch" /\ work[r].read = <<>>
      /\ UNCHANGED <<today, template, instance, edits>>
  BY DEF Select, staffVars
<1> HIDE DEF todo, read
<1>2. /\ run \in [Runs -> RunState] /\ \A q \in Runs \ {r} : run'[q] = run[q]
      /\ run'[r].pc = "batch"
  <2>1. run \in [Runs -> RunState]
    BY DEF RecurrenceInv, LeaseInv, LeaseTypeOK
  <2>2. run[r] \in RunState
    BY <2>1
  <2>3. QED BY <1>1, <2>1, <2>2 DEF RunState
<1>3. ~work[r].asked /\ work[r].now \in Days /\ Shaped(work[r])
  <2>1. WorkSound(r)
    BY DEF RecurrenceInv
  <2>2. ~ReadSound(work[r])
    BY <1>1, RecurrenceAssumption DEF ReadSound
  <2>3. QED BY <1>1, <2>1, <2>2 DEF WorkSound, Started
<1>4. /\ work' = [q \in Runs |-> work'[q]] /\ \A q \in Runs \ {r} : work'[q] = work[q]
      /\ work'[r] = [work[r] EXCEPT !.todo = todo, !.read = read]
  BY <1>1 DEF RecurrenceInv
<1>5. /\ work'[r].now = work[r].now /\ work'[r].todo = todo /\ Shaped(work'[r])
      /\ work'[r].read = read /\ ~work'[r].asked
  BY <1>3, <1>4 DEF Shaped
<1>6. Data
  BY DEF RecurrenceInv
<1>7. ReadSound(work[r])' /\ KnownSound(work[r])'
  <2>1. /\ read \in [Templates -> TemplateState]
        /\ \A t \in Templates : read[t] \in {template[t], NoTemplate}
    BY <1>6, NoTemplateType DEF Data, read
  <2>2. \A t \in Templates : template[t].state # "gone" =>
          /\ read[t].updatedAt <= template[t].updatedAt
          /\ read[t].updatedAt = template[t].updatedAt => read[t] = template[t]
    BY <1>6, <2>1, NothingReadIsSound
  <2>3. ReadSound(work[r])'
    BY <1>1, <1>5, <2>1, <2>2 DEF ReadSound
  <2>4. KnownSound(work[r])'
    BY <1>5 DEF KnownSound
  <2>5. QED BY <2>3, <2>4
<1>8. WorkSound(r)'
  BY <1>2, <1>3, <1>5, <1>7 DEF WorkSound, Shaped
<1>9. QED BY <1>1, <1>2, <1>4, <1>8 DEF Moves

LEMMA LookUpStep ==
  ASSUME RecurrenceInv, NEW r \in Runs, LookUp(r)
  PROVE  Moves(r) /\ UNCHANGED <<today, template, instance, edits>>
<1> DEFINE t == Head(work[r].todo)
           planned == Planned(work[r], t)
           found == {d \in planned : instance[t][d] = "live"}
<1>1. /\ work' = [work EXCEPT ![r] =
            IF planned = {} THEN Rest(work[r])
            ELSE [work[r] EXCEPT !.asked = TRUE, !.known = found]]
      /\ run[r].pc = "batch" /\ work[r].todo # <<>> /\ run' = run
      /\ UNCHANGED <<today, template, instance, edits>>
  BY DEF LookUp, staffVars, leaseVars
<1>2. /\ work' = [q \in Runs |-> work'[q]]
      /\ \A q \in Runs \ {r} : work'[q] = work[q] /\ run'[q] = run[q]
      /\ work'[r] = IF planned = {} THEN Rest(work[r])
                    ELSE [work[r] EXCEPT !.asked = TRUE, !.known = found]
  BY <1>1 DEF RecurrenceInv
<1>3. Shaped(work[r]) /\ work[r].now \in Days /\ ReadSound(work[r])
  BY <1>1 DEF RecurrenceInv, WorkSound, Started
<1>4. /\ Shaped(work'[r]) /\ work'[r].now = work[r].now
      /\ IF planned = {} THEN work'[r] = Rest(work[r]) /\ ~work'[r].asked
         ELSE /\ work'[r].asked /\ work'[r].known = found
              /\ work'[r].todo = work[r].todo /\ work'[r].read = work[r].read
  BY <1>2, <1>3, RestOfWork DEF Shaped
<1>5. ReadSound(work[r])'
  <2>1. ReadSound(Rest(work[r]))
    BY <1>3, RestIsSound DEF RecurrenceInv
  <2>2. QED BY <1>1, <1>3, <1>4, <2>1 DEF ReadSound
<1>6. KnownSound(work[r])'
  <2>1. CASE planned = {}
    BY <1>4, <2>1 DEF KnownSound
  <2>2. CASE planned # {}
    <3>1. Planned(work'[r], Head(work'[r].todo)) = planned
      BY <1>4, <2>2 DEF Planned, Visible
    <3>2. \A d \in found : instance[t][d] # "none"
      OBVIOUS
    <3>3. (Planned(work[r], Head(work[r].todo)))' = Planned(work'[r], Head(work'[r].todo))
      BY DEF Planned, Visible
    <3>4. QED BY <1>1, <1>4, <2>2, <3>1, <3>2, <3>3 DEF KnownSound
  <2>3. QED BY <2>1, <2>2
<1>7. WorkSound(r)'
  BY <1>1, <1>3, <1>4, <1>5, <1>6 DEF WorkSound, Shaped
<1>8. QED BY <1>1, <1>2, <1>7 DEF Moves

\* A run that may write has the template as it stands, and what it found is there.
LEMMA AsRead ==
  ASSUME RecurrenceInv, NEW r \in Runs, Materialize(r), NEW t \in Templates,
         t = Head(work[r].todo),
         Unchanged(t, work[r].read[t], Planned(work[r], t) \ work[r].known)
  PROVE  /\ work[r].now \in Days /\ work[r].read \in [Templates -> TemplateState]
         /\ template[t].state = "active" /\ work[r].read[t] = template[t]
         /\ Planned(work[r], t) # {}
         /\ \A d \in Planned(work[r], t) \cap work[r].known : instance[t][d] # "none"
<1>1. /\ work[r].now \in Days /\ ReadSound(work[r]) /\ KnownSound(work[r]) /\ work[r].asked
  BY DEF Materialize, RecurrenceInv, WorkSound, Started
<1>2. template[t].state = "active" /\ work[r].read[t] = template[t]
  BY <1>1 DEF Unchanged, ReadSound
<1>3. work[r].read \in [Templates -> TemplateState]
  BY <1>1 DEF ReadSound
<1>4. Planned(work[r], t) \subseteq Days
  BY <1>1, <1>3, PlannedSound
<1>5. \A d \in Days : d \in work[r].known => instance[t][d] # "none"
  BY <1>1, <1>2 DEF KnownSound
<1>6. Planned(work[r], t) # {}
  BY <1>1 DEF KnownSound
<1>7. QED BY <1>1, <1>2, <1>3, <1>4, <1>5, <1>6

\* What materializeTemplate writes when it finds the template as it read it.
LEMMA Written ==
  ASSUME RecurrenceInv, NEW r \in Runs, Materialize(r), NEW t \in Templates,
         t = Head(work[r].todo),
         Unchanged(t, work[r].read[t], Planned(work[r], t) \ work[r].known)
  PROVE  /\ Data' /\ TemplatesGrow
         /\ \A u \in Templates \ {t} : template'[u] = template[u] /\ instance'[u] = instance[u]
         /\ template[t].state = "active" /\ New(t) \subseteq template[t].rule.days
         /\ template'[t].count = template[t].count + Cardinality(New(t))
         /\ template'[t].count <= template[t].rule.endAfter
         /\ \A d \in New(t) : template[t].last < d
<1> DEFINE w == work[r]
           old == template[t]
           planned == Planned(w, t)
           fresh == planned \ w.known
           reached == IF old.last = NoDay THEN w.now - 1 ELSE old.last
           new == [old EXCEPT !.last = Max(planned), !.count = @ + Cardinality(fresh),
                              !.updatedAt = @ + 1, !.written = Wanted(w, t),
                              !.since = IF w.read[t].last = NoDay THEN w.now - 1 ELSE @]
<1>1. Data /\ w.now \in Days
  BY AsRead DEF RecurrenceInv
<1>2. old.state = "active" /\ w.read[t] = old
  BY AsRead
<1>3. /\ old \in TemplateState /\ instance[t] \in [Days -> {"none", "live", "destroyed"}]
      /\ template \in [Templates -> TemplateState]
      /\ instance \in [Templates -> [Days -> {"none", "live", "destroyed"}]]
  BY <1>1 DEF Data
<1>4. w.read \in [Templates -> TemplateState]
  BY AsRead
<1>5. /\ Visible(w, t) \subseteq Days /\ IsFiniteSet(Visible(w, t))
      /\ planned \subseteq Visible(w, t) /\ IsFiniteSet(planned)
  BY <1>1, <1>4, PlannedSound
<1>6. planned # {} /\ \A d \in planned \cap w.known : instance[t][d] # "none"
  BY AsRead
<1>7. Visible(w, t) = {d \in old.rule.days : d > reached /\ d <= w.now + Ahead}
  BY <1>2 DEF Visible
<1>8. Max(planned) \in planned /\ \A d \in planned : d <= Max(planned)
  BY <1>5, <1>6, Greatest DEF Days
<1>9. \A d \in fresh : instance[t][d] # "live"
  BY DEF Unchanged
<1>10. /\ template' = [template EXCEPT ![t] = new]
       /\ instance' = [instance EXCEPT ![t] =
            [d \in Days |-> IF d \in fresh THEN "live" ELSE instance[t][d]]]
       /\ today' = today /\ edits' = edits
  BY DEF Materialize, Made, FinalDate
<1>11. Cardinality(fresh) \in Nat /\ Cardinality(fresh) <= Cardinality(planned)
       /\ Cardinality(planned) \in Nat /\ fresh \subseteq planned
  BY <1>5, FS_Subset, FS_CardinalityType
<1>12. Cardinality(planned) <= old.rule.endAfter - old.count
  BY <1>1, <1>2, <1>4, <1>6, PlannedBounded
<1>13. /\ old.count \in Nat /\ old.updatedAt \in Nat /\ old.since \in Nat
       /\ old.last \in Int /\ old.rule.endAfter \in Nat /\ w.now - 1 \in Nat
       /\ old.last \in {NoDay} \cup 0..LastDay /\ old.rule.days \subseteq Days
       /\ Wanted(w, t) \in Nat
  <2>1. w.now - 1 \in Nat
    BY <1>1, RecurrenceAssumption DEF Days
  <2>2. old.rule \in [days : SUBSET Days, endAfter : Nat]
    BY <1>3, RecurrenceAssumption DEF TemplateState, NoTemplate
  <2>3. old.last \in {NoDay} \cup 0..LastDay /\ LastDay \in Int
    BY <1>3, RecurrenceAssumption DEF TemplateState
  <2>4. old.last \in Int
    BY <2>3 DEF NoDay
  <2>5. old.count \in Nat /\ old.updatedAt \in Nat /\ old.since \in Nat
    BY <1>3 DEF TemplateState
  <2>6. Wanted(w, t) \in Nat
    BY <1>1, <1>4 DEF Wanted, TemplateState, Days
  <2>7. QED BY <2>1, <2>2, <2>3, <2>4, <2>5, <2>6
<1>14. Max(planned) \in 0..LastDay
  BY <1>5, <1>8, RecurrenceAssumption DEF Days
<1> HIDE DEF planned, fresh
<1>15. /\ new.last = Max(planned) /\ new.count = old.count + Cardinality(fresh)
       /\ new.updatedAt = old.updatedAt + 1 /\ new.state = "active"
       /\ new.since = IF old.last = NoDay THEN w.now - 1 ELSE old.since
       /\ new.rule = old.rule /\ new \in TemplateState
  <2>1. /\ old.count + Cardinality(fresh) \in Nat /\ old.updatedAt + 1 \in Nat
        /\ (IF w.read[t].last = NoDay THEN w.now - 1 ELSE old.since) \in Nat
    BY <1>2, <1>11, <1>13
  <2>2. QED BY <1>2, <1>3, <1>13, <1>14, <2>1 DEF TemplateState
<1> HIDE DEF new, w, old, reached
<1>16. /\ template' \in [Templates -> TemplateState] /\ template'[t] = new
       /\ instance' \in [Templates -> [Days -> {"none", "live", "destroyed"}]]
       /\ \A u \in Templates \ {t} : template'[u] = template[u] /\ instance'[u] = instance[u]
       /\ \A d \in Days : instance'[t][d] = IF d \in fresh THEN "live" ELSE instance[t][d]
  BY <1>3, <1>10, <1>15
<1>17. NothingSkipped'
  <2> SUFFICES ASSUME NEW d \in old.rule.days, new.since < d, d <= new.last
               PROVE  instance'[t][d] # "none"
    BY <1>1, <1>15, <1>16 DEF Data, NothingSkipped, Existing
  <2>1. d \in Days /\ d \in Int
    BY <1>13 DEF Days
  <2>2. CASE d <= reached
    <3>1. old.last # NoDay /\ reached = old.last /\ new.since = old.since
      BY <1>13, <1>15, <2>1, <2>2 DEF reached
    <3>2. instance[t][d] # "none"
      BY <1>1, <1>2, <2>2, <3>1 DEF Data, NothingSkipped, Existing, old
    <3>3. QED BY <1>16, <2>1, <3>2
  <2>3. CASE ~(d <= reached)
    <3>1. reached \in Int /\ w.now + Ahead \in Int /\ Max(planned) \in Int
      BY <1>1, <1>13, <1>14, RecurrenceAssumption DEF reached, Days
    <3>2. Max(planned) <= w.now + Ahead
      BY <1>5, <1>7, <1>8
    <3>3. d \in Visible(w, t)
      BY <1>7, <1>15, <2>1, <2>3, <3>1, <3>2
    <3>4. d \in planned
      <4> DEFINE limit == Min({MaxOccurrences, w.read[t].rule.endAfter - w.read[t].count})
      <4>1. limit \in Int
        <5>1. w.read[t].rule.endAfter - w.read[t].count \in Int /\ MaxOccurrences \in Int
          BY <1>2, <1>13, RecurrenceAssumption
        <5> HIDE DEF w
        <5>2. QED BY <5>1, LesserOfTwo
      <4>2. planned = Earliest(Visible(w, t), limit)
        BY DEF planned, Planned
      <4>3. Max(planned) \in Earliest(Visible(w, t), limit) /\ d <= Max(planned)
        BY <1>8, <1>15, <4>2
      <4>4. Visible(w, t) \subseteq Int
        BY <1>5 DEF Days
      <4> HIDE DEF limit
      <4>5. QED BY <1>5, <3>3, <4>1, <4>2, <4>3, <4>4, EarliestDownward
    <3>5. CASE d \in fresh
      BY <1>16, <2>1, <3>5
    <3>6. CASE d \notin fresh
      BY <1>6, <1>16, <2>1, <3>4, <3>6 DEF fresh
    <3>7. QED BY <3>5, <3>6
  <2>4. QED BY <2>2, <2>3
<1>18. UnbornIsNew'
  BY <1>1, <1>13, <1>15, <1>16 DEF Data, UnbornIsNew
<1>19. Data'
  BY <1>1, <1>10, <1>16, <1>17, <1>18 DEF Data
<1>20. TemplatesGrow
  <2>1. old.state # "gone" /\ old.updatedAt < new.updatedAt /\ old = template[t]
    BY <1>2, <1>13, <1>15 DEF old
  <2>2. \A u \in Templates, d \in Days : instance'[u][d] = "none" => instance[u][d] = "none"
    BY <1>16
  <2>3. QED BY <1>16, <2>1, <2>2 DEF TemplatesGrow
<1>21. New(t) = fresh
  <2>1. fresh \subseteq Days
    BY <1>5, <1>11
  <2>2. QED BY <1>9, <1>16, <2>1 DEF New, fresh
<1>22. \A d \in fresh : d \in old.rule.days /\ old.last < d
  <2> SUFFICES ASSUME NEW d \in fresh PROVE d \in old.rule.days /\ old.last < d
    OBVIOUS
  <2>1. d \in old.rule.days /\ d > reached /\ d \in Days
    BY <1>5, <1>7, <1>11
  <2>2. QED BY <1>13, <2>1 DEF reached, NoDay, Days
<1>23. new.count <= old.rule.endAfter
  BY <1>11, <1>12, <1>13, <1>15
<1>24. QED
  BY <1>2, <1>15, <1>16, <1>19, <1>20, <1>21, <1>22, <1>23 DEF old

\* One materialization as all templates see it.
Wrote(t) ==
  /\ template[t].state = "active" /\ New(t) \subseteq template[t].rule.days
  /\ template'[t].count = template[t].count + Cardinality(New(t))
  /\ template'[t].count <= template[t].rule.endAfter
  /\ \A d \in New(t) : template[t].last < d

LEMMA NothingNew ==
  ASSUME NEW t \in Templates, instance'[t] = instance[t]
  PROVE  New(t) = {}
BY DEF New

\* The events of a run that was overtaken: no more than were counted since it read.
Strays(r, t) ==
  /\ t \in Templates /\ UNCHANGED <<today, template, edits>>
  /\ template[t].state = "active"
  /\ New(t) \subseteq Planned(work[r], t) /\ Repeated(t)
  /\ Cardinality(New(t)) <= template[t].count
  /\ \A u \in Templates : u # t => instance'[u] = instance[u]
  /\ instance' = [instance EXCEPT ![t] =
       [d \in Days |-> IF d \in New(t) THEN "live" ELSE instance[t][d]]]

LEMMA MadeFresh ==
  ASSUME Data, NEW t \in Templates, NEW fresh, fresh \subseteq Days, Made(t, fresh)
  PROVE  /\ New(t) \subseteq fresh
         /\ \A u \in Templates : u # t => instance'[u] = instance[u]
         /\ instance' = [instance EXCEPT ![t] =
              [d \in Days |-> IF d \in New(t) THEN "live" ELSE instance[t][d]]]
<1>1. instance \in [Templates -> [Days -> {"none", "live", "destroyed"}]]
  BY DEF Data
<1>2. instance' = [instance EXCEPT ![t] =
        [d \in Days |-> IF d \in fresh THEN "live" ELSE instance[t][d]]]
  BY DEF Made
<1>3. \A d \in Days : instance'[t][d] = IF d \in fresh THEN "live" ELSE instance[t][d]
  BY <1>1, <1>2
<1>4. New(t) \subseteq fresh /\ \A u \in Templates : u # t => instance'[u] = instance[u]
  BY <1>1, <1>2, <1>3 DEF New
<1>5. [d \in Days |-> IF d \in fresh THEN "live" ELSE instance[t][d]]
        = [d \in Days |-> IF d \in New(t) THEN "live" ELSE instance[t][d]]
  BY <1>1, <1>3 DEF New
<1>6. QED BY <1>2, <1>4, <1>5, Zenon

LEMMA OvertakenStrays ==
  ASSUME RecurrenceInv, NEW r \in Runs, Materialize(r), NEW t \in Templates,
         t = Head(work[r].todo),
         ~Unchanged(t, work[r].read[t], Planned(work[r], t) \ work[r].known),
         ~UNCHANGED instance
  PROVE  Strays(r, t)
<1> DEFINE fresh == Planned(work[r], t) \ work[r].known
<1>1. /\ work[r].asked /\ UNCHANGED <<today, template, edits>>
      /\ Overtaken(work[r], t, fresh) /\ Made(t, fresh)
  BY DEF Materialize
<1>2. /\ work[r].now \in Days /\ work[r].read \in [Templates -> TemplateState]
  BY DEF Materialize, RecurrenceInv, WorkSound, ReadSound, Started
<1>3. IsFiniteSet(Planned(work[r], t)) /\ Planned(work[r], t) \subseteq Days
  BY <1>2, PlannedSound
<1>4. fresh \subseteq Planned(work[r], t) /\ IsFiniteSet(fresh) /\ Cardinality(fresh) \in Nat
  BY <1>3, FS_Subset, FS_CardinalityType
<1>5. /\ template[t].state = "active" /\ work[r].read[t].count \in Nat
      /\ template[t].count = work[r].read[t].count + Cardinality(fresh)
  BY <1>1, <1>2 DEF Overtaken, TemplateState
<1> HIDE DEF fresh
<1>6. /\ New(t) \subseteq fresh /\ \A u \in Templates : u # t => instance'[u] = instance[u]
      /\ instance' = [instance EXCEPT ![t] =
           [d \in Days |-> IF d \in New(t) THEN "live" ELSE instance[t][d]]]
  BY <1>1, <1>3, <1>4, MadeFresh DEF RecurrenceInv
<1>7. Cardinality(New(t)) \in Nat /\ Cardinality(New(t)) <= Cardinality(fresh)
  BY <1>4, <1>6, FS_Subset, FS_CardinalityType
<1>8. /\ work[r].read[t].count + Cardinality(New(t)) <= template[t].count
      /\ Cardinality(New(t)) <= template[t].count
  BY <1>4, <1>5, <1>7
<1>9. Repeated(t)
  BY <1>1, <1>4, <1>6, <1>8 DEF Repeated
<1>10. QED BY <1>1, <1>4, <1>5, <1>6, <1>8, <1>9 DEF Strays

LEMMA StraysKeepData ==
  ASSUME RecurrenceInv, NEW r, NEW t, Strays(r, t)
  PROVE  Data' /\ TemplatesGrow
<1>1. Data /\ UNCHANGED <<today, template, edits>>
  BY DEF RecurrenceInv, Strays
<1>2. /\ instance' \in [Templates -> [Days -> {"none", "live", "destroyed"}]]
      /\ \A u \in Templates, d \in Days : instance'[u][d] \in {instance[u][d], "live"}
  BY <1>1 DEF Data, Strays
<1>3. NothingSkipped'
  <2> SUFFICES ASSUME NEW u \in Templates, u \in Existing, NEW d \in template[u].rule.days,
                      template[u].since < d, d <= template[u].last
               PROVE  instance'[u][d] # "none"
    BY <1>1 DEF NothingSkipped, Existing
  <2>1. d \in Days
    BY <1>1, RecurrenceAssumption DEF Data, TemplateState, NoTemplate
  <2>2. QED BY <1>1, <1>2, <2>1 DEF Data, NothingSkipped
<1>4. UnbornIsNew'
  BY <1>1 DEF Data, UnbornIsNew
<1>5. Data'
  BY <1>1, <1>2, <1>3, <1>4 DEF Data
<1>6. QED BY <1>1, <1>2, <1>5 DEF TemplatesGrow

LEMMA RefusedWrite ==
  ASSUME RecurrenceInv, NEW r \in Runs, Materialize(r), NEW t, t = Head(work[r].todo),
         \/ t \notin Templates
         \/ ~Unchanged(t, work[r].read[t], Planned(work[r], t) \ work[r].known)
  PROVE  UNCHANGED <<today, template, instance, edits>> \/ Strays(r, t)
<1>1. /\ template \in [Templates -> TemplateState]
      /\ instance \in [Templates -> [Days -> {"none", "live", "destroyed"}]]
  BY DEF RecurrenceInv, Data
<1>2. CASE t \notin Templates
  BY <1>1, <1>2 DEF Materialize, Made
<1>3. CASE /\ t \in Templates
           /\ ~Unchanged(t, work[r].read[t], Planned(work[r], t) \ work[r].known)
  <2>1. UNCHANGED <<today, template, edits>>
    BY <1>3 DEF Materialize
  <2>2. QED BY <1>3, <2>1, OvertakenStrays
<1>4. QED BY <1>2, <1>3

LEMMA MaterializeData ==
  ASSUME RecurrenceInv, NEW r \in Runs, Materialize(r)
  PROVE  /\ Data' /\ TemplatesGrow
         /\ \A t \in Templates :
              New(t) = {} \/ Wrote(t) \/ (template[t].state = "active" /\ Repeated(t))
<1> DEFINE h == Head(work[r].todo)
           fresh == Planned(work[r], h) \ work[r].known
<1>1. CASE h \in Templates /\ Unchanged(h, work[r].read[h], fresh)
  <2>1. /\ Data' /\ TemplatesGrow /\ Wrote(h)
        /\ \A u \in Templates \ {h} : instance'[u] = instance[u]
    BY <1>1, Written DEF Wrote
  <2>2. \A u \in Templates \ {h} : New(u) = {}
    BY <2>1, NothingNew
  <2>3. QED BY <2>1, <2>2
<1>2. CASE ~(h \in Templates /\ Unchanged(h, work[r].read[h], fresh))
  <2>1. UNCHANGED <<today, template, instance, edits>> \/ Strays(r, h)
    BY <1>2, RefusedWrite
  <2>2. CASE UNCHANGED <<today, template, instance, edits>>
    <3>1. Data' /\ TemplatesGrow
      BY <2>2, StaffIdle DEF RecurrenceInv
    <3>2. \A t \in Templates : New(t) = {}
      BY <2>2, NothingNew
    <3>3. QED BY <3>1, <3>2
  <2>3. CASE Strays(r, h)
    <3>1. \A u \in Templates : u # h => New(u) = {}
      BY <2>3, NothingNew DEF Strays
    <3>2. QED BY <2>3, <3>1, StraysKeepData DEF Strays
  <2>4. QED BY <2>1, <2>2, <2>3
<1>3. QED BY <1>1, <1>2

LEMMA MaterializeStep ==
  ASSUME RecurrenceInv, NEW r \in Runs, Materialize(r)
  PROVE  Moves(r)
<1>1. /\ work' = [work EXCEPT ![r] = Rest(work[r])]
      /\ run[r].pc = "batch" /\ work[r].todo # <<>> /\ run' = run
  BY DEF Materialize, leaseVars
<1>2. /\ work' = [q \in Runs |-> work'[q]]
      /\ \A q \in Runs \ {r} : work'[q] = work[q] /\ run'[q] = run[q]
      /\ work'[r] = Rest(work[r])
  BY <1>1 DEF RecurrenceInv
<1>3. Shaped(work[r]) /\ work[r].now \in Days /\ ReadSound(work[r])
  BY <1>1 DEF RecurrenceInv, WorkSound, Started
<1>4. Shaped(work'[r]) /\ work'[r].now = work[r].now /\ ~work'[r].asked
  BY <1>2, RestOfWork
<1>5. Data /\ Data' /\ TemplatesGrow
  BY MaterializeData DEF RecurrenceInv
<1>6. ReadSound(work[r])'
  <2>1. ReadSound(work'[r])
    BY <1>2, <1>3, <1>5, RestIsSound
  <2>2. QED BY <1>5, <2>1, ReadStaysSound DEF ReadSound
<1>7. WorkSound(r)'
  BY <1>1, <1>3, <1>4, <1>6 DEF WorkSound, Shaped, KnownSound
<1>8. QED BY <1>2, <1>7 DEF Moves

------------------------------------------------------------------------------
\* RecurrenceInv is inductive.

StaffStep ==
  \/ Dawn
  \/ \E t \in Templates :
       \/ CreateTemplate(t) \/ UpdateTemplate(t) \/ PauseTemplate(t)
       \/ ResumeTemplate(t) \/ DeleteTemplate(t)
       \/ \E d \in Days : DestroyEvent(t, d)

LEMMA StaffData ==
  ASSUME RecurrenceInv, StaffStep
  PROVE  Data' /\ TemplatesGrow /\ UNCHANGED <<leaseVars, work>>
<1>1. Data
  BY DEF RecurrenceInv
<1>2. CASE Dawn
  BY <1>1, <1>2, DawnStep DEF Dawn
<1>3. ASSUME NEW t \in Templates, CreateTemplate(t)
      PROVE  Data' /\ TemplatesGrow /\ UNCHANGED <<leaseVars, work>>
  BY <1>1, <1>3, CreateStep DEF CreateTemplate
<1>4. ASSUME NEW t \in Templates, UpdateTemplate(t)
      PROVE  Data' /\ TemplatesGrow /\ UNCHANGED <<leaseVars, work>>
  BY <1>1, <1>4, UpdateStep DEF UpdateTemplate
<1>5. ASSUME NEW t \in Templates, PauseTemplate(t)
      PROVE  Data' /\ TemplatesGrow /\ UNCHANGED <<leaseVars, work>>
  BY <1>1, <1>5, PauseStep DEF PauseTemplate
<1>6. ASSUME NEW t \in Templates, ResumeTemplate(t)
      PROVE  Data' /\ TemplatesGrow /\ UNCHANGED <<leaseVars, work>>
  BY <1>1, <1>6, ResumeStep DEF ResumeTemplate
<1>7. ASSUME NEW t \in Templates, DeleteTemplate(t)
      PROVE  Data' /\ TemplatesGrow /\ UNCHANGED <<leaseVars, work>>
  BY <1>1, <1>7, DeleteStep DEF DeleteTemplate
<1>8. ASSUME NEW t \in Templates, NEW d \in Days, DestroyEvent(t, d)
      PROVE  Data' /\ TemplatesGrow /\ UNCHANGED <<leaseVars, work>>
  BY <1>1, <1>8, DestroyStep DEF DestroyEvent
<1>9. QED BY <1>2, <1>3, <1>4, <1>5, <1>6, <1>7, <1>8 DEF StaffStep

LEMMA RunWorkStep ==
  ASSUME RecurrenceInv, NEW r \in Runs, Start(r) \/ Proceed(r) \/ RunBatch(r) \/ Abort(r)
  PROVE  Moves(r) /\ Data' /\ TemplatesGrow
<1>1. Data
  BY DEF RecurrenceInv
<1>2. CASE Materialize(r)
  BY <1>2, MaterializeStep, MaterializeData
<1>3. CASE Start(r) \/ Proceed(r) \/ Select(r) \/ LookUp(r) \/ Finish(r) \/ Abort(r)
  <2>1. Moves(r) /\ UNCHANGED <<today, template, instance, edits>>
    BY <1>3, StartStep, ProceedStep, SelectStep, LookUpStep, FinishStep, AbortStep
  <2>2. QED BY <1>1, <2>1, StaffIdle
<1>4. QED BY <1>2, <1>3 DEF RunBatch

LEMMA RecurrenceStart == Init => RecurrenceInv
<1> SUFFICES ASSUME Init PROVE RecurrenceInv
  OBVIOUS
<1>1. LeaseInv
  BY LeaseStart DEF Init
<1>2. Data
  <2>1. /\ today = 1 /\ edits = 0 /\ template = [t \in Templates |-> NoTemplate]
        /\ instance = [t \in Templates |-> [d \in Days |-> "none"]]
    BY DEF Init
  <2>2. today \in Days /\ edits \in 0..MaxEdits
    BY <2>1, RecurrenceAssumption DEF Days
  <2>3. \A t \in Templates : template[t] = NoTemplate /\ template[t].state = "unborn"
    BY <2>1 DEF NoTemplate
  <2>4. NothingSkipped /\ UnbornIsNew
    BY <2>3 DEF NothingSkipped, UnbornIsNew, Existing
  <2>5. QED BY <2>1, <2>2, <2>4, NoTemplateType DEF Data
<1>3. work = [r \in Runs |-> work[r]] /\ \A r \in Runs : WorkSound(r)
  <2>1. \A r \in Runs : work[r] = NoWork /\ run[r] = NoRun
    BY DEF Init, LeaseInit
  <2>2. \A r \in Runs : WorkSound(r)
    <3> SUFFICES ASSUME NEW r \in Runs PROVE WorkSound(r)
      OBVIOUS
    <3>1. /\ work[r].todo = <<>> /\ work[r].asked = FALSE /\ Shaped(work[r])
          /\ run[r].pc \notin Started
      BY <2>1 DEF Shaped, NoWork, NoRun, Started
    <3>2. QED BY <3>1 DEF WorkSound
  <2>3. QED BY <2>2 DEF Init
<1>4. QED BY <1>1, <1>2, <1>3 DEF RecurrenceInv

LEMMA RecurrenceStep == RecurrenceInv /\ [Next]_recurrenceVars => RecurrenceInv'
<1> SUFFICES ASSUME RecurrenceInv, [Next]_recurrenceVars PROVE RecurrenceInv'
  OBVIOUS
<1>1. LeaseInv'
  BY LeaseSimulation, LeaseStep DEF RecurrenceInv
<1>2. Data /\ \A q \in Runs : WorkSound(q)
  BY DEF RecurrenceInv
<1>3. CASE StaffStep
  <2>1. Data' /\ TemplatesGrow /\ UNCHANGED <<run, work>>
    BY <1>3, StaffData DEF leaseVars
  <2>2. \A q \in Runs : WorkSound(q)'
    BY <1>2, <2>1, StillSound
  <2>3. QED BY <1>1, <2>1, <2>2 DEF RecurrenceInv
<1>4. ASSUME NEW r \in Runs, Start(r) \/ Proceed(r) \/ RunBatch(r) \/ Abort(r)
      PROVE  RecurrenceInv'
  <2>1. Moves(r) /\ Data' /\ TemplatesGrow
    BY <1>4, RunWorkStep
  <2>2. \A q \in Runs \ {r} : WorkSound(q)'
    BY <1>2, <2>1, StillSound DEF Moves
  <2>3. QED BY <1>1, <2>1, <2>2 DEF RecurrenceInv, Moves
<1>5. CASE UNCHANGED recurrenceVars \/ (Lapse /\ UNCHANGED <<staffVars, work>>)
  <2>1. UNCHANGED <<today, template, instance, edits, run, work>>
    BY <1>5 DEF recurrenceVars, leaseVars, staffVars, Lapse
  <2>2. Data' /\ TemplatesGrow
    BY <1>2, <2>1, StaffIdle
  <2>3. \A q \in Runs : WorkSound(q)'
    BY <1>2, <2>1, <2>2, StillSound
  <2>4. QED BY <1>1, <2>1, <2>2, <2>3 DEF RecurrenceInv
<1>6. QED BY <1>3, <1>4, <1>5 DEF Next, StaffStep

LEMMA RecurrenceInvariant == Spec => []RecurrenceInv
BY RecurrenceStart, RecurrenceStep, PTL DEF Spec

------------------------------------------------------------------------------
\* What follows.

\* The types hold, and a run has templates in hand only while its batch is under way.
THEOREM RecurrenceTypes == Spec => []TypeOK
<1>1. RecurrenceInv => TypeOK
  BY DEF RecurrenceInv, LeaseInv, Data, WorkSound, TypeOK
<1>2. QED BY <1>1, RecurrenceInvariant, PTL

\* The cursor of a template never passes a day without its event, whatever runs and
\* staff do, die or redo.
THEOREM NoDaySkipped == Spec => []NothingSkipped
<1>1. RecurrenceInv => NothingSkipped
  BY DEF RecurrenceInv, Data
<1>2. QED BY <1>1, RecurrenceInvariant, PTL

LEMMA NewOnlyByMaterialize ==
  ASSUME RecurrenceInv, [Next]_recurrenceVars, NEW t \in Templates, New(t) # {}
  PROVE  Wrote(t) \/ (template[t].state = "active" /\ Repeated(t))
<1>1. CASE \E r \in Runs : Materialize(r)
  BY <1>1, MaterializeData
<1>2. ASSUME NEW u \in Templates, DeleteTemplate(u) \/ \E d \in Days : DestroyEvent(u, d)
      PROVE  FALSE
  <2>1. instance \in [Templates -> [Days -> {"none", "live", "destroyed"}]]
    BY DEF RecurrenceInv, Data
  <2>2. \A d \in Days : instance'[t][d] = "live" => instance[t][d] = "live"
    BY <1>2, <2>1 DEF DeleteTemplate, DestroyEvent
  <2>3. QED BY <2>2 DEF New
<1>3. CASE instance' = instance
  BY <1>3, NothingNew
<1>4. ASSUME NEW r \in Runs, Start(r) \/ Proceed(r) \/ Select(r) \/ LookUp(r) \/ Finish(r) \/ Abort(r)
      PROVE  instance' = instance
  BY <1>4, StartStep, ProceedStep, SelectStep, LookUpStep, FinishStep, AbortStep
<1>5. ASSUME NEW u \in Templates,
             CreateTemplate(u) \/ UpdateTemplate(u) \/ PauseTemplate(u) \/ ResumeTemplate(u)
      PROVE  instance' = instance
  BY <1>5 DEF CreateTemplate, UpdateTemplate, PauseTemplate, ResumeTemplate
<1>6. Dawn \/ UNCHANGED recurrenceVars \/ (Lapse /\ UNCHANGED <<staffVars, work>>)
        => instance' = instance
  BY DEF Dawn, recurrenceVars, staffVars
<1>7. QED
  BY <1>1, <1>2, <1>3, <1>4, <1>5, <1>6 DEF Next, RunBatch

\* Every event is made by the template as it stands at that moment and counted, but
\* for those of a run that was overtaken, no more than were counted since it read.
THEOREM MadeAsItStands == Spec => MadeByTheRule
<1>1. RecurrenceInv /\ [Next]_recurrenceVars
        => [\A t \in Templates : New(t) # {} =>
              /\ template[t].state = "active"
              /\ \/ /\ New(t) \subseteq template[t].rule.days
                    /\ template'[t].count = template[t].count + Cardinality(New(t))
                    /\ template'[t].count <= template[t].rule.endAfter
                 \/ Repeated(t)]_recurrenceVars
  BY NewOnlyByMaterialize DEF Wrote
<1>2. QED BY <1>1, RecurrenceInvariant, PTL DEF Spec, MadeByTheRule

\* A destroyed event does not come back behind the cursor, unless a run that was
\* overtaken makes it.
THEOREM DestroyedStays == Spec => StaysDestroyed
<1>1. RecurrenceInv /\ [Next]_recurrenceVars
        => [\A t \in Templates : \A d \in New(t) :
              instance[t][d] = "destroyed"
                => template[t].last < d \/ Repeated(t)]_recurrenceVars
  <2> SUFFICES ASSUME RecurrenceInv, [Next]_recurrenceVars, NEW t \in Templates,
                      NEW d \in New(t)
               PROVE  template[t].last < d \/ Repeated(t)
    OBVIOUS
  <2>1. New(t) # {}
    OBVIOUS
  <2>2. QED BY <2>1, NewOnlyByMaterialize DEF Wrote
<1>2. QED BY <1>1, RecurrenceInvariant, PTL DEF Spec, StaysDestroyed

------------------------------------------------------------------------------
\* Recurrence implements EventSeries.

\* What shows of a template.
Face(record) ==
  [state |-> record.state, rule |-> record.rule, last |-> record.last, count |-> record.count]
Faces == [t \in Templates |-> Face(template[t])]
seriesState == <<today, Faces, instance>>

\* The time a run goes by has come.
NotAhead == \A r \in Runs : work[r].now \in 0..today

LEMMA NotAheadStep == RecurrenceInv /\ NotAhead /\ [Next]_recurrenceVars => NotAhead'
<1> SUFFICES ASSUME RecurrenceInv, NotAhead, [Next]_recurrenceVars PROVE NotAhead'
  OBVIOUS
<1>1. today \in Nat /\ work = [r \in Runs |-> work[r]] /\ \A r \in Runs : Shaped(work[r])
  BY RecurrenceAssumption DEF RecurrenceInv, Data, Days, WorkSound
<1>2. ASSUME UNCHANGED work, today' \in {today, today + 1} PROVE NotAhead'
  BY <1>1, <1>2 DEF NotAhead
<1>3. ASSUME today' = today, NEW r \in Runs, NEW w, work' = [work EXCEPT ![r] = w],
             w.now \in {0, today, work[r].now}
      PROVE  NotAhead'
  BY <1>1, <1>3 DEF NotAhead
<1>4. ASSUME NEW r \in Runs, Start(r) \/ Proceed(r) \/ Abort(r) PROVE NotAhead'
  <2>1. CASE Start(r)
    BY <1>3, <2>1 DEF Start, staffVars, NoWork
  <2>2. CASE Proceed(r)
    BY <1>3, <2>2 DEF Proceed, staffVars, NoWork
  <2>3. CASE Abort(r)
    BY <1>3, <2>3 DEF Abort, staffVars, NoWork
  <2>4. QED BY <1>4, <2>1, <2>2, <2>3
<1>5. ASSUME NEW r \in Runs, RunBatch(r) PROVE NotAhead'
  <2>1. CASE Select(r)
    <3>1. PICK todo, read : work' = [work EXCEPT ![r] = [work[r] EXCEPT !.todo = todo, !.read = read]]
      BY <2>1 DEF Select
    <3>2. [work[r] EXCEPT !.todo = todo, !.read = read].now = work[r].now
      BY <1>1 DEF Shaped
    <3>3. QED BY <1>3, <2>1, <3>1, <3>2 DEF Select, staffVars
  <2>2. Rest(work[r]).now = work[r].now
    BY RestOfWork
  <2>3. CASE LookUp(r)
    <3>1. PICK known : work' = [work EXCEPT ![r] = Rest(work[r])]
            \/ work' = [work EXCEPT ![r] = [work[r] EXCEPT !.asked = TRUE, !.known = known]]
      BY <2>3 DEF LookUp
    <3>2. [work[r] EXCEPT !.asked = TRUE, !.known = known].now = work[r].now
      BY <1>1 DEF Shaped
    <3>3. today' = today
      BY <2>3 DEF LookUp, staffVars
    <3>4. QED BY <1>3, <2>2, <3>1, <3>2, <3>3
  <2>4. CASE Materialize(r)
    BY <1>3, <2>2, <2>4 DEF Materialize
  <2>5. CASE Finish(r)
    BY <1>3, <2>5 DEF Finish, staffVars, NoWork
  <2>6. QED BY <1>5, <2>1, <2>3, <2>4, <2>5 DEF RunBatch
<1>6. CASE StaffStep
  BY <1>2, <1>6 DEF StaffStep, Dawn, CreateTemplate, UpdateTemplate, PauseTemplate,
     ResumeTemplate, DeleteTemplate, DestroyEvent
<1>7. CASE UNCHANGED recurrenceVars \/ (Lapse /\ UNCHANGED <<staffVars, work>>)
  BY <1>2, <1>7 DEF recurrenceVars, staffVars
<1>8. QED BY <1>4, <1>5, <1>6, <1>7 DEF Next, StaffStep

LEMMA AlwaysNotAhead == Spec => []NotAhead
<1>1. Init => NotAhead
  <2>1. NoWork.now = 0 /\ 0 \in 0..1
    BY DEF NoWork
  <2>2. QED BY <2>1 DEF Init, NotAhead
<1>2. QED BY <1>1, NotAheadStep, RecurrenceInvariant, PTL DEF Spec

LEMMA FaceChanged ==
  ASSUME Data, NEW t \in Templates, NEW new, template' = [template EXCEPT ![t] = new]
  PROVE  Faces' = [Faces EXCEPT ![t] = Face(new)]
BY DEF Data, Faces, Face

\* A change of one template is a change of its series, if it has a rule of Rules or
\* the one before, and its cursor is where it was or at yesterday.
LEMMA ChangeRefines ==
  ASSUME Data, NEW t \in Templates, t \in Existing, NEW new,
         template' = [template EXCEPT ![t] = new], UNCHANGED <<today, instance>>,
         new.count = template[t].count,
         \/ /\ new.rule = template[t].rule /\ new.last = template[t].last
            /\ new.state \in {template[t].state, "paused"}
         \/ /\ new.rule \in {template[t].rule} \cup Rules /\ new.last = today - 1
            /\ new.state \in {"active", "paused"}
  PROVE  Series!Change(t)
<1> DEFINE old == template[t]
<1>1. /\ Faces' = [Faces EXCEPT ![t] = Face(new)]
      /\ Faces[t] = Face(old)
  BY FaceChanged DEF Faces
<1>2. /\ Faces[t].state = old.state /\ Faces[t].rule = old.rule
      /\ Faces[t].last = old.last /\ Faces[t].count = old.count
      /\ old.state \in {"active", "paused"} /\ Faces[t] = Face(Faces[t])
  BY <1>1 DEF Existing, Face
<1> HIDE DEF old
<1>3. CASE /\ new.rule = old.rule /\ new.last = old.last /\ new.state \in {old.state, "paused"}
  <2>1. Face(new) = [Faces[t] EXCEPT !.state = new.state]
    <3>1. PICK face : face = Faces[t] /\ face = [state |-> old.state, rule |-> old.rule,
                                                last |-> old.last, count |-> old.count]
      BY <1>1 DEF Face
    <3>2. [face EXCEPT !.state = new.state] = Face(new)
      BY <1>3, <3>1 DEF Face, old
    <3>3. QED BY <3>1, <3>2, Zenon
  <2>2. Faces' = [Faces EXCEPT ![t].state = new.state]
    BY <1>1, <2>1, Zenon
  <2>3. QED BY <1>2, <1>3, <2>2 DEF Series!Change, Faces, Face
<1>4. CASE /\ new.rule \in {old.rule} \cup Rules /\ new.last = today - 1
           /\ new.state \in {"active", "paused"}
  <2>1. Face(new) = [state |-> new.state, rule |-> new.rule, last |-> today - 1,
                     count |-> Faces[t].count]
    BY <1>2, <1>4 DEF Face, old
  <2>2. PICK state, rule :
          /\ state \in {"active", "paused"} /\ rule \in {Faces[t].rule} \cup Rules
          /\ Faces' = [Faces EXCEPT ![t] =
               [state |-> state, rule |-> rule, last |-> today - 1, count |-> Faces[t].count]]
    BY <1>1, <1>2, <1>4, <2>1, Zenon
  <2>3. QED BY <1>2, <2>2, Zenon DEF Series!Change, Faces, Face
<1>5. QED BY <1>3, <1>4 DEF old

\* A step of the staff is one of the same kind, or an edit that does not show.
LEMMA StaffRefines ==
  ASSUME RecurrenceInv, StaffStep
  PROVE  Series!Next
<1>1. Data /\ today \in Nat
  BY RecurrenceAssumption DEF RecurrenceInv, Data, Days
<1>2. \A t \in Templates : Series!Change(t) => Series!Next
  BY DEF Series!Next
<1>3. ASSUME Dawn PROVE Series!Next
  BY <1>3 DEF Dawn, Series!Next, Series!Dawn, Days, Series!Days
<1>4. ASSUME NEW t \in Templates, CreateTemplate(t) PROVE Series!Next
  <2>1. PICK rule, new, base :
          /\ rule \in Rules /\ base = NoTemplate
          /\ new = [base EXCEPT !.state = "active", !.rule = rule, !.updatedAt = 1,
                                !.written = today]
          /\ template' = [template EXCEPT ![t] = new]
    BY <1>4 DEF CreateTemplate
  <2>2. Faces' = [Faces EXCEPT ![t] = Face(new)]
    BY <1>1, <2>1, FaceChanged
  <2>3. Face(new) = [state |-> "active", rule |-> rule, last |-> NoDay, count |-> 0]
    BY <2>1 DEF Face, NoTemplate
  <2>4. Faces[t].state = "unborn" /\ UNCHANGED <<today, instance>>
    BY <1>4 DEF CreateTemplate, Faces, Face
  <2>5. Series!Create(t)
    BY <2>1, <2>2, <2>3, <2>4 DEF Series!Create, Series!NoDay, NoDay, Faces, Face
  <2>6. QED BY <2>5 DEF Series!Next
<1>5. ASSUME NEW t \in Templates, UpdateTemplate(t) PROVE Series!Next
  <2>1. PICK rule, changed :
          /\ rule \in Rules
          /\ changed = [template[t] EXCEPT !.rule = rule, !.updatedAt = @ + 1, !.written = today]
          /\ template' = [template EXCEPT ![t] =
               IF rule = template[t].rule THEN changed ELSE Restarted(changed)]
    BY <1>5 DEF UpdateTemplate
  <2>2. t \in Existing /\ UNCHANGED <<today, instance>>
    BY <1>5 DEF UpdateTemplate
  <2>3. /\ template[t] \in TemplateState /\ template[t].state \in {"active", "paused"}
    BY <1>1, <2>2, ExistingType
  <2>4. /\ changed.rule = rule /\ changed.state = template[t].state
        /\ changed.last = template[t].last /\ changed.count = template[t].count
        /\ changed = [state |-> changed.state, rule |-> rule, last |-> changed.last,
             count |-> changed.count, updatedAt |-> changed.updatedAt,
             written |-> changed.written, since |-> changed.since]
    BY <2>1, <2>3 DEF TemplateState
  <2>5. PICK restarted : restarted = Restarted(changed)
    OBVIOUS
  <2>6. /\ restarted.rule = rule /\ restarted.state = template[t].state
        /\ restarted.last = today - 1 /\ restarted.count = template[t].count
    BY <2>4, <2>5 DEF Restarted
  <2>7. CASE rule = template[t].rule
    BY <1>1, <1>2, <2>1, <2>2, <2>4, <2>7, ChangeRefines
  <2>8. CASE rule # template[t].rule
    BY <1>1, <1>2, <2>1, <2>2, <2>3, <2>5, <2>6, <2>8, ChangeRefines
  <2>9. QED BY <2>7, <2>8
<1>6. ASSUME NEW t \in Templates, PauseTemplate(t) PROVE Series!Next
  <2>1. PICK new :
          /\ new = [template[t] EXCEPT !.state = "paused", !.updatedAt = @ + 1, !.written = today]
          /\ template' = [template EXCEPT ![t] = new]
    BY <1>6 DEF PauseTemplate
  <2>2. t \in Existing /\ UNCHANGED <<today, instance>>
    BY <1>6 DEF PauseTemplate
  <2>3. template[t] \in TemplateState
    BY <1>1, <2>2, ExistingType
  <2>4. /\ new.rule = template[t].rule /\ new.state = "paused"
        /\ new.last = template[t].last /\ new.count = template[t].count
    BY <2>1, <2>3 DEF TemplateState
  <2>5. QED BY <1>1, <1>2, <2>1, <2>2, <2>4, ChangeRefines
<1>7. ASSUME NEW t \in Templates, ResumeTemplate(t) PROVE Series!Next
  <2>1. PICK changed :
          /\ changed = [template[t] EXCEPT !.state = "active", !.updatedAt = @ + 1, !.written = today]
          /\ template' = [template EXCEPT ![t] = Restarted(changed)]
    BY <1>7 DEF ResumeTemplate
  <2>2. t \in Existing /\ UNCHANGED <<today, instance>>
    BY <1>7 DEF ResumeTemplate
  <2>3. template[t] \in TemplateState
    BY <1>1, <2>2, ExistingType
  <2>4. /\ changed.rule = template[t].rule /\ changed.count = template[t].count
        /\ changed = [state |-> "active", rule |-> changed.rule, last |-> changed.last,
             count |-> changed.count, updatedAt |-> changed.updatedAt,
             written |-> changed.written, since |-> changed.since]
    BY <2>1, <2>3 DEF TemplateState
  <2>5. PICK restarted : restarted = Restarted(changed)
    OBVIOUS
  <2>6. /\ restarted.rule = template[t].rule /\ restarted.state = "active"
        /\ restarted.last = today - 1 /\ restarted.count = template[t].count
    BY <2>4, <2>5 DEF Restarted
  <2>7. QED BY <1>1, <1>2, <2>1, <2>2, <2>5, <2>6, ChangeRefines
<1>8. ASSUME NEW t \in Templates, DeleteTemplate(t) PROVE Series!Next
  <2>1. PICK gone, new :
          /\ gone = NoTemplate /\ new = [gone EXCEPT !.state = "gone"]
          /\ template' = [template EXCEPT ![t] = new]
    BY <1>8 DEF DeleteTemplate
  <2>2. /\ Faces[t].state \in {"active", "paused"} /\ today' = today
        /\ instance' = [instance EXCEPT ![t] = [d \in Days |-> "none"]]
    BY <1>8 DEF DeleteTemplate, Existing, Faces, Face
  <2>3. PICK face : face = Series!NoSeries
    OBVIOUS
  <2>4. Face(new) = [face EXCEPT !.state = "gone"]
    BY <2>1, <2>3 DEF Face, NoTemplate, NoDay, Series!NoSeries, Series!NoDay
  <2>5. Faces' = [Faces EXCEPT ![t] = [Series!NoSeries EXCEPT !.state = "gone"]]
    <3>1. Faces' = [Faces EXCEPT ![t] = Face(new)]
      BY <1>1, <2>1, FaceChanged
    <3>2. QED BY <2>3, <2>4, <3>1, Zenon
  <2>6. Series!Delete(t)
    BY <2>2, <2>5, Zenon DEF Series!Delete, Series!NoEvents, Series!Days, Days, Faces, Face
  <2>7. QED BY <2>6 DEF Series!Next
<1>9. ASSUME NEW t \in Templates, NEW d \in Days, DestroyEvent(t, d) PROVE Series!Next
  <2>1. Series!Destroy(t, d)
    BY <1>9 DEF DestroyEvent, Series!Destroy
  <2>2. QED BY <2>1 DEF Series!Next, Days, Series!Days
<1>10. QED BY <1>3, <1>4, <1>5, <1>6, <1>7, <1>8, <1>9 DEF StaffStep

------------------------------------------------------------------------------
\* What a run planned is what comes next in the series it sees.

LEMMA SameCardinality == \A S : Series!Cardinality(S) = Cardinality(S)
BY Zenon DEF Series!Cardinality, Cardinality

LEMMA PlannedIsUpcoming ==
  ASSUME NEW t \in Templates, NEW w, NEW at, at = w.now, at \in Days,
         w.read \in [Templates -> TemplateState], w.read[t] = template[t]
  PROVE  Series!Upcoming(t, at) = Planned(w, t)
<1> DEFINE S == Visible(w, t)
           left == template[t].rule.endAfter - template[t].count
           limit == Min({MaxOccurrences, left})
           before(d) == Cardinality({e \in S : e < d})
<1>1. Series!Visible(t, at) = S
  BY DEF Series!Visible, Visible, Series!NoDay, NoDay
<1>2. \A d : before(d) \in Int
  <2> SUFFICES ASSUME NEW d PROVE before(d) \in Int
    OBVIOUS
  <2>1. IsFiniteSet(S) /\ {e \in S : e < d} \subseteq S
    BY PlannedSound
  <2>2. IsFiniteSet({e \in S : e < d})
    BY <2>1, FS_Subset
  <2>3. QED BY <2>2, FS_CardinalityType
<1>3. template[t].rule.endAfter \in Int /\ template[t].count \in Int /\ MaxOccurrences \in Int
  BY RecurrenceAssumption DEF TemplateState, NoTemplate
<1>4. \A n \in Int : n < limit
        <=> n < MaxOccurrences /\ template[t].count + n < template[t].rule.endAfter
  <2>1. left \in Int
    BY <1>3
  <2>2. limit \in {MaxOccurrences, left} /\ limit <= MaxOccurrences /\ limit <= left
    BY <1>3, <2>1, LesserOfTwo
  <2>3. \A n \in Int : n < left <=> template[t].count + n < template[t].rule.endAfter
    BY <1>3
  <2> HIDE DEF left, limit
  <2>4. QED BY <1>3, <2>1, <2>2, <2>3
<1>5. Planned(w, t) = {d \in S : before(d) < limit}
  BY DEF Planned, Earliest
<1>6. Series!Upcoming(t, at) =
        {d \in S : /\ before(d) < MaxOccurrences
                   /\ template[t].count + before(d) < template[t].rule.endAfter}
  <2> HIDE DEF S
  <2>1. \A d : Series!Before(t, at, d) = before(d)
    BY <1>1, SameCardinality DEF Series!Before
  <2> HIDE DEF before
  <2>2. QED BY <1>1, <2>1 DEF Series!Upcoming
<1> HIDE DEF S, limit, before
<1>7. QED BY <1>2, <1>4, <1>5, <1>6

\* What an overtaken run makes is visible by now.
LEMMA StraysRepeat ==
  ASSUME RecurrenceInv, NotAhead, NEW r \in Runs, Materialize(r), NEW t, Strays(r, t)
  PROVE  Series!Repeat(t) \/ UNCHANGED seriesState
<1>1. /\ t \in Templates /\ UNCHANGED <<today, template>> /\ template[t].state = "active"
      /\ New(t) \subseteq Planned(work[r], t) /\ Cardinality(New(t)) <= template[t].count
      /\ instance' = [instance EXCEPT ![t] =
           [d \in Days |-> IF d \in New(t) THEN "live" ELSE instance[t][d]]]
  BY DEF Strays
<1>2. instance \in [Templates -> [Days -> {"none", "live", "destroyed"}]]
  BY DEF RecurrenceInv, Data
<1>3. Faces[t].state = "active" /\ Faces[t].count = template[t].count /\ UNCHANGED Faces
  BY <1>1 DEF Faces, Face
<1>4. CASE instance' = instance
  BY <1>1, <1>3, <1>4 DEF seriesState
<1>5. CASE instance' # instance
  <2>1. instance'[t] # instance[t]
    BY <1>1, <1>2, <1>5
  <2>2. /\ work[r].now \in Days /\ work[r].read \in [Templates -> TemplateState]
        /\ work[r].now \in 0..today
    BY DEF Materialize, RecurrenceInv, WorkSound, ReadSound, Started, NotAhead
  <2>3. Planned(work[r], t) \subseteq Visible(work[r], t)
    BY <1>1, <2>2, PlannedSound
  <2>4. today \in Int /\ Ahead \in Int /\ New(t) \subseteq Days
    BY RecurrenceAssumption DEF RecurrenceInv, Data, Days, New
  <2>5. \A d \in New(t) : d <= today + Ahead /\ instance[t][d] # "live"
    BY <1>1, <2>2, <2>3, <2>4 DEF Visible, New, Days
  <2>6. PICK made : made = New(t)
    OBVIOUS
  <2>7. made \in SUBSET {d \in Series!Days : d <= today + Ahead /\ instance[t][d] # "live"}
    BY <2>4, <2>5, <2>6 DEF Series!Days, Days
  <2>8. Series!Cardinality(made) <= Faces[t].count
    BY <1>1, <1>3, <2>6, SameCardinality
  <2>9. instance' = [instance EXCEPT ![t] =
          [d \in Series!Days |-> IF d \in made THEN "live" ELSE instance[t][d]]]
    BY <1>1, <2>6 DEF Series!Days, Days
  <2>10. Faces[t].state = "active" /\ today' = today /\ Faces' = Faces
    BY <1>1, <1>3
  <2>11. Series!Repeat(t)
    BY <2>1, <2>7, <2>8, <2>9, <2>10, Zenon DEF Series!Repeat, Faces, Face
  <2>12. QED BY <2>11
<1>6. QED BY <1>4, <1>5

\* A materialization is a generation from the series as it stands, makes events that
\* are not counted, or shows nothing.
LEMMA MaterializeRefines ==
  ASSUME RecurrenceInv, NotAhead, NEW r \in Runs, Materialize(r)
  PROVE  Series!Next \/ UNCHANGED seriesState
<1>1. PICK t : t = Head(work[r].todo)
  OBVIOUS
<1>2. CASE \/ t \notin Templates
           \/ ~Unchanged(t, work[r].read[t], Planned(work[r], t) \ work[r].known)
  <2>1. CASE UNCHANGED <<today, template, instance, edits>>
    BY <2>1 DEF seriesState, Faces
  <2>2. CASE Strays(r, t)
    <3>1. t \in Templates
      BY <2>2 DEF Strays
    <3>2. QED BY <2>2, <3>1, StraysRepeat DEF Series!Next
  <2>3. QED BY <1>1, <1>2, <2>1, <2>2, RefusedWrite
<1>3. CASE /\ t \in Templates
           /\ Unchanged(t, work[r].read[t], Planned(work[r], t) \ work[r].known)
  <2>1. PICK w, at, planned, made, last :
          /\ w = work[r] /\ at = w.now /\ planned = Planned(w, t)
          /\ made = planned \ w.known /\ last = Max(planned)
    OBVIOUS
  <2>2. /\ at \in Days /\ w.read \in [Templates -> TemplateState]
        /\ template[t].state = "active" /\ w.read[t] = template[t] /\ planned # {}
        /\ \A d \in planned \cap w.known : instance[t][d] # "none"
    BY <1>1, <1>3, <2>1, AsRead
  <2>3. Series!Upcoming(t, at) = planned
    BY <1>3, <2>1, <2>2, PlannedIsUpcoming
  <2>4. last \in planned /\ \A d \in planned : d <= last
    <3>1. planned \subseteq Int /\ IsFiniteSet(planned)
      BY <1>3, <2>1, <2>2, PlannedSound DEF Days
    <3>2. QED BY <2>1, <2>2, <3>1, Greatest
  <2>5. \A d \in planned : instance[t][d] # IF d \in made THEN "live" ELSE "none"
    BY <1>3, <2>1, <2>2 DEF Unchanged
  <2>6. at \in 1..today
    BY <2>1, <2>2, RecurrenceAssumption DEF NotAhead, RecurrenceInv, Data, Days
  <2>7. PICK new :
          /\ new = [template[t] EXCEPT !.last = last, !.count = @ + Cardinality(made),
                      !.updatedAt = @ + 1, !.written = Wanted(w, t),
                      !.since = IF w.read[t].last = NoDay THEN w.now - 1 ELSE @]
          /\ template' = [template EXCEPT ![t] = new]
          /\ instance' = [instance EXCEPT ![t] =
               [d \in Days |-> IF d \in made THEN "live" ELSE instance[t][d]]]
          /\ today' = today
    BY <1>1, <1>3, <2>1 DEF Materialize, Made, FinalDate
  <2>8. Faces' = [Faces EXCEPT ![t] =
          [state |-> "active", rule |-> Faces[t].rule, last |-> last,
           count |-> Faces[t].count + Cardinality(made)]]
    <3>1. template[t] \in TemplateState
      BY <1>3 DEF RecurrenceInv, Data
    <3>2. /\ new.state = "active" /\ new.rule = template[t].rule /\ new.last = last
          /\ new.count = template[t].count + Cardinality(made)
      BY <2>2, <2>7, <3>1 DEF TemplateState
    <3>3. Faces' = [Faces EXCEPT ![t] = Face(new)]
      BY <1>3, <2>7, FaceChanged DEF RecurrenceInv
    <3>4. Faces[t].rule = template[t].rule /\ Faces[t].count = template[t].count
      BY <1>3 DEF Faces, Face
    <3>5. Face(new) = [state |-> "active", rule |-> Faces[t].rule, last |-> last,
                       count |-> Faces[t].count + Cardinality(made)]
      BY <3>2, <3>4 DEF Face
    <3>6. QED BY <3>3, <3>5
  <2>9. Faces[t].state = "active" /\ made \in SUBSET planned
    BY <1>3, <2>1, <2>2 DEF Faces, Face
  <2>10. Series!Generate(t)
    <3>1. /\ last \in Series!Upcoming(t, at) /\ made \in SUBSET Series!Upcoming(t, at)
          /\ \A d \in Series!Upcoming(t, at) :
               d <= last /\ instance[t][d] # IF d \in made THEN "live" ELSE "none"
      BY <2>3, <2>4, <2>5, <2>9
    <3>2. instance' = [instance EXCEPT ![t] =
            [d \in Series!Days |-> IF d \in made THEN "live" ELSE instance[t][d]]]
      BY <2>7 DEF Series!Days, Days
    <3>3. Faces' = [Faces EXCEPT ![t] =
            [state |-> "active", rule |-> Faces[t].rule, last |-> last,
             count |-> Faces[t].count + Series!Cardinality(made)]]
      BY <2>8, SameCardinality, Zenon
    <3>4. \E a \in 1..today : \E l \in Series!Upcoming(t, a), m \in SUBSET Series!Upcoming(t, a) :
            /\ \A d \in Series!Upcoming(t, a) :
                 d <= l /\ instance[t][d] # IF d \in m THEN "live" ELSE "none"
            /\ Faces' = [Faces EXCEPT ![t] =
                 [state |-> "active", rule |-> Faces[t].rule, last |-> l,
                  count |-> Faces[t].count + Series!Cardinality(m)]]
            /\ instance' = [instance EXCEPT ![t] =
                 [d \in Series!Days |-> IF d \in m THEN "live" ELSE instance[t][d]]]
      BY <2>6, <3>1, <3>2, <3>3, Zenon
    <3>5. Faces[t].state = "active" /\ today' = today
      BY <2>7, <2>9
    <3>6. QED BY <3>4, <3>5, Zenon DEF Series!Generate, Faces, Face
  <2>11. QED BY <1>3, <2>10 DEF Series!Next
<1>4. QED BY <1>2, <1>3

\* Runs that overlap, die, are late or act on what they read long ago look like
\* generations of one step each from templates as staff left them, and an overtaken
\* run makes no more than was counted, and nothing ahead of its time.
THEOREM ImplementsEventSeries == Spec => RefinesEventSeries
<1>1. Init => Series!Init
  BY DEF Init, NoTemplate, NoDay, Days, Series!Init, Series!NoSeries, Series!NoEvents,
     Series!NoDay, Series!Days
<1>2. RecurrenceInv /\ NotAhead /\ [Next]_recurrenceVars
        => [seriesState' # seriesState /\ Series!Next]_seriesState
  <2> SUFFICES ASSUME RecurrenceInv, NotAhead, [Next]_recurrenceVars
               PROVE  [seriesState' # seriesState /\ Series!Next]_seriesState
    OBVIOUS
  <2>1. ASSUME NEW r \in Runs, Start(r) \/ Proceed(r) \/ Select(r) \/ LookUp(r) \/ Finish(r) \/ Abort(r)
        PROVE  UNCHANGED seriesState
    <3>1. UNCHANGED <<today, template, instance, edits>>
      BY <2>1, StartStep, ProceedStep, SelectStep, LookUpStep, FinishStep, AbortStep
    <3>2. QED BY <3>1 DEF seriesState, Faces
  <2>2. CASE UNCHANGED recurrenceVars \/ (Lapse /\ UNCHANGED <<staffVars, work>>)
    BY <2>2 DEF recurrenceVars, staffVars, seriesState, Faces
  <2>3. QED BY <2>1, <2>2, StaffRefines, MaterializeRefines DEF Next, StaffStep, RunBatch
<1>3. QED
  BY <1>1, <1>2, RecurrenceInvariant, AlwaysNotAhead, PTL
  DEF Spec, RefinesEventSeries, Series!Spec, Series!seriesVars, seriesState, Faces, Face
=============================================================================
