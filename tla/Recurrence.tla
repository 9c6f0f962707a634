----------------------------- MODULE Recurrence -----------------------------
(***************************************************************************)
(* Recurring events: SqliteEventsStore.materializeDueBatch as the batch of *)
(* a JobLease, next to staff who edit, pause, resume and delete templates  *)
(* and destroy the events made from them.  A run that lost its lease goes  *)
(* on with the templates it read.                                          *)
(*                                                                         *)
(* A date is a day; what the rule, the start time and the creation date of *)
(* a template say together is the set of its days.  Rules are those whose  *)
(* columns are all in the row of the template (not its weekdays, which are *)
(* rows of their own), and a staff request that read the row first and     *)
(* wrote under its updated_at is a single step.                            *)
(*                                                                         *)
(* updated_at grows with every write (monotonicTimestamp), so here it is a *)
(* count of the writes, and written the day of it.  The INSERTs of a batch *)
(* ask that it is what the batch wants to write, which another batch that  *)
(* read the same row may have written: of times of one day, whether they   *)
(* are the same is a choice.                                               *)
(***************************************************************************)
EXTENDS JobLease, FiniteSets, FiniteSetsExt, SequencesExt

CONSTANTS
  Templates,     \* ids in the order of the keyset
  LastDay,       \* bound: the days explored are 1..LastDay
  Rules,         \* sets of days with the number of events to stop after
  Ahead,         \* visibility_offset_minutes, in days
  MaxTemplates, MaxOccurrences,  \* limits of one batch
  MaxEdits       \* bound: staff operations explored

Days == 1..LastDay

ASSUME RecurrenceAssumption ==
  /\ Templates \subseteq Nat \ {0} /\ IsFiniteSet(Templates) /\ Templates # {}
  /\ Cursors = Templates
  /\ LastDay \in Nat \ {0}
  /\ Rules \subseteq [days : SUBSET Days, endAfter : Nat]
  /\ Ahead \in Nat /\ MaxEdits \in Nat
  /\ MaxTemplates \in Nat \ {0} /\ MaxOccurrences \in Nat \ {0}

VARIABLES
  today,      \* the clock
  template,   \* recurring_templates
  instance,   \* events by series_id and instance_date
  work,       \* what a run has read
  edits       \* staff operations so far

staffVars == <<today, template, instance, edits>>
recurrenceVars == <<leaseVars, staffVars, work>>

NoDay == -1  \* last_generated_date IS NULL
NoTemplate == [state |-> "unborn", rule |-> [days |-> {}, endAfter |-> 0],
               last |-> NoDay, count |-> 0, updatedAt |-> 0, written |-> 0, since |-> 0]
NoWork == [now |-> 0, todo |-> <<>>, read |-> <<>>, known |-> {}, asked |-> FALSE]

Init ==
  /\ LeaseInit
  /\ today = 1
  /\ template = [t \in Templates |-> NoTemplate]
  /\ instance = [t \in Templates |-> [d \in Days |-> "none"]]
  /\ work = [r \in Runs |-> NoWork]
  /\ edits = 0

Existing == {t \in Templates : template[t].state \in {"active", "paused"}}
Active == {t \in Templates : template[t].state = "active"}

------------------------------------------------------------------------------
\* The clock and the staff.

Dawn ==
  /\ today + 1 \in Days
  /\ today' = today + 1
  /\ UNCHANGED <<leaseVars, template, instance, work, edits>>

Edit == edits < MaxEdits /\ edits' = edits + 1

CreateTemplate(t) ==
  /\ template[t].state = "unborn"
  /\ \E rule \in Rules :
       template' = [template EXCEPT ![t] =
         [NoTemplate EXCEPT !.state = "active", !.rule = rule, !.updatedAt = 1,
                            !.written = today]]
  /\ UNCHANGED <<leaseVars, today, instance, work, edits>>

Unmoved(record) == record  \* mutant: the cursor is not moved with the rule
\* recurrenceCursorDate: generation starts again with the events of today.
Restarted(record) == [record EXCEPT !.last = today - 1, !.since = today - 1]

\* updateTemplate: a new rule or start time restarts the cursor.
UpdateTemplate(t) ==
  /\ Edit /\ t \in Existing
  /\ \E rule \in Rules :
       LET changed == [template[t] EXCEPT !.rule = rule, !.updatedAt = @ + 1,
                                         !.written = today] IN
       template' = [template EXCEPT ![t] =
         IF rule = template[t].rule THEN changed ELSE Restarted(changed)]
  /\ UNCHANGED <<leaseVars, today, instance, work>>

PauseTemplate(t) ==
  /\ Edit /\ t \in Existing
  /\ template' = [template EXCEPT ![t] =
       [template[t] EXCEPT !.state = "paused", !.updatedAt = @ + 1, !.written = today]]
  /\ UNCHANGED <<leaseVars, today, instance, work>>

\* Also of a template that is not paused.
ResumeTemplate(t) ==
  /\ Edit /\ t \in Existing
  /\ LET changed == [template[t] EXCEPT !.state = "active", !.updatedAt = @ + 1,
                                         !.written = today] IN
     template' = [template EXCEPT ![t] = Restarted(changed)]
  /\ UNCHANGED <<leaseVars, today, instance, work>>

\* The events stay, detached from the series.
DeleteTemplate(t) ==
  /\ Edit /\ t \in Existing
  /\ template' = [template EXCEPT ![t] = [NoTemplate EXCEPT !.state = "gone"]]
  /\ instance' = [instance EXCEPT ![t] = [d \in Days |-> "none"]]
  /\ UNCHANGED <<leaseVars, today, work>>

DestroyEvent(t, d) ==
  /\ Edit /\ instance[t][d] = "live"
  /\ instance' = [instance EXCEPT ![t][d] = "destroyed"]
  /\ UNCHANGED <<leaseVars, today, template, work>>

------------------------------------------------------------------------------
\* materializeDueBatch.

\* The time of a run is read before it asks for the lease.
Start(r) ==
  /\ RecordRunning(r)
  /\ work' = [work EXCEPT ![r] = [NoWork EXCEPT !.now = today]]
  /\ UNCHANGED staffVars

After(c) == {t \in Active : c = None \/ t > c}
Window(c) == IF After(c) = {} THEN Active ELSE After(c)
Rows(c) == {t \in Window(c) : Cardinality({u \in Window(c) : u < t}) < MaxTemplates}

FromTheTop(c) == None  \* mutant: every batch starts with the first template
\* nextTemplateCursor
NextCursor(c) == IF Rows(c) = Window(c) THEN None ELSE Max(Rows(c))

\* selectWindow, once more from the first template when it ran out.
Select(r) ==
  /\ run[r].pc = "batch" /\ work[r].read = <<>>
  /\ LET c == run[r].seen IN
     /\ work' = [work EXCEPT ![r].todo = SetToSortSeq(Rows(c), LAMBDA t, u : t < u),
                             ![r].read = [t \in Templates |->
                                            IF t \in Rows(c) THEN template[t] ELSE NoTemplate]]
     /\ run' = [run EXCEPT ![r].next = NextCursor(c)]
  /\ UNCHANGED <<lease, cursor, status, cut, faults, staffVars>>

\* The rest of the templates in hand.
Rest(s) == [NoWork EXCEPT !.now = s.now, !.todo = Tail(s.todo),
                          !.read = [s.read EXCEPT ![Head(s.todo)] = NoTemplate]]

\* The next days of the rule after the cursor that are visible by now.
Visible(s, t) ==
  LET last == IF s.read[t].last = NoDay THEN s.now - 1 ELSE s.read[t].last IN
  {d \in s.read[t].rule.days : d > last /\ d <= s.now + Ahead}
Earliest(S, n) == {d \in S : Cardinality({e \in S : e < d}) < n}
Planned(s, t) ==
  Earliest(Visible(s, t),
           Min({MaxOccurrences, s.read[t].rule.endAfter - s.read[t].count}))

\* The planned events that exist already, read before they are written.
LookUp(r) ==
  /\ run[r].pc = "batch" /\ work[r].todo # <<>> /\ ~work[r].asked
  /\ LET t == Head(work[r].todo)
         planned == Planned(work[r], t) IN
     work' = [work EXCEPT ![r] =
       IF planned = {} THEN Rest(@)
       ELSE [@ EXCEPT !.asked = TRUE,
                      !.known = {d \in planned : instance[t][d] = "live"}]]
  /\ UNCHANGED <<leaseVars, staffVars>>

\* UPDATE recurring_templates ... WHERE.
CountOnly(t, read, fresh) ==  \* mutant: without paused and updated_at
  template[t].count = read.count /\ \A d \in fresh : instance[t][d] # "live"
SameCount(t, read, fresh) ==  \* mutant: without updated_at
  /\ template[t].state = "active"
  /\ template[t].count = read.count
  /\ \A d \in fresh : instance[t][d] # "live"
NotThere(t, read, fresh) ==  \* mutant: left to the unique index on events
  \A d \in fresh : instance[t][d] # "live"
Unchanged(t, read, fresh) ==
  /\ template[t].state = "active"
  /\ template[t].count = read.count
  /\ template[t].updatedAt = read.updatedAt
  /\ \A d \in fresh : instance[t][d] # "live"

\* monotonicTimestamp: the updated_at a batch wants to write.
Wanted(s, t) == IF s.now > s.read[t].written THEN s.now ELSE s.read[t].written

\* SELECT ... WHERE of the INSERTs after an UPDATE that was refused: updated_at moved
\* to what this batch wants, and as many events were counted as it would make.
Overtaken(s, t, fresh) ==
  /\ template[t].state = "active"
  /\ template[t].updatedAt > s.read[t].updatedAt /\ template[t].written = Wanted(s, t)
  /\ template[t].count = s.read[t].count + Cardinality(fresh)

FinalDate(s, planned) == Max(planned)
Made(t, fresh) ==
  instance' = [instance EXCEPT ![t] =
    [d \in Days |-> IF d \in fresh THEN "live" ELSE instance[t][d]]]

\* The batch of materializeTemplate.  One that finds the template changed leaves it
\* alone, may make its events all the same, and the run goes on.
Materialize(r) ==
  /\ run[r].pc = "batch" /\ work[r].todo # <<>> /\ work[r].asked
  /\ LET t == Head(work[r].todo)
         s == work[r]
         planned == Planned(s, t)
         fresh == planned \ s.known IN
     /\ IF Unchanged(t, s.read[t], fresh)
        THEN /\ template' = [template EXCEPT ![t] =
                  [template[t] EXCEPT
                     !.last = FinalDate(s, planned),
                     !.count = @ + Cardinality(fresh),
                     !.updatedAt = @ + 1,
                     !.written = Wanted(s, t),
                     !.since = IF s.read[t].last = NoDay THEN s.now - 1 ELSE @]]
             /\ Made(t, fresh)
        ELSE /\ UNCHANGED template
             /\ UNCHANGED instance \/ (Overtaken(s, t, fresh) /\ Made(t, fresh))
     /\ work' = [work EXCEPT ![r] = Rest(@)]
  /\ UNCHANGED <<leaseVars, today, edits>>

Finish(r) ==
  /\ work[r].read # <<>> /\ work[r].todo = <<>>
  /\ EndBatch(r, run[r].next)
  /\ work' = [work EXCEPT ![r] = [NoWork EXCEPT !.now = work[r].now]]
  /\ UNCHANGED <<lease, cursor, status, cut, faults, staffVars>>

\* The run dies, or a statement of it fails.
Abort(r) ==
  /\ StatementFails(r) \/ Die(r)
  /\ work' = [work EXCEPT ![r] = NoWork]
  /\ UNCHANGED staffVars

\* A run with a batch ahead or under way; after it, what it read is forgotten.
Started == {"acquire", "cursor", "batch", "save", "more"}

Proceed(r) ==
  /\ run[r].pc # "idle" /\ RunStep(r)
  /\ work' = [work EXCEPT ![r] = IF run'[r].pc \in Started THEN @ ELSE NoWork]
  /\ UNCHANGED staffVars

RunBatch(r) == Select(r) \/ LookUp(r) \/ Materialize(r) \/ Finish(r)

Next ==
  \/ Dawn
  \/ \E t \in Templates :
       \/ CreateTemplate(t) \/ UpdateTemplate(t) \/ PauseTemplate(t)
       \/ ResumeTemplate(t) \/ DeleteTemplate(t)
       \/ \E d \in Days : DestroyEvent(t, d)
  \/ \E r \in Runs : Start(r) \/ Proceed(r) \/ RunBatch(r) \/ Abort(r)
  \/ Lapse /\ UNCHANGED <<staffVars, work>>

Spec == Init /\ [][Next]_recurrenceVars

\* The schedules start the job again and again, its calls return, and leases that
\* nobody renews run out.
FairSpec ==
  /\ Spec
  /\ \A r \in Runs : WF_recurrenceVars(Start(r) \/ Proceed(r) \/ RunBatch(r))
  /\ WF_recurrenceVars(Lapse /\ UNCHANGED <<staffVars, work>>)

------------------------------------------------------------------------------
\* Properties.

TemplateState ==
  [state : {"unborn", "active", "paused", "gone"},
   rule : Rules \cup {NoTemplate.rule},
   last : {NoDay} \cup 0..LastDay, count : Nat, updatedAt : Nat, written : Nat, since : Nat]

TypeOK ==
  /\ LeaseTypeOK
  /\ today \in Days
  /\ template \in [Templates -> TemplateState]
  /\ instance \in [Templates -> [Days -> {"none", "live", "destroyed"}]]
  /\ edits \in 0..MaxEdits
  /\ \A r \in Runs : work[r].todo # <<>> => run[r].pc = "batch"

New(t) == {d \in Days : instance[t][d] # "live" /\ instance'[t][d] = "live"}

\* A run makes events though another one counted as many since it read the template;
\* the template stays as it is.
Repeated(t) ==
  /\ template'[t] = template[t]
  /\ \E r \in Runs :
       /\ work[r].asked /\ Head(work[r].todo) = t
       /\ New(t) \subseteq Planned(work[r], t)
       /\ work[r].read[t].count + Cardinality(New(t)) <= template[t].count

\* Every event is made of a template that is unpaused when the event appears: on a
\* due day of its rule as it stands, not as some run read it, and counted within
\* endAfter.  Only a run that was overtaken makes others: for as many as were counted.
MadeByTheRule ==
  [][\A t \in Templates : New(t) # {} =>
       /\ template[t].state = "active"
       /\ \/ /\ New(t) \subseteq template[t].rule.days
             /\ template'[t].count = template[t].count + Cardinality(New(t))
             /\ template'[t].count <= template[t].rule.endAfter
          \/ Repeated(t)]_recurrenceVars

\* An event that staff destroyed stays away, whatever a late run still has in hand,
\* unless staff moved the cursor back to before its day or the run was overtaken.
StaysDestroyed ==
  [][\A t \in Templates : \A d \in New(t) :
       instance[t][d] = "destroyed" => template[t].last < d \/ Repeated(t)]_recurrenceVars

\* The cursor of a template never passes a day without its event, whichever runs
\* died or raced, from where it was last restarted.
NothingSkipped ==
  \A t \in Existing : \A d \in template[t].rule.days :
    template[t].since < d /\ d <= template[t].last => instance[t][d] # "none"

\* Every due event is made in the end: each run takes the next templates in turn.
Due(t, d) ==
  /\ t \in Active /\ instance[t][d] = "none"
  /\ d \in template[t].rule.days
  /\ template[t].last # NoDay /\ template[t].last < d /\ d <= today + Ahead
  /\ template[t].count < template[t].rule.endAfter

EveryEventMade == \A t \in Templates, d \in Days : Due(t, d) ~> ~Due(t, d)

\* Any number of runs, late, dead or overlapping, behave as if each template were
\* looked at and its next events made in one step, from what staff made of it; but
\* for the events a run makes that was overtaken.
Series == INSTANCE EventSeries
  WITH series <- [t \in Templates |->
         [state |-> template[t].state, rule |-> template[t].rule,
          last |-> template[t].last, count |-> template[t].count]],
       event <- instance
RefinesEventSeries == Series!Spec
=============================================================================
