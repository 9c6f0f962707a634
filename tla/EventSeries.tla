----------------------------- MODULE EventSeries -----------------------------
(***************************************************************************)
(* What the recurrence job promises of a series of events, without         *)
(* processes, leases, batches, or anything read earlier: the next events   *)
(* of a template are made together, in one step, from the template as it   *)
(* stands, at a time that has come, and its cursor moves to the last one.  *)
(* Besides, events may be made that are not counted: no more at a time     *)
(* than were counted so far, and none ahead of the time they are visible.  *)
(***************************************************************************)
EXTENDS Integers, FiniteSets

CONSTANTS
  Templates,      \* ids
  LastDay,        \* bound: the days explored are 1..LastDay
  Rules,          \* sets of days with the number of events to stop after
  Ahead,          \* visibility, in days
  MaxOccurrences  \* events made at a time

VARIABLES
  today,   \* the clock
  series,  \* the templates: state, rule, the last day generated and the events counted
  event    \* the events of each by day

seriesVars == <<today, series, event>>

Days == 1..LastDay
NoDay == -1
NoSeries == [state |-> "unborn", rule |-> [days |-> {}, endAfter |-> 0],
             last |-> NoDay, count |-> 0]
NoEvents == [d \in Days |-> "none"]

Init ==
  /\ today = 1
  /\ series = [t \in Templates |-> NoSeries]
  /\ event = [t \in Templates |-> NoEvents]

Dawn == today + 1 \in Days /\ today' = today + 1 /\ UNCHANGED <<series, event>>

Create(t) ==
  /\ series[t].state = "unborn"
  /\ \E rule \in Rules :
       series' = [series EXCEPT ![t] =
         [state |-> "active", rule |-> rule, last |-> NoDay, count |-> 0]]
  /\ UNCHANGED <<today, event>>

\* Staff pause a series, or edit what does not show here; one that is resumed or
\* has another rule starts again with the events of today.
Change(t) ==
  /\ series[t].state \in {"active", "paused"}
  /\ UNCHANGED <<today, event>>
  /\ \/ \E state \in {series[t].state, "paused"} : series' = [series EXCEPT ![t].state = state]
     \/ \E state \in {"active", "paused"}, rule \in {series[t].rule} \cup Rules :
          series' = [series EXCEPT ![t] =
            [state |-> state, rule |-> rule, last |-> today - 1, count |-> series[t].count]]

Delete(t) ==
  /\ series[t].state \in {"active", "paused"}
  /\ series' = [series EXCEPT ![t] = [NoSeries EXCEPT !.state = "gone"]]
  /\ event' = [event EXCEPT ![t] = NoEvents]
  /\ UNCHANGED today

Destroy(t, d) ==
  /\ event[t][d] = "live"
  /\ event' = [event EXCEPT ![t][d] = "destroyed"]
  /\ UNCHANGED <<today, series>>

Visible(t, at) ==
  LET last == IF series[t].last = NoDay THEN at - 1 ELSE series[t].last IN
  {d \in series[t].rule.days : last < d /\ d <= at + Ahead}

Before(t, at, d) == Cardinality({e \in Visible(t, at) : e < d})

\* The days whose turn it is when the series is looked at on day at.
Upcoming(t, at) ==
  {d \in Visible(t, at) : /\ Before(t, at, d) < MaxOccurrences
                          /\ series[t].count + Before(t, at, d) < series[t].rule.endAfter}

\* Afterwards each upcoming day has its event.  Those made now are counted; one
\* that was destroyed may be made again.
Generate(t) ==
  /\ series[t].state = "active"
  /\ today' = today
  /\ \E at \in 1..today :
     \E last \in Upcoming(t, at), made \in SUBSET Upcoming(t, at) :
       /\ \A d \in Upcoming(t, at) :
            d <= last /\ event[t][d] # IF d \in made THEN "live" ELSE "none"
       /\ series' = [series EXCEPT ![t] = [state |-> "active", rule |-> series[t].rule,
                         last |-> last, count |-> series[t].count + Cardinality(made)]]
       /\ event' = [event EXCEPT ![t] = [d \in Days |-> IF d \in made THEN "live" ELSE event[t][d]]]

\* The events of a run that another one overtook, when both wanted one updated_at.
Repeat(t) ==
  /\ series[t].state = "active"
  /\ event'[t] # event[t] /\ UNCHANGED <<today, series>>
  /\ \E made \in SUBSET {d \in Days : d <= today + Ahead /\ event[t][d] # "live"} :
       /\ Cardinality(made) <= series[t].count
       /\ event' = [event EXCEPT ![t] = [d \in Days |-> IF d \in made THEN "live" ELSE event[t][d]]]

Next ==
  \/ Dawn
  \/ \E t \in Templates :
       \/ Change(t) \/ Create(t) \/ Delete(t) \/ Generate(t) \/ Repeat(t)
       \/ \E d \in Days : Destroy(t, d)

\* Most steps of the job change nothing here.
Spec == Init /\ [][seriesVars' # seriesVars /\ Next]_seriesVars
==============================================================================
