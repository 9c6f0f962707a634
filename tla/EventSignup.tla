----------------------------- MODULE EventSignup -----------------------------
(***************************************************************************)
(* One event of EventsService over SqliteEventsStore: sign-ups, votes,     *)
(* draws, edits and the archive, next to the scheduled jobs that draw      *)
(* raffles and archive events.                                             *)
(*                                                                         *)
(* A request reads the row of the event, some also what hangs on it, and   *)
(* writes in one batch whose UPDATE asks that updated_at is what it read.  *)
(* monotonicTimestamp takes the row past that, so a request keeps one      *)
(* flag: the row is as it read it.  Only the archive job writes the time   *)
(* it started at, which may be an updated_at in hand (AutoArchive).        *)
(*                                                                         *)
(* The statements after the UPDATE ask that updated_at is what the request *)
(* wants to write.  Two requests of one millisecond, or both behind the    *)
(* row, want the same: then those statements of the one that is refused    *)
(* are applied (Late).  The times are left out: whether a refused request  *)
(* wants what another wrote since it read is a choice.                     *)
(*                                                                         *)
(* Every event has an end and auto_archive; signup stands for the types    *)
(* without votes or draw.                                                  *)
(***************************************************************************)
EXTENDS Integers, FiniteSets, FiniteSetsExt

CONSTANTS
  Members, Answers,  \* users; answers of a poll
  None,              \* SQL NULL
  Requests, Job,     \* requests of users at a time; the raffle job
  Ends, Patches,     \* end_at, and decisions of an edit, explored
  SignedUp,          \* who may have signed up already, where it starts
  LastInstant,       \* bound of the clock
  MaxRequests        \* bound: requests of users explored

VARIABLES
  now,      \* the clock
  event,    \* the row of events
  members,  \* event_participants
  votes,    \* event_poll_votes
  winners,  \* event_raffle_winners, with event_raffle_draws; {} before the draw
  req,      \* open requests and the job
  made,     \* requests so far
  collided  \* auxiliary: two requests wanted one updated_at, and both were applied

vars == <<now, event, members, votes, winners, req, made, collided>>

Counts == 1..Cardinality(Members)
\* What a request to update the event may carry, one decision at a time.
Decisions ==
  [locked : BOOLEAN] \cup [archived : BOOLEAN] \cup [end : Ends]
  \cup [capacity : Counts \cup {None}] \cup [count : Counts]
  \cup [type : {"signup", "poll"}] \cup [type : {"raffle"}, count : Counts]

ASSUME SignupAssumption ==
  /\ IsFiniteSet(Members) /\ Members # {} /\ Job \notin Requests
  /\ None \notin Answers \cup Counts /\ Ends \subseteq Nat /\ Patches \subseteq Decisions
  /\ SignedUp \subseteq SUBSET Members
  /\ LastInstant \in Nat /\ MaxRequests \in Nat

Options == [poll |-> TRUE]  \* a poll with other options
NoPatch == [none |-> None]
NoReq == [pc |-> "idle", kind |-> "none", users |-> {}, choice |-> None,
          patch |-> NoPatch, current |-> FALSE, pool |-> {}, count |-> 0]

NewEvent(type, end) ==
  [alive |-> TRUE, type |-> type, poll |-> type = "poll", capacity |-> None, end |-> end,
   count |-> IF type = "raffle" THEN 1 ELSE None,
   locked |-> FALSE, archived |-> FALSE, autoArchived |-> FALSE]
NoVotes == [m \in Members |-> None]

\* Some members have signed up by now.
Init ==
  /\ now = 0
  /\ \E type \in {"signup", "raffle", "poll"}, end \in Ends : event = NewEvent(type, end)
  /\ members \in (IF event.type = "poll" THEN {{}} ELSE SignedUp)
  /\ votes = NoVotes /\ winners = {}
  /\ req = [r \in Requests \cup {Job} |-> NoReq]
  /\ made = 0 /\ collided = FALSE

Voted == votes # NoVotes
Drawn == winners # {}

Tick ==
  /\ now < LastInstant
  /\ now' = now + 1
  /\ UNCHANGED <<event, members, votes, winners, req, made, collided>>

------------------------------------------------------------------------------
\* A request reads the row.  Two may be open for long, in no order.

Slot == CHOOSE r \in Requests : req[r].pc = "idle" \/ \A q \in Requests : req[q].pc # "idle"

Asks(r, q) ==
  /\ req[r].pc = "idle" /\ r = Slot /\ made < MaxRequests /\ event.alive
  /\ made' = made + 1
  /\ req' = [req EXCEPT ![r] =
       [q EXCEPT !.pc = IF q.kind \in {"draw", "edit"} THEN "rest" ELSE "write",
                 !.current = TRUE]]
  /\ UNCHANGED <<now, event, members, votes, winners, collided>>

AskJoin(r) ==
  /\ ~event.archived /\ event.type # "poll" /\ ~event.locked
  /\ \E m \in Members : Asks(r, [NoReq EXCEPT !.kind = "join", !.users = {m}])

AskAdd(r) ==
  /\ ~event.archived /\ event.type # "poll"
  /\ \E U \in SUBSET Members \ {{}} : Asks(r, [NoReq EXCEPT !.kind = "add", !.users = U])

AskLeave(r) ==
  /\ ~event.archived
  /\ \E m \in Members : Asks(r, [NoReq EXCEPT !.kind = "leave", !.users = {m}])

AskRemove(r) == \E U \in SUBSET Members \ {{}} : Asks(r, [NoReq EXCEPT !.kind = "leave", !.users = U])

\* end_at is compared with the start of the request, here and in the batch.
AskVote(r) ==
  /\ ~event.archived /\ event.poll
  /\ \E m \in Members, c \in Answers, start \in 0..now :
       event.end > start /\ Asks(r, [NoReq EXCEPT !.kind = "vote", !.users = {m}, !.choice = c])

AskDraw(r) ==
  /\ ~event.archived /\ event.type = "raffle"
  /\ Asks(r, [NoReq EXCEPT !.kind = "draw", !.count = event.count])

AskArchive(r) == ~event.archived /\ Asks(r, [NoReq EXCEPT !.kind = "archive"])

NewType(old, patch) == IF "type" \in DOMAIN patch THEN patch.type ELSE old

\* prepareUpdate: the columns a type does not have go with it, and the settings,
\* options and votes of a poll (poll) are made or deleted with the type.
Prepared(old, patch) ==
  LET type == NewType(old, patch)
      gone == CASE type = "poll" -> {"capacity", "count"}
                [] type = "signup" -> {"count"}
                [] OTHER -> {}
      poll == IF type = old THEN {} ELSE {"poll"}
  IN [f \in DOMAIN patch \cup gone \cup poll |->
        CASE f \in gone -> None [] f = "poll" -> type = "poll" [] OTHER -> patch[f]]

AskEdit(r) ==
  \E patch \in Patches \cup (IF event.type = "poll" THEN {Options} ELSE {}) :
    LET prepared == Prepared(event.type, patch) IN
    /\ NewType(event.type, patch) = "poll" => event.poll \/ "poll" \in DOMAIN prepared
    /\ Asks(r, [NoReq EXCEPT !.kind = "edit", !.patch = prepared])

\* listDue of the raffle job.
DueRaffle(at) ==
  /\ event.alive /\ event.type = "raffle" /\ ~event.archived /\ event.end <= at
  /\ members # {} /\ ~Drawn

ListDue(at) ==
  /\ req[Job].pc = "idle" /\ DueRaffle(at)
  /\ req' = [req EXCEPT ![Job] = [NoReq EXCEPT !.pc = "rest", !.kind = "draw",
                                               !.current = TRUE, !.count = event.count]]
  /\ UNCHANGED <<now, event, members, votes, winners, made, collided>>

\* Participants, votes and winners are read after the row.  Votes and winners
\* block an edit that changes what they mean.
Allowed(q) ==
  IF q.kind = "draw" THEN members # {} /\ ~Drawn
  ELSE /\ Voted => "poll" \notin DOMAIN q.patch
       /\ Drawn => {"poll", "count"} \cap DOMAIN q.patch = {}

ReadRest(r) ==
  LET q == req[r] IN
  /\ q.pc = "rest"
  /\ req' = [req EXCEPT ![r] =
       IF event.alive /\ Allowed(q)
       THEN [q EXCEPT !.pc = "write", !.pool = IF q.kind = "draw" THEN members ELSE {}]
       ELSE NoReq]
  /\ UNCHANGED <<now, event, members, votes, winners, made, collided>>

------------------------------------------------------------------------------
\* The batch.  An UPDATE that is applied takes the row past what the others read;
\* an answer whose option is replaced cannot be voted for any more.

Wins(r, kind) == req[r].pc = "write" /\ req[r].kind = kind /\ event.alive
Closes(r, updates, replaces) ==
  req' = [q \in DOMAIN req |->
            IF q = r THEN NoReq
            ELSE [req[q] EXCEPT !.current = @ /\ ~updates,
                                !.choice = IF replaces THEN None ELSE @]]
Written(r) == Closes(r, TRUE, FALSE) /\ UNCHANGED collided

BeforeThem(q) ==  \* mutant: the members of the request are not counted
  event.capacity # None => Cardinality(members) < event.capacity
HasRoom(q) ==
  event.capacity # None => Cardinality(members \cup q.users) <= event.capacity

\* The condition of the UPDATE and the trigger on event_participants, which asks
\* the clock of the database.
SignUp(r, kind) ==
  LET q == req[r] IN
  /\ Wins(r, kind) /\ q.current
  /\ event.type # "poll" /\ ~event.archived /\ event.end > now
  /\ kind = "join" => ~event.locked
  /\ ~(q.users \subseteq members) /\ HasRoom(q)
  /\ members' = members \cup q.users
  /\ Written(r)
  /\ UNCHANGED <<now, event, votes, winners, made>>

Leave(r) ==
  LET q == req[r] IN
  /\ Wins(r, "leave") /\ q.current
  /\ q.users \cap members # {}
  /\ members' = members \ q.users
  /\ Written(r)
  /\ UNCHANGED <<now, event, votes, winners, made>>

Vote(r) ==
  LET q == req[r] IN
  /\ Wins(r, "vote") /\ q.current
  /\ event.type = "poll" /\ ~event.archived /\ q.choice # None
  /\ \E m \in q.users : votes[m] # q.choice /\ votes' = [votes EXCEPT ![m] = q.choice]
  /\ Written(r)
  /\ UNCHANGED <<now, event, members, winners, made>>

\* The winners were chosen among those read, as many as the row read says.
Uncompared(q, W) ==  \* mutant: without updated_at = ?
  /\ event.type = "raffle" /\ ~event.archived /\ ~Drawn
  /\ Cardinality(W) = Min({event.count, Cardinality(members)}) /\ W \subseteq members
MayDraw(q, W) ==
  /\ q.current
  /\ event.type = "raffle" /\ ~event.archived /\ ~Drawn
  /\ Cardinality(W) = Min({event.count, Cardinality(members)}) /\ W \subseteq members

Unlocked(e) == e  \* mutant: SET without signup_locked = 1
Closed(e) == [e EXCEPT !.locked = TRUE]

Draw(r) ==
  LET q == req[r] IN
  /\ Wins(r, "draw")
  /\ \E W \in SUBSET q.pool :
       /\ Cardinality(W) = Min({q.count, Cardinality(q.pool)})
       /\ MayDraw(q, W)
       /\ winners' = W
  /\ event' = Closed(event)
  /\ Written(r)
  /\ UNCHANGED <<now, members, votes, made>>

\* The columns each type has: the CHECK of the table.
BehaviorColumns(e) ==
  /\ e.type = "raffle" <=> e.count # None
  /\ e.type = "poll" => e.capacity = None

\* The triggers keep a poll a poll, whose settings go only after the UPDATE, and
\* what was drawn as it was drawn.
KeepsPoll(e) == event.poll => e.type = "poll"
KeepsDraw(q, e) ==
  Drawn /\ {"type", "count", "locked"} \cap DOMAIN q.patch # {} =>
    e.type = event.type /\ e.count = event.count /\ e.locked
AnyRevision(q, e) ==  \* mutant: without updated_at = ?
  BehaviorColumns(e) /\ KeepsPoll(e) /\ KeepsDraw(q, e)
Unchecked(q, e) ==  \* mutant: without the CHECK on the columns of a type
  q.current /\ KeepsPoll(e) /\ KeepsDraw(q, e)
MayEdit(q, e) ==
  q.current /\ BehaviorColumns(e) /\ KeepsPoll(e) /\ KeepsDraw(q, e)

Edit(r) ==
  LET q == req[r]
      e == [f \in DOMAIN event |-> IF f \in DOMAIN q.patch THEN q.patch[f] ELSE event[f]]
      replaced == "poll" \in DOMAIN q.patch IN
  /\ Wins(r, "edit") /\ MayEdit(q, e)
  /\ event' = e
  /\ votes' = IF replaced THEN NoVotes ELSE votes
  /\ Closes(r, TRUE, replaced)
  /\ UNCHANGED <<now, members, winners, made, collided>>

Archive(r) ==
  /\ Wins(r, "archive") /\ req[r].current /\ ~event.archived
  /\ event' = [event EXCEPT !.archived = TRUE]
  /\ Written(r)
  /\ UNCHANGED <<now, members, votes, winners, made>>

\* Any of them refused: CONFLICT, NOT_FOUND, or a batch that failed.
Refused(r) ==
  /\ req[r].pc = "write"
  /\ Closes(r, FALSE, FALSE)
  /\ UNCHANGED <<now, event, members, votes, winners, made, collided>>

\* The statements after an UPDATE that was refused, when updated_at is what it would
\* have written.  They meet no condition of the UPDATE, only triggers and keys; one
\* of these fails the batch.
LateSignUp(q) ==
  /\ q.kind \in {"join", "add"}
  /\ event.type # "poll" /\ ~event.archived /\ event.end > now /\ HasRoom(q)
  /\ members' = members \cup q.users
  /\ UNCHANGED <<event, votes, winners>>
LateLeave(q) ==
  /\ q.kind = "leave"
  /\ members' = members \ q.users
  /\ UNCHANGED <<event, votes, winners>>
LateVote(q) ==
  /\ q.kind = "vote" /\ q.choice # None /\ event.poll
  /\ \E m \in q.users : votes' = [votes EXCEPT ![m] = q.choice]
  /\ UNCHANGED <<event, members, winners>>
LateDraw(q) ==
  /\ q.kind = "draw" /\ ~Drawn /\ event.type = "raffle"
  /\ \E W \in SUBSET (q.pool \cap members) :
       Cardinality(W) = Min({q.count, Cardinality(q.pool)}) /\ winners' = W
  /\ UNCHANGED <<event, members, votes>>
LateEdit(q) ==
  /\ q.kind = "edit" /\ "poll" \in DOMAIN q.patch
  /\ q.patch.poll => event.type = "poll"
  /\ event' = [event EXCEPT !.poll = q.patch.poll]
  /\ votes' = NoVotes
  /\ UNCHANGED <<members, winners>>

Late(r) ==
  LET q == req[r] IN
  /\ q.pc = "write" /\ ~q.current /\ event.alive
  /\ LateSignUp(q) \/ LateLeave(q) \/ LateVote(q) \/ LateDraw(q) \/ LateEdit(q)
  /\ Closes(r, FALSE, q.kind = "edit")
  /\ collided' = TRUE
  /\ UNCHANGED <<now, made>>

\* destroy compares nothing; participants, votes and winners go with the event.
Destroy ==
  /\ event.alive /\ made < MaxRequests /\ made' = made + 1
  /\ event' = [event EXCEPT !.alive = FALSE]
  /\ members' = {} /\ votes' = NoVotes /\ winners' = {}
  /\ UNCHANGED <<now, req, collided>>

\* archiveDue rereads its condition.  updated_at becomes the start of the job, which
\* is the one some requests read if that was written in the same millisecond.
AnyEnded(at) ==  \* mutant: undrawn raffles too
  ~event.archived /\ ~event.autoArchived /\ event.end < at
DueEvent(at) ==
  /\ ~event.archived /\ ~event.autoArchived /\ event.end < at
  /\ event.type = "raffle" => Drawn

AutoArchive ==
  /\ event.alive /\ \E at \in 0..now : DueEvent(at)
  /\ event' = [event EXCEPT !.archived = TRUE, !.autoArchived = TRUE]
  /\ \E S \in SUBSET {r \in DOMAIN req : req[r].pc # "idle"} :
       req' = [r \in DOMAIN req |-> [req[r] EXCEPT !.current = r \in S]]
  /\ UNCHANGED <<now, members, votes, winners, made, collided>>

Asked(r) ==
  \/ AskJoin(r) \/ AskAdd(r) \/ AskLeave(r) \/ AskRemove(r) \/ AskVote(r)
  \/ AskDraw(r) \/ AskArchive(r) \/ AskEdit(r)
Applied(r) ==
  \/ SignUp(r, "join") \/ SignUp(r, "add") \/ Leave(r) \/ Vote(r) \/ Draw(r)
  \/ Edit(r) \/ Archive(r)

Next ==
  \/ Tick \/ Destroy \/ AutoArchive
  \/ \E at \in 0..now : ListDue(at)
  \/ \E r \in Requests : Asked(r)
  \/ \E r \in Requests \cup {Job} : ReadRest(r) \/ Applied(r) \/ Refused(r) \/ Late(r)

Spec == Init /\ [][Next]_vars

\* The schedule starts the raffle job again and again, and its batches do not fail
\* for ever.
FairSpec ==
  /\ Spec
  /\ WF_vars(ListDue(now)) /\ WF_vars(ReadRest(Job))
  /\ WF_vars(Draw(Job) \/ Refused(Job)) /\ SF_vars(Draw(Job))

------------------------------------------------------------------------------
\* Properties.

Prepareds ==
  {Prepared(type, patch) : type \in {"signup", "raffle", "poll"}, patch \in Patches}
  \cup {Prepared("poll", Options)}
Request ==
  [pc : {"idle", "rest", "write"},
   kind : {"none", "join", "add", "leave", "vote", "draw", "edit", "archive"},
   users : SUBSET Members, choice : Answers \cup {None}, patch : {NoPatch} \cup Prepareds,
   current : BOOLEAN, pool : SUBSET Members, count : {0} \cup Counts]

\* Types, and the columns each type has: what the CHECK of the table says.
TypeOK ==
  /\ now \in 0..LastInstant /\ made \in 0..MaxRequests /\ collided \in BOOLEAN
  /\ event \in [alive : BOOLEAN, type : {"signup", "raffle", "poll"}, poll : BOOLEAN, end : Ends,
                capacity : Counts \cup {None}, count : Counts \cup {None},
                locked : BOOLEAN, archived : BOOLEAN, autoArchived : BOOLEAN]
  /\ BehaviorColumns(event)
  /\ members \subseteq Members /\ winners \subseteq Members
  /\ votes \in [Members -> Answers \cup {None}]
  /\ req \in [Requests \cup {Job} -> Request]

\* Winners take part as the draw is committed, and unless two requests wanted one
\* updated_at they were drawn among everybody who does, whoever joined or left since
\* the participants were read.
DrawFromEveryone ==
  [][~Drawn /\ winners' # {} =>
       /\ winners' \subseteq members
       /\ collided' \/ \E r \in DOMAIN req : req[r].pc = "write" /\ req[r].pool = members]_vars

\* A draw is the last, late draws included: the winners stand while the event does,
\* and it stays a raffle of as many.  Unless two requests wanted one updated_at,
\* nobody signs up for it any more but by staff.
DrawIsFinal ==
  [][Drawn => \/ ~event'.alive
              \/ /\ winners' = winners
                 /\ event'.type = event.type /\ event'.count = event.count
                 /\ \A m \in members' \ members :
                      collided' \/ \E r \in Requests : req[r].kind = "add" /\ m \in req[r].users]_vars

\* While a poll is open nobody but the voter changes or removes a vote, whatever an
\* edit prepared before the vote came, unless two requests wanted one updated_at.
VotesStand ==
  [][\A m \in Members : votes[m] # None /\ votes'[m] # votes[m] =>
       \/ ~event'.alive \/ event.archived \/ collided'
       \/ \E r \in Requests : req[r].kind = "vote" /\ req[r].users = {m}]_vars

\* A sign-up never takes the event above the capacity it has by then.
NeverOverbooked ==
  [][~(members' \subseteq members) /\ event.capacity # None
       => Cardinality(members') <= event.capacity]_vars

\* A raffle that ended with participants is drawn, unless staff take the event or its
\* participants away: the archive job never comes first.
Pending ==
  /\ event.alive /\ event.type = "raffle" /\ event.end <= now
  /\ ~event.archived /\ ~event.autoArchived /\ members # {}
Settled ==
  \/ Drawn \/ members = {} \/ (event.archived /\ ~event.autoArchived)
  \/ event.type # "raffle" \/ event.end > now \/ ~event.alive

RaffleIsDrawn == Pending ~> Settled
=============================================================================
