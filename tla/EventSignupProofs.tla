-------------------------- MODULE EventSignupProofs --------------------------
(***************************************************************************)
(* Theorems about EventSignup, for any members, answers, requests, edits   *)
(* and ends.                                                               *)
(***************************************************************************)
EXTENDS EventSignup, FiniteSetTheorems, TLAPS

------------------------------------------------------------------------------
\* The inductive invariant.

Actors == Requests \cup {Job}
Kinds == {"signup", "raffle", "poll"}
Row ==
  [alive : BOOLEAN, type : Kinds, poll : BOOLEAN, end : Ends, capacity : Counts \cup {None},
   count : Counts \cup {None}, locked : BOOLEAN, archived : BOOLEAN, autoArchived : BOOLEAN]

Bounds == now \in 0..LastInstant /\ made \in 0..MaxRequests /\ collided \in BOOLEAN
Rows ==
  /\ event \in Row /\ BehaviorColumns(event)
  /\ members \subseteq Members /\ winners \subseteq Members
  /\ votes \in [Members -> Answers \cup {None}]

\* What the rest of a request's reading was stands as long as the row is as it read
\* it, unless the event was archived (the archive job may restore an updated_at) or a
\* refused request was applied in part, which does not show in the row.
Sound(r) ==
  /\ req[r].kind = "vote" => \E m \in Members : req[r].users = {m}
  /\ r = Job => req[r].kind \in {"none", "draw"}
  /\ req[r].pc = "write" /\ req[r].current /\ event.alive /\ ~event.archived /\ ~collided =>
       /\ req[r].kind = "draw" => req[r].pool = members
       /\ req[r].kind = "edit" /\ "poll" \in DOMAIN req[r].patch => votes = NoVotes

DrawnIsLocked == Drawn => collided \/ event.locked

SignupInv == TypeOK /\ DrawnIsLocked /\ \A r \in Actors : Sound(r)

LEMMA Types == TypeOK <=> Bounds /\ Rows /\ req \in [Actors -> Request]
BY DEF TypeOK, Bounds, Rows, Row, Kinds, Actors

LEMMA NoReqType ==
  NoReq \in Request /\ NoReq.kind = "none" /\ NoReq.pc = "idle"
BY DEF NoReq, Request

LEMMA OneIsACount == 1 \in Counts
<1>1. Cardinality(Members) \in Nat /\ Cardinality(Members) # 0
  BY SignupAssumption, FS_CardinalityType, FS_EmptySet
<1>2. QED BY <1>1 DEF Counts

------------------------------------------------------------------------------
\* What becomes of the requests.

\* A request is closed: the row has changed under the others, or nothing has, or it
\* was applied in part.
LEMMA ClosesStep ==
  ASSUME SignupInv, NEW r \in Actors, NEW updates \in BOOLEAN, NEW replaces \in BOOLEAN,
         Closes(r, updates, replaces), Rows', Bounds', DrawnIsLocked', collided => collided',
         updates \/ collided' \/ UNCHANGED <<event, members, votes>>
  PROVE  SignupInv'
<1>1. req \in [Actors -> Request] /\ \A q \in Actors : Sound(q)
  BY Types DEF SignupInv
<1>2. ASSUME NEW q \in Actors, q # r
      PROVE  /\ req'[q] \in Request /\ req'[q].kind = req[q].kind /\ req'[q].pc = req[q].pc
             /\ req'[q].users = req[q].users /\ req'[q].patch = req[q].patch
             /\ req'[q].pool = req[q].pool /\ req'[q].current = (req[q].current /\ ~updates)
  <2>1. req'[q] = [req[q] EXCEPT !.current = @ /\ ~updates,
                                 !.choice = IF replaces THEN None ELSE @]
    BY <1>1, <1>2 DEF Closes
  <2> DEFINE current == req[q].current /\ ~updates
             choice == IF replaces THEN None ELSE req[q].choice
  <2>2. current \in BOOLEAN /\ choice \in Answers \cup {None} /\ req[q] \in Request
    BY <1>1 DEF Request
  <2>3. req'[q] = [req[q] EXCEPT !.current = current, !.choice = choice]
    BY <2>1
  <2>4. req'[q].current = current
    BY <2>2, <2>3 DEF Request
  <2> HIDE DEF current, choice
  <2>5. QED BY <2>2, <2>3, <2>4 DEF Request, current
<1>3. req'[r] = NoReq /\ DOMAIN req' = Actors /\ req' = [q \in Actors |-> req'[q]]
  BY <1>1 DEF Closes
<1>4. req' \in [Actors -> Request]
  BY <1>2, <1>3, NoReqType
<1>5. ASSUME NEW q \in Actors PROVE Sound(q)'
  <2>1. CASE q = r
    BY <1>3, <2>1, NoReqType DEF Sound
  <2>2. CASE q # r
    <3>1. CASE updates \/ collided'
      BY <1>1, <1>2, <2>2, <3>1 DEF Sound
    <3>2. CASE UNCHANGED <<event, members, votes>> /\ ~updates /\ ~collided'
      BY <1>1, <1>2, <2>2, <3>2 DEF Sound, NoVotes
    <3>3. QED BY <3>1, <3>2
  <2>3. QED BY <2>1, <2>2
<1>6. QED BY <1>4, <1>5, Types DEF SignupInv, TypeOK, Bounds, Rows, Row, Kinds, Actors

LEMMA WrittenStep ==
  ASSUME SignupInv, NEW r \in Actors, Written(r), Rows', Bounds', DrawnIsLocked'
  PROVE  SignupInv'
BY ClosesStep DEF Written

\* One request goes on, and nothing else changes.
LEMMA RequestStep ==
  ASSUME SignupInv, NEW r \in Actors, NEW q \in Request, req' = [req EXCEPT ![r] = q],
         UNCHANGED <<event, members, votes, winners, collided>>, Bounds',
         q.kind = "vote" => \E m \in Members : q.users = {m},
         r = Job => q.kind \in {"none", "draw"},
         q.pc = "write" =>
           /\ q.kind = "draw" => q.pool = members
           /\ q.kind = "edit" /\ "poll" \in DOMAIN q.patch => votes = NoVotes
  PROVE  SignupInv'
<1>1. req \in [Actors -> Request] /\ (\A p \in Actors : Sound(p)) /\ Rows /\ DrawnIsLocked
  BY Types DEF SignupInv
<1>2. req' \in [Actors -> Request] /\ req'[r] = q
      /\ \A p \in Actors \ {r} : req'[p] = req[p]
  BY <1>1
<1>3. ASSUME NEW p \in Actors PROVE Sound(p)'
  <2>1. CASE p = r
    BY <1>2, <2>1 DEF Sound
  <2>2. CASE p # r
    BY <1>1, <1>2, <2>2 DEF Sound, NoVotes
  <2>3. QED BY <2>1, <2>2
<1>4. Rows' /\ DrawnIsLocked'
  BY <1>1 DEF Rows, DrawnIsLocked, Drawn, BehaviorColumns
<1>5. QED BY <1>2, <1>3, <1>4, Types DEF SignupInv, TypeOK, Bounds, Rows, Row, Kinds, Actors

\* The row changes so that what was read of the rest does not matter any more.
LEMMA OverStep ==
  ASSUME SignupInv, Rows', Bounds', DrawnIsLocked', ~event'.alive \/ event'.archived,
         UNCHANGED collided,
         NEW S, req' = [r \in DOMAIN req |-> [req[r] EXCEPT !.current = r \in S]]
                \/ req' = req
  PROVE  SignupInv'
<1>1. req \in [Actors -> Request] /\ \A q \in Actors : Sound(q)
  BY Types DEF SignupInv
<1>2. ASSUME NEW q \in Actors
      PROVE  req'[q] \in Request /\ req'[q].kind = req[q].kind /\ req'[q].users = req[q].users
  <2>1. req[q] \in Request /\ (q \in S) \in BOOLEAN
    BY <1>1
  <2>2. CASE req' = req
    BY <1>1, <2>2
  <2>3. CASE req' = [r \in DOMAIN req |-> [req[r] EXCEPT !.current = r \in S]]
    <3>1. req'[q] = [req[q] EXCEPT !.current = q \in S]
      BY <1>1, <2>3
    <3>2. QED BY <2>1, <3>1 DEF Request
  <2>4. QED BY <2>2, <2>3
<1>3. req' \in [Actors -> Request]
  BY <1>1, <1>2
<1>4. ASSUME NEW q \in Actors PROVE Sound(q)'
  BY <1>1, <1>2 DEF Sound
<1>5. QED BY <1>3, <1>4, Types DEF SignupInv, TypeOK, Bounds, Rows, Row, Kinds, Actors

------------------------------------------------------------------------------
\* A request reads.

LEMMA AsksStep ==
  ASSUME SignupInv, NEW r \in Requests, NEW q \in Request, Asks(r, q),
         q.kind = "vote" => \E m \in Members : q.users = {m}
  PROVE  SignupInv'
<1> DEFINE asked == [q EXCEPT !.pc = IF q.kind \in {"draw", "edit"} THEN "rest" ELSE "write",
                              !.current = TRUE]
<1>1. /\ asked \in Request /\ asked.kind = q.kind /\ asked.users = q.users
      /\ asked.pc = "write" => q.kind # "draw" /\ q.kind # "edit"
  BY DEF Request
<1>2. /\ made < MaxRequests /\ made' = made + 1 /\ req' = [req EXCEPT ![r] = asked]
      /\ UNCHANGED <<now, event, members, votes, winners, collided>>
  BY DEF Asks
<1> HIDE DEF asked
<1>3. Bounds'
  <2>1. Bounds /\ MaxRequests \in Nat
    BY Types, SignupAssumption DEF SignupInv
  <2>2. QED BY <1>2, <2>1 DEF Bounds
<1>4. r \in Actors /\ r # Job
  BY SignupAssumption DEF Actors
<1>5. QED BY <1>1, <1>2, <1>3, <1>4, RequestStep

LEMMA PreparedType ==
  ASSUME NEW old \in Kinds, NEW patch,
         patch \in Patches \/ (old = "poll" /\ patch = Options)
  PROVE  Prepared(old, patch) \in Prepareds
BY DEF Prepareds, Kinds

LEMMA AskedStep ==
  ASSUME SignupInv, NEW r \in Requests, Asked(r)
  PROVE  SignupInv'
<1>1. NoReq \in Request
  BY NoReqType
<1>2. ASSUME NEW kind \in {"join", "add", "leave"}, NEW U \in SUBSET Members,
             Asks(r, [NoReq EXCEPT !.kind = kind, !.users = U])
      PROVE  SignupInv'
  <2> DEFINE q == [NoReq EXCEPT !.kind = kind, !.users = U]
  <2>1. q \in Request /\ q.kind # "vote"
    BY <1>1 DEF Request, NoReq
  <2> HIDE DEF q
  <2>2. Asks(r, q)
    BY <1>2 DEF q
  <2>3. QED BY <2>1, <2>2, AsksStep
<1>3. CASE AskJoin(r) \/ AskAdd(r) \/ AskLeave(r) \/ AskRemove(r)
  BY <1>2, <1>3 DEF AskJoin, AskAdd, AskLeave, AskRemove
<1>4. CASE AskVote(r)
  <2>1. PICK m \in Members, c \in Answers :
          Asks(r, [NoReq EXCEPT !.kind = "vote", !.users = {m}, !.choice = c])
    BY <1>4 DEF AskVote
  <2> DEFINE q == [NoReq EXCEPT !.kind = "vote", !.users = {m}, !.choice = c]
  <2>2. q \in Request /\ q.users = {m}
    BY <1>1 DEF Request, NoReq
  <2> HIDE DEF q
  <2>3. Asks(r, q)
    BY <2>1 DEF q
  <2>4. QED BY <2>2, <2>3, AsksStep
<1>5. CASE AskDraw(r)
  <2> DEFINE q == [NoReq EXCEPT !.kind = "draw", !.count = event.count]
  <2>1. event.count \in Counts
    BY <1>5, Types DEF AskDraw, SignupInv, Rows, Row, BehaviorColumns
  <2>2. q \in Request /\ q.kind = "draw"
    BY <1>1, <2>1 DEF Request, NoReq
  <2> HIDE DEF q
  <2>3. Asks(r, q)
    BY <1>5 DEF AskDraw, q
  <2>4. QED BY <2>2, <2>3, AsksStep
<1>6. CASE AskArchive(r)
  <2> DEFINE q == [NoReq EXCEPT !.kind = "archive"]
  <2>1. q \in Request /\ q.kind = "archive"
    BY <1>1 DEF Request, NoReq
  <2> HIDE DEF q
  <2>2. Asks(r, q)
    BY <1>6 DEF AskArchive, q
  <2>3. QED BY <2>1, <2>2, AsksStep
<1>7. CASE AskEdit(r)
  <2>1. PICK patch :
          /\ patch \in Patches \/ (event.type = "poll" /\ patch = Options)
          /\ Asks(r, [NoReq EXCEPT !.kind = "edit", !.patch = Prepared(event.type, patch)])
    BY <1>7 DEF AskEdit
  <2>2. PICK p \in Prepareds : p = Prepared(event.type, patch)
    <3>1. event.type \in Kinds
      BY Types DEF SignupInv, Rows, Row
    <3>2. QED BY <2>1, <3>1, PreparedType
  <2> DEFINE q == [NoReq EXCEPT !.kind = "edit", !.patch = p]
  <2>3. q \in Request /\ q.kind = "edit"
    BY <1>1 DEF Request, NoReq
  <2> HIDE DEF q
  <2>4. Asks(r, q)
    BY <2>1, <2>2 DEF q
  <2>5. QED BY <2>3, <2>4, AsksStep
<1>8. QED BY <1>3, <1>4, <1>5, <1>6, <1>7 DEF Asked

LEMMA ListDueStep ==
  ASSUME SignupInv, NEW at, ListDue(at)
  PROVE  SignupInv'
<1> DEFINE q == [NoReq EXCEPT !.pc = "rest", !.kind = "draw", !.current = TRUE,
                              !.count = event.count]
<1>1. event.count \in Counts
  BY Types DEF ListDue, DueRaffle, SignupInv, Rows, Row, BehaviorColumns
<1>2. q \in Request /\ q.kind = "draw" /\ q.pc = "rest"
  BY <1>1, NoReqType DEF Request, NoReq
<1> HIDE DEF q
<1>3. req' = [req EXCEPT ![Job] = q]
      /\ UNCHANGED <<now, event, members, votes, winners, made, collided>>
  BY DEF ListDue, q
<1>4. Bounds' /\ Job \in Actors
  BY <1>3, Types DEF SignupInv, Bounds, Actors
<1>5. QED BY <1>2, <1>3, <1>4, RequestStep

LEMMA ReadRestStep ==
  ASSUME SignupInv, NEW r \in Actors, ReadRest(r)
  PROVE  SignupInv'
<1> DEFINE q == [req[r] EXCEPT !.pc = "write",
                   !.pool = IF req[r].kind = "draw" THEN members ELSE {}]
<1>1. /\ req[r] \in Request /\ Sound(r) /\ members \subseteq Members /\ Bounds
      /\ UNCHANGED <<now, event, members, votes, winners, made, collided>>
  BY Types DEF SignupInv, Rows, ReadRest
<1>2. Bounds'
  BY <1>1 DEF Bounds
<1>3. CASE event.alive /\ Allowed(req[r])
  <2>1. /\ q \in Request /\ q.kind = req[r].kind /\ q.users = req[r].users
        /\ q.patch = req[r].patch /\ (q.kind = "draw" => q.pool = members)
    BY <1>1 DEF Request
  <2> HIDE DEF q
  <2>2. req' = [req EXCEPT ![r] = q]
    BY <1>3 DEF ReadRest, q
  <2>3. q.kind = "edit" /\ "poll" \in DOMAIN q.patch => votes = NoVotes
    BY <1>3, <2>1 DEF Allowed, Voted
  <2>4. QED BY <1>1, <1>2, <2>1, <2>2, <2>3, RequestStep DEF Sound
<1>4. CASE ~(event.alive /\ Allowed(req[r]))
  <2>1. req' = [req EXCEPT ![r] = NoReq]
    BY <1>4 DEF ReadRest
  <2>2. QED BY <1>1, <1>2, <2>1, NoReqType, RequestStep
<1>5. QED BY <1>3, <1>4

LEMMA RefusedStep ==
  ASSUME SignupInv, NEW r \in Actors, Refused(r)
  PROVE  SignupInv'
<1>1. /\ Closes(r, FALSE, FALSE)
      /\ UNCHANGED <<now, event, members, votes, winners, made, collided>>
  BY DEF Refused
<1>2. Rows /\ Bounds /\ DrawnIsLocked
  BY Types DEF SignupInv
<1>3. Rows' /\ Bounds' /\ DrawnIsLocked'
  BY <1>1, <1>2 DEF Rows, BehaviorColumns, Bounds, DrawnIsLocked, Drawn
<1>4. QED BY <1>1, <1>3, ClosesStep

------------------------------------------------------------------------------
\* A request writes.

LEMMA SignUpStep ==
  ASSUME SignupInv, NEW r \in Actors, NEW kind, SignUp(r, kind)
  PROVE  SignupInv'
<1>1. /\ members' = members \cup req[r].users /\ Written(r)
      /\ UNCHANGED <<now, event, votes, winners, made>>
  BY DEF SignUp
<1>2. /\ Rows /\ Bounds /\ DrawnIsLocked /\ req[r] \in Request
  BY Types DEF SignupInv
<1>3. Rows'
  BY <1>1, <1>2 DEF Rows, Request, BehaviorColumns
<1>4. Bounds' /\ DrawnIsLocked'
  BY <1>1, <1>2 DEF Written, Bounds, DrawnIsLocked, Drawn
<1>5. QED BY <1>1, <1>3, <1>4, WrittenStep

LEMMA LeaveStep ==
  ASSUME SignupInv, NEW r \in Actors, Leave(r)
  PROVE  SignupInv'
<1>1. /\ members' = members \ req[r].users /\ Written(r)
      /\ UNCHANGED <<now, event, votes, winners, made>>
  BY DEF Leave
<1>2. /\ Rows /\ Bounds /\ DrawnIsLocked
  BY Types DEF SignupInv
<1>3. Rows'
  BY <1>1, <1>2 DEF Rows, BehaviorColumns
<1>4. Bounds' /\ DrawnIsLocked'
  BY <1>1, <1>2 DEF Written, Bounds, DrawnIsLocked, Drawn
<1>5. QED BY <1>1, <1>3, <1>4, WrittenStep

LEMMA VoteStep ==
  ASSUME SignupInv, NEW r \in Actors, Vote(r)
  PROVE  SignupInv'
<1>1. /\ Written(r) /\ UNCHANGED <<now, event, members, winners, made>>
      /\ \E m \in req[r].users : votes' = [votes EXCEPT ![m] = req[r].choice]
      /\ event.type = "poll" /\ req[r].kind = "vote"
  BY DEF Vote, Wins
<1>2. /\ Rows /\ Bounds /\ DrawnIsLocked /\ req[r] \in Request
  BY Types DEF SignupInv
<1>3. votes' \in [Members -> Answers \cup {None}]
  BY <1>1, <1>2 DEF Rows, Request
<1>4. Rows'
  BY <1>1, <1>2, <1>3 DEF Rows, BehaviorColumns
<1>5. Bounds' /\ DrawnIsLocked'
  BY <1>1, <1>2 DEF Written, Bounds, DrawnIsLocked, Drawn
<1>6. QED BY <1>1, <1>4, <1>5, WrittenStep

LEMMA DrawStep ==
  ASSUME SignupInv, NEW r \in Actors, Draw(r)
  PROVE  SignupInv'
<1>1. /\ Written(r) /\ UNCHANGED <<now, members, votes, made>>
      /\ event' = [event EXCEPT !.locked = TRUE] /\ winners' \subseteq members
  BY DEF Draw, MayDraw, Closed
<1>2. /\ Rows /\ Bounds /\ event \in Row
  BY Types DEF SignupInv, Rows
<1>3. event' \in Row /\ BehaviorColumns(event')
  BY <1>1, <1>2 DEF Rows, Row, BehaviorColumns
<1>4. Rows'
  BY <1>1, <1>2, <1>3 DEF Rows
<1>5. Bounds' /\ DrawnIsLocked'
  BY <1>1, <1>2 DEF Written, Bounds, DrawnIsLocked, Row
<1>6. QED BY <1>1, <1>4, <1>5, WrittenStep

LEMMA ArchiveStep ==
  ASSUME SignupInv, NEW r \in Actors, Archive(r)
  PROVE  SignupInv'
<1>1. /\ Written(r) /\ UNCHANGED <<now, members, votes, winners, made>>
      /\ event' = [event EXCEPT !.archived = TRUE]
  BY DEF Archive
<1>2. /\ Rows /\ Bounds /\ DrawnIsLocked /\ event \in Row
  BY Types DEF SignupInv, Rows
<1>3. event' \in Row /\ BehaviorColumns(event') /\ event'.locked = event.locked
  BY <1>1, <1>2 DEF Rows, Row, BehaviorColumns
<1>4. Rows'
  BY <1>1, <1>2, <1>3 DEF Rows
<1>5. Bounds' /\ DrawnIsLocked'
  BY <1>1, <1>2, <1>3 DEF Written, Bounds, DrawnIsLocked, Drawn
<1>6. QED BY <1>1, <1>4, <1>5, WrittenStep

\* What a patch holds is of the type of the column it is for.
LEMMA PatchedColumns ==
  ASSUME NEW patch \in {NoPatch} \cup Prepareds, NEW f \in DOMAIN patch
  PROVE  /\ f = "type" => patch[f] \in Kinds
         /\ f = "end" => patch[f] \in Ends
         /\ f \in {"capacity", "count"} => patch[f] \in Counts \cup {None}
         /\ f \in {"poll", "locked", "archived"} => patch[f] \in BOOLEAN
         /\ f \notin {"alive", "autoArchived"}
<1>1. CASE patch = NoPatch
  BY <1>1 DEF NoPatch
<1>2. CASE patch \in Prepareds
  <2>1. PICK type \in Kinds, p \in Patches \cup {Options} : patch = Prepared(type, p)
    BY <1>2 DEF Prepareds, Kinds
  <2>2. \/ f \in {"capacity", "count"} /\ patch[f] = None
        \/ f = "poll" /\ patch[f] \in BOOLEAN
        \/ f # "poll" /\ f \in DOMAIN p /\ patch[f] = p[f]
    BY <2>1 DEF Prepared, Kinds
  <2>3. ASSUME f # "poll", f \in DOMAIN p
        PROVE  /\ f = "type" => p[f] \in Kinds
               /\ f = "end" => p[f] \in Ends
               /\ f \in {"capacity", "count"} => p[f] \in Counts \cup {None}
               /\ f \in {"locked", "archived"} => p[f] \in BOOLEAN
               /\ f \notin {"alive", "autoArchived"}
    <3>1. CASE p = Options
      BY <2>3, <3>1 DEF Options
    <3>2. CASE p \in [locked : BOOLEAN] \cup [archived : BOOLEAN] \cup [end : Ends]
      BY <2>3, <3>2
    <3>3. CASE p \in [capacity : Counts \cup {None}] \cup [count : Counts]
      BY <2>3, <3>3
    <3>4. CASE p \in [type : {"signup", "poll"}] \cup [type : {"raffle"}, count : Counts]
      BY <2>3, <3>4 DEF Kinds
    <3>5. QED BY <2>1, <3>1, <3>2, <3>3, <3>4, SignupAssumption DEF Decisions
  <2>4. QED BY <2>2, <2>3
<1>3. QED BY <1>1, <1>2

LEMMA EditStep ==
  ASSUME SignupInv, NEW r \in Actors, Edit(r)
  PROVE  SignupInv'
<1> DEFINE patch == req[r].patch
           e == [f \in DOMAIN event |-> IF f \in DOMAIN patch THEN patch[f] ELSE event[f]]
           replaced == "poll" \in DOMAIN patch
<1>1. /\ Closes(r, TRUE, replaced) /\ UNCHANGED <<now, members, winners, made, collided>>
      /\ event' = e /\ BehaviorColumns(e) /\ KeepsDraw(req[r], e)
      /\ votes' = NoVotes \/ votes' = votes
  BY DEF Edit, MayEdit
<1>2. /\ Rows /\ Bounds /\ DrawnIsLocked /\ event \in Row
      /\ patch \in {NoPatch} \cup Prepareds
  BY Types DEF SignupInv, Rows, Request
<1>3. e \in Row
  <2> HIDE DEF patch
  <2>1. DOMAIN event = {"alive", "type", "poll", "end", "capacity", "count", "locked",
                        "archived", "autoArchived"}
    BY <1>2 DEF Row
  <2>2. e.type \in Kinds /\ e.end \in Ends
    BY <1>2, <2>1, PatchedColumns DEF Row
  <2>3. e.capacity \in Counts \cup {None} /\ e.count \in Counts \cup {None}
    BY <1>2, <2>1, PatchedColumns DEF Row
  <2>4. e.poll \in BOOLEAN /\ e.locked \in BOOLEAN /\ e.archived \in BOOLEAN
    BY <1>2, <2>1, PatchedColumns DEF Row
  <2>5. e.alive \in BOOLEAN /\ e.autoArchived \in BOOLEAN
    BY <1>2, <2>1, PatchedColumns DEF Row
  <2>6. e = [alive |-> e.alive, type |-> e.type, poll |-> e.poll, end |-> e.end,
             capacity |-> e.capacity, count |-> e.count, locked |-> e.locked,
             archived |-> e.archived, autoArchived |-> e.autoArchived]
    BY <2>1
  <2> HIDE DEF e
  <2>7. QED BY <2>2, <2>3, <2>4, <2>5, <2>6 DEF Row
<1>4. Drawn => collided \/ e.locked
  <2>1. SUFFICES ASSUME Drawn, event.locked PROVE e.locked
    BY <1>2 DEF DrawnIsLocked
  <2>2. CASE "locked" \in DOMAIN patch
    BY <1>1, <2>1, <2>2 DEF KeepsDraw
  <2>3. CASE "locked" \notin DOMAIN patch
    BY <1>2, <2>1, <2>3 DEF Row
  <2>4. QED BY <2>2, <2>3
<1>5. replaced \in BOOLEAN
  OBVIOUS
<1> HIDE DEF e, replaced
<1>6. votes' \in [Members -> Answers \cup {None}]
  BY <1>1, <1>2 DEF Rows, NoVotes
<1>7. Rows'
  BY <1>1, <1>2, <1>3, <1>6 DEF Rows
<1>8. Bounds' /\ DrawnIsLocked'
  BY <1>1, <1>2, <1>4 DEF Bounds, DrawnIsLocked, Drawn
<1>9. QED BY <1>1, <1>5, <1>7, <1>8, ClosesStep

LEMMA AppliedStep ==
  ASSUME SignupInv, NEW r \in Actors, Applied(r)
  PROVE  SignupInv'
BY SignUpStep, LeaveStep, VoteStep, DrawStep, EditStep, ArchiveStep DEF Applied

LEMMA LateStep ==
  ASSUME SignupInv, NEW r \in Actors, Late(r)
  PROVE  SignupInv'
<1> DEFINE q == req[r]
           replaces == q.kind = "edit"
<1>1. /\ Closes(r, FALSE, replaces) /\ collided' = TRUE /\ UNCHANGED <<now, made>>
      /\ LateSignUp(q) \/ LateLeave(q) \/ LateVote(q) \/ LateDraw(q) \/ LateEdit(q)
  BY DEF Late
<1>2. /\ Rows /\ Bounds /\ event \in Row /\ q \in Request /\ replaces \in BOOLEAN
      /\ q.patch \in {NoPatch} \cup Prepareds
  BY Types DEF SignupInv, Rows, Request
<1> HIDE DEF q, replaces
<1>3. Bounds' /\ DrawnIsLocked'
  BY <1>1, <1>2 DEF Bounds, DrawnIsLocked
<1>4. Rows'
  <2>1. CASE LateSignUp(q) \/ LateLeave(q)
    BY <1>2, <2>1 DEF LateSignUp, LateLeave, Rows, Request, BehaviorColumns
  <2>2. CASE LateVote(q)
    <3>1. votes' \in [Members -> Answers \cup {None}]
      BY <1>2, <2>2 DEF LateVote, Rows, Request
    <3>2. QED BY <1>2, <2>2, <3>1 DEF LateVote, Rows, BehaviorColumns
  <2>3. CASE LateDraw(q)
    BY <1>2, <2>3 DEF LateDraw, Rows, BehaviorColumns
  <2>4. CASE LateEdit(q)
    <3>1. q.patch.poll \in BOOLEAN
      BY <1>2, <2>4, PatchedColumns DEF LateEdit
    <3>2. event' = [event EXCEPT !.poll = q.patch.poll] /\ votes' = NoVotes
          /\ UNCHANGED <<members, winners>>
      BY <2>4 DEF LateEdit
    <3>3. event' \in Row /\ BehaviorColumns(event')
      BY <1>2, <3>1, <3>2 DEF Rows, Row, BehaviorColumns
    <3>4. votes' \in [Members -> Answers \cup {None}]
      BY <3>2 DEF NoVotes
    <3>5. QED BY <1>2, <3>2, <3>3, <3>4 DEF Rows
  <2>5. QED BY <1>1, <2>1, <2>2, <2>3, <2>4
<1>5. QED BY <1>1, <1>2, <1>3, <1>4, ClosesStep

------------------------------------------------------------------------------
\* The jobs, the clock and the end of an event.

LEMMA OthersStep ==
  ASSUME SignupInv, Tick \/ Destroy \/ AutoArchive
  PROVE  SignupInv'
<1>1. /\ Rows /\ Bounds /\ DrawnIsLocked /\ event \in Row /\ req \in [Actors -> Request]
      /\ LastInstant \in Nat /\ MaxRequests \in Nat /\ \A r \in Actors : Sound(r)
  BY Types, SignupAssumption DEF SignupInv, Rows
<1>2. CASE Tick
  <2>1. now < LastInstant /\ now' = now + 1
        /\ UNCHANGED <<event, members, votes, winners, req, made, collided>>
    BY <1>2 DEF Tick
  <2>2. Bounds'
    BY <1>1, <2>1 DEF Bounds
  <2>3. Rows' /\ DrawnIsLocked' /\ \A r \in Actors : Sound(r)'
    BY <1>1, <2>1 DEF Rows, DrawnIsLocked, Drawn, Sound, BehaviorColumns, NoVotes
  <2>4. TypeOK'
    BY <1>1, <2>1, <2>2, <2>3, Types DEF TypeOK, Bounds, Rows, Row, Kinds, Actors
  <2>5. QED BY <2>3, <2>4 DEF SignupInv
<1>3. CASE Destroy
  <2>1. /\ made < MaxRequests /\ made' = made + 1 /\ event' = [event EXCEPT !.alive = FALSE]
        /\ members' = {} /\ votes' = NoVotes /\ winners' = {}
        /\ UNCHANGED <<now, req, collided>>
    BY <1>3 DEF Destroy
  <2>2. Bounds'
    BY <1>1, <2>1 DEF Bounds
  <2>3. event' \in Row /\ BehaviorColumns(event') /\ ~event'.alive
    BY <1>1, <2>1 DEF Rows, Row, BehaviorColumns
  <2>4. votes' \in [Members -> Answers \cup {None}]
    BY <2>1 DEF NoVotes
  <2>5. Rows' /\ DrawnIsLocked'
    BY <2>1, <2>3, <2>4 DEF Rows, DrawnIsLocked, Drawn
  <2>6. QED BY <2>1, <2>2, <2>3, <2>5, OverStep
<1>4. CASE AutoArchive
  <2>1. PICK S : req' = [r \in DOMAIN req |-> [req[r] EXCEPT !.current = r \in S]]
    BY <1>4 DEF AutoArchive
  <2>2. /\ event' = [event EXCEPT !.archived = TRUE, !.autoArchived = TRUE]
        /\ UNCHANGED <<now, members, votes, winners, made, collided>>
    BY <1>4 DEF AutoArchive
  <2>3. event' \in Row /\ BehaviorColumns(event') /\ event'.archived
        /\ event'.locked = event.locked
    BY <1>1, <2>2 DEF Rows, Row, BehaviorColumns
  <2>4. Rows' /\ DrawnIsLocked' /\ Bounds'
    BY <1>1, <2>2, <2>3 DEF Rows, DrawnIsLocked, Drawn, Bounds
  <2>5. QED BY <2>1, <2>2, <2>3, <2>4, OverStep
<1>5. QED BY <1>2, <1>3, <1>4

------------------------------------------------------------------------------
\* SignupInv is inductive.

LEMMA SignupStart == Init => SignupInv
<1> SUFFICES ASSUME Init PROVE SignupInv
  OBVIOUS
<1>1. PICK type \in Kinds, end \in Ends : event = NewEvent(type, end)
  BY DEF Init, Kinds
<1>2. event \in Row /\ BehaviorColumns(event)
  <2>1. 1 \in Counts /\ None \notin Counts
    BY OneIsACount, SignupAssumption
  <2>2. QED BY <1>1, <2>1 DEF NewEvent, Row, BehaviorColumns, Kinds
<1>3. members \subseteq Members /\ winners = {} /\ votes = NoVotes
  BY SignupAssumption DEF Init
<1>4. Rows /\ DrawnIsLocked
  BY <1>2, <1>3 DEF Rows, NoVotes, DrawnIsLocked, Drawn
<1>5. Bounds
  <2>1. now = 0 /\ made = 0 /\ collided = FALSE /\ LastInstant \in Nat /\ MaxRequests \in Nat
    BY SignupAssumption DEF Init
  <2>2. now \in 0..LastInstant /\ made \in 0..MaxRequests
    BY <2>1
  <2>3. QED BY <2>1, <2>2 DEF Bounds
<1>6. req \in [Actors -> Request] /\ \A r \in Actors : req[r] = NoReq
  BY NoReqType DEF Init, Actors
<1>7. \A r \in Actors : Sound(r)
  BY <1>6, NoReqType DEF Sound
<1>8. QED BY <1>4, <1>5, <1>6, <1>7, Types DEF SignupInv

LEMMA SignupStep == SignupInv /\ [Next]_vars => SignupInv'
<1> SUFFICES ASSUME SignupInv, [Next]_vars PROVE SignupInv'
  OBVIOUS
<1>1. CASE UNCHANGED vars
  <2>1. UNCHANGED <<now, event, members, votes, winners, req, made, collided>>
    BY <1>1 DEF vars
  <2>2. TypeOK' /\ DrawnIsLocked'
    BY <2>1 DEF SignupInv, TypeOK, DrawnIsLocked, Drawn, BehaviorColumns
  <2>3. \A r \in Actors : Sound(r)'
    BY <2>1 DEF SignupInv, Sound, NoVotes
  <2>4. QED BY <2>2, <2>3 DEF SignupInv
<1>2. QED
  BY <1>1, OthersStep, ListDueStep, AskedStep, ReadRestStep, AppliedStep, RefusedStep, LateStep
  DEF Next, Actors

LEMMA SignupInvariant == Spec => []SignupInv
BY SignupStart, SignupStep, PTL DEF Spec

\* The row, what hangs on it and the requests keep their types, and an event has the
\* columns of its type.
THEOREM SignupTypes == Spec => []TypeOK
<1>1. SignupInv => TypeOK
  BY DEF SignupInv
<1>2. QED BY <1>1, SignupInvariant, PTL

------------------------------------------------------------------------------
\* What a step may do to winners, participants and votes.

LEMMA WhoDraws ==
  ASSUME [Next]_vars, winners' # winners
  PROVE  Destroy \/ \E r \in Actors : Draw(r) \/ (Late(r) /\ LateDraw(req[r]))
<1>1. ASSUME NEW r, SignUp(r, "join") \/ SignUp(r, "add") \/ Leave(r) \/ Vote(r) \/ Edit(r)
                    \/ Archive(r) \/ ReadRest(r) \/ Refused(r)
      PROVE  winners' = winners
  BY <1>1 DEF SignUp, Leave, Vote, Edit, Archive, ReadRest, Refused
<1>2. ASSUME NEW r, Asked(r) PROVE winners' = winners
  BY <1>2 DEF Asked, AskJoin, AskAdd, AskLeave, AskRemove, AskVote, AskDraw, AskArchive,
     AskEdit, Asks
<1>3. UNCHANGED vars \/ Tick \/ AutoArchive \/ (\E at \in 0..now : ListDue(at))
      => winners' = winners
  BY DEF vars, Tick, AutoArchive, ListDue
<1>4. ASSUME NEW r, Late(r) PROVE LateDraw(req[r]) \/ winners' = winners
  BY <1>4 DEF Late, LateSignUp, LateLeave, LateVote, LateEdit
<1>5. QED BY <1>1, <1>2, <1>3, <1>4 DEF Next, Applied, Actors

LEMMA WhoJoins ==
  ASSUME [Next]_vars, ~(members' \subseteq members)
  PROVE  \E r \in Actors : SignUp(r, "join") \/ SignUp(r, "add") \/ (Late(r) /\ LateSignUp(req[r]))
<1>1. ASSUME NEW r, Leave(r) \/ Vote(r) \/ Draw(r) \/ Edit(r) \/ Archive(r) \/ ReadRest(r)
                    \/ Refused(r)
      PROVE  members' \subseteq members
  BY <1>1 DEF Leave, Vote, Draw, Edit, Archive, ReadRest, Refused
<1>2. ASSUME NEW r, Asked(r) PROVE members' = members
  BY <1>2 DEF Asked, AskJoin, AskAdd, AskLeave, AskRemove, AskVote, AskDraw, AskArchive,
     AskEdit, Asks
<1>3. UNCHANGED vars \/ Tick \/ Destroy \/ AutoArchive \/ (\E at \in 0..now : ListDue(at))
      => members' \subseteq members
  BY DEF vars, Tick, Destroy, AutoArchive, ListDue
<1>4. ASSUME NEW r, Late(r) PROVE LateSignUp(req[r]) \/ members' \subseteq members
  BY <1>4 DEF Late, LateLeave, LateVote, LateDraw, LateEdit
<1>5. QED BY <1>1, <1>2, <1>3, <1>4 DEF Next, Applied, Actors

LEMMA WhoVotes ==
  ASSUME [Next]_vars, votes' # votes
  PROVE  Destroy \/ \E r \in Actors : Vote(r) \/ Edit(r) \/ Late(r)
<1>1. ASSUME NEW r, SignUp(r, "join") \/ SignUp(r, "add") \/ Leave(r) \/ Draw(r)
                    \/ Archive(r) \/ ReadRest(r) \/ Refused(r)
      PROVE  votes' = votes
  BY <1>1 DEF SignUp, Leave, Draw, Archive, ReadRest, Refused
<1>2. ASSUME NEW r, Asked(r) PROVE votes' = votes
  BY <1>2 DEF Asked, AskJoin, AskAdd, AskLeave, AskRemove, AskVote, AskDraw, AskArchive,
     AskEdit, Asks
<1>3. UNCHANGED vars \/ Tick \/ AutoArchive \/ (\E at \in 0..now : ListDue(at))
      => votes' = votes
  BY DEF vars, Tick, AutoArchive, ListDue
<1>4. QED BY <1>1, <1>2, <1>3 DEF Next, Applied, Actors

\* After a draw an edit is the only step that writes the type or the count, and the
\* trigger keeps them.
LEMMA WhoRules ==
  ASSUME [Next]_vars, event \in Row, Drawn
  PROVE  event'.type = event.type /\ event'.count = event.count
<1>1. ASSUME NEW r, SignUp(r, "join") \/ SignUp(r, "add") \/ Leave(r) \/ Vote(r)
                    \/ ReadRest(r) \/ Refused(r)
      PROVE  event' = event
  BY <1>1 DEF SignUp, Leave, Vote, ReadRest, Refused
<1>2. ASSUME NEW r, Asked(r) PROVE event' = event
  BY <1>2 DEF Asked, AskJoin, AskAdd, AskLeave, AskRemove, AskVote, AskDraw, AskArchive,
     AskEdit, Asks
<1>3. UNCHANGED vars \/ Tick \/ (\E at \in 0..now : ListDue(at)) => event' = event
  BY DEF vars, Tick, ListDue
<1>4. Destroy \/ AutoArchive => event'.type = event.type /\ event'.count = event.count
  BY DEF Destroy, AutoArchive, Row
<1>5. ASSUME NEW r, Draw(r) \/ Archive(r) \/ Late(r)
      PROVE  event'.type = event.type /\ event'.count = event.count
  BY <1>5 DEF Draw, Closed, Archive, Late, LateSignUp, LateLeave, LateVote, LateDraw, LateEdit,
     Row
<1>6. ASSUME NEW r, Edit(r)
      PROVE  event'.type = event.type /\ event'.count = event.count
  <2> DEFINE patch == req[r].patch
             e == [f \in DOMAIN event |-> IF f \in DOMAIN patch THEN patch[f] ELSE event[f]]
  <2>1. event' = e /\ KeepsDraw(req[r], e)
    BY <1>6 DEF Edit, MayEdit
  <2>2. CASE {"type", "count"} \cap DOMAIN patch # {}
    BY <2>1, <2>2 DEF KeepsDraw
  <2>3. CASE {"type", "count"} \cap DOMAIN patch = {}
    <3>1. "type" \in DOMAIN event /\ "count" \in DOMAIN event
      BY DEF Row
    <3>2. e.type = event.type /\ e.count = event.count
      BY <2>3, <3>1
    <3>3. QED BY <2>1, <3>2
  <2>4. QED BY <2>2, <2>3
<1>7. QED BY <1>1, <1>2, <1>3, <1>4, <1>5, <1>6 DEF Next, Applied

\* Winners take part as the draw is committed; and they were drawn among everybody who
\* does, unless a request that was refused was applied in part.
THEOREM DrawnFromEveryone == Spec => DrawFromEveryone
<1>1. SignupInv /\ [Next]_vars
        => [~Drawn /\ winners' # {} =>
              /\ winners' \subseteq members
              /\ \/ collided'
                 \/ \E r \in DOMAIN req : req[r].pc = "write" /\ req[r].pool = members]_vars
  <2> SUFFICES ASSUME SignupInv, [Next]_vars, ~Drawn, winners' # {}
               PROVE  /\ winners' \subseteq members
                      /\ \/ collided'
                         \/ \E r \in DOMAIN req : req[r].pc = "write" /\ req[r].pool = members
    OBVIOUS
  <2>1. PICK r \in Actors : Draw(r) \/ (Late(r) /\ LateDraw(req[r]))
    BY WhoDraws DEF Drawn, Destroy
  <2>2. CASE Draw(r)
    <3>1. req \in [Actors -> Request] /\ Sound(r)
      BY Types DEF SignupInv
    <3>2. /\ req[r].pc = "write" /\ req[r].kind = "draw" /\ event.alive /\ req[r].current
          /\ ~event.archived /\ winners' \subseteq members /\ collided' = collided
      BY <2>2 DEF Draw, MayDraw, Wins, Written
    <3>3. QED BY <3>1, <3>2 DEF Sound
  <2>3. CASE Late(r) /\ LateDraw(req[r])
    BY <2>3 DEF Late, LateDraw
  <2>4. QED BY <2>1, <2>2, <2>3
<1>2. QED BY <1>1, SignupInvariant, PTL DEF Spec, DrawFromEveryone

\* The winners stand as long as the event, which stays a raffle of as many, whatever is
\* refused or applied in part; and only staff add participants after a draw, unless a
\* request that was refused was applied in part.
THEOREM DrawnIsFinal == Spec => DrawIsFinal
<1>1. SignupInv /\ [Next]_vars
        => [Drawn => \/ ~event'.alive
                     \/ /\ winners' = winners
                        /\ event'.type = event.type /\ event'.count = event.count
                        /\ \A m \in members' \ members :
                             collided' \/ \E r \in Requests :
                                            req[r].kind = "add" /\ m \in req[r].users]_vars
  <2> SUFFICES ASSUME SignupInv, [Next]_vars, Drawn, event'.alive
               PROVE  /\ winners' = winners
                      /\ event'.type = event.type /\ event'.count = event.count
                      /\ \A m \in members' \ members :
                           collided' \/ \E r \in Requests :
                                          req[r].kind = "add" /\ m \in req[r].users
    OBVIOUS
  <2>1. event \in Row /\ (collided \/ event.locked)
    BY Types DEF SignupInv, Rows, DrawnIsLocked
  <2>2. ~Destroy
    BY <2>1 DEF Destroy, Row
  <2>3. winners' = winners
    BY <2>2, WhoDraws DEF Draw, MayDraw, LateDraw
  <2>4. event'.type = event.type /\ event'.count = event.count
    BY <2>1, <2>2, WhoRules
  <2>5. ASSUME NEW m \in members' \ members
        PROVE  collided' \/ \E r \in Requests : req[r].kind = "add" /\ m \in req[r].users
    <3>1. PICK r \in Actors : \/ SignUp(r, "join") \/ SignUp(r, "add")
                              \/ Late(r) /\ LateSignUp(req[r])
      BY <2>5, WhoJoins
    <3>2. CASE Late(r)
      BY <3>2 DEF Late
    <3>3. CASE SignUp(r, "join")
      BY <2>1, <3>3 DEF SignUp, Written
    <3>4. CASE SignUp(r, "add")
      <4>1. req[r].kind = "add" /\ members' = members \cup req[r].users
        BY <3>4 DEF SignUp, Wins
      <4>2. r \in Requests
        BY <4>1 DEF SignupInv, Sound, Actors
      <4>3. QED BY <2>5, <4>1, <4>2
    <3>5. QED BY <3>1, <3>2, <3>3, <3>4
  <2>6. QED BY <2>3, <2>4, <2>5
<1>2. QED BY <1>1, SignupInvariant, PTL DEF Spec, DrawIsFinal

\* A vote is changed by its voter alone, as long as the poll is not archived and no
\* refused request was applied in part.
THEOREM VotesStandFast == Spec => VotesStand
<1>1. SignupInv /\ [Next]_vars
        => [\A m \in Members : votes[m] # None /\ votes'[m] # votes[m] =>
              \/ ~event'.alive \/ event.archived \/ collided'
              \/ \E r \in Requests : req[r].kind = "vote" /\ req[r].users = {m}]_vars
  <2> SUFFICES ASSUME SignupInv, [Next]_vars, NEW m \in Members, votes[m] # None,
                      votes'[m] # votes[m], event'.alive, ~event.archived, ~collided'
               PROVE  \E r \in Requests : req[r].kind = "vote" /\ req[r].users = {m}
    OBVIOUS
  <2>1. /\ event \in Row /\ votes \in [Members -> Answers \cup {None}]
        /\ \A r \in Actors : Sound(r)
    BY Types DEF SignupInv, Rows
  <2>2. PICK r \in Actors : Vote(r) \/ Edit(r)
    BY <2>1, WhoVotes DEF Destroy, Row, Late
  <2>3. CASE Vote(r)
    <3>1. PICK u \in req[r].users : votes' = [votes EXCEPT ![u] = req[r].choice]
      BY <2>3 DEF Vote
    <3>2. u = m /\ req[r].kind = "vote"
      BY <2>1, <2>3, <3>1 DEF Vote, Wins
    <3>3. req[r].users = {m} /\ r \in Requests
      BY <2>1, <3>1, <3>2 DEF Sound, Actors
    <3>4. QED BY <3>2, <3>3
  <2>4. CASE Edit(r)
    <3>1. "poll" \in DOMAIN req[r].patch /\ ~collided
      BY <2>4 DEF Edit
    <3>2. req[r].pc = "write" /\ req[r].kind = "edit" /\ event.alive /\ req[r].current
      BY <2>4 DEF Edit, Wins, MayEdit
    <3>3. votes = NoVotes
      BY <2>1, <3>1, <3>2 DEF Sound
    <3>4. QED BY <3>3 DEF NoVotes
  <2>5. QED BY <2>2, <2>3, <2>4
<1>2. QED BY <1>1, SignupInvariant, PTL DEF Spec, VotesStand

\* No sign-up leaves the event above its capacity, whatever the requests read before,
\* and not even one that was refused and applied in part.
THEOREM NobodyOverbooks == Spec => NeverOverbooked
<1>1. [Next]_vars
        => [~(members' \subseteq members) /\ event.capacity # None
              => Cardinality(members') <= event.capacity]_vars
  <2> SUFFICES ASSUME [Next]_vars, ~(members' \subseteq members), event.capacity # None
               PROVE  Cardinality(members') <= event.capacity
    OBVIOUS
  <2>1. PICK r \in Actors : \/ SignUp(r, "join") \/ SignUp(r, "add")
                            \/ Late(r) /\ LateSignUp(req[r])
    BY WhoJoins
  <2>2. HasRoom(req[r]) /\ members' = members \cup req[r].users
    BY <2>1 DEF SignUp, LateSignUp
  <2>3. QED BY <2>2 DEF HasRoom
<1>2. QED BY <1>1, PTL DEF Spec, NeverOverbooked
=============================================================================
