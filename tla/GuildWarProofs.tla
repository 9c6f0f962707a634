--------------------------- MODULE GuildWarProofs ---------------------------
(***************************************************************************)
(* Theorems about GuildWar, for any number of members, wars and requests.  *)
(***************************************************************************)
EXTENDS GuildWar, TLAPS

------------------------------------------------------------------------------
\* The inductive invariant.

WarRecord ==
  [status : {"none", "active", "concluded", "gone"}, held : BOOLEAN, version : Nat,
   teams : BOOLEAN, roster : Rosters, scored : SUBSET Members]
RequestRecord ==
  [pc : {"idle", "war", "raced", "create", "write"},
   kind : {"none", "save", "move", "tag", "conclude", "history"},
   current : BOOLEAN, knows : SUBSET Members, id : Wars \cup {NoId},
   version : Nat, teams : BOOLEAN, seen : Rosters]

\* The event has at most one war: joined changes for one roster at a time.
OneHeld == \A v, w \in Wars : Held(v) /\ Held(w) => v = w

\* A request that will write names a war, and while that is at the version it read
\* the roster is the one it saw.
Sees(q) ==
  /\ q.id \in Wars /\ war[q.id].status # "none"
  /\ war[q.id].status # "gone" =>
       /\ q.version <= war[q.id].version
       /\ q.version = war[q.id].version => q.seen = war[q.id].roster

SeenSound == \A r \in Requests : req[r].pc = "write" => Sees(req[r])

WarInv == TypeOK /\ OneHeld /\ RosterSignedUp /\ SeenSound

LEMMA Types ==
  TypeOK <=> /\ alive \in BOOLEAN /\ joined \subseteq Members /\ made \in Nat
             /\ war \in [Wars -> WarRecord] /\ req \in [Requests -> RequestRecord]
BY DEF TypeOK, WarRecord, RequestRecord

LEMMA NothingYet ==
  /\ NoRoster \in Rosters /\ In(NoRoster) = {} /\ NoRoster.tagged = {}
  /\ NoWar \in WarRecord /\ NoReq \in RequestRecord
<1>1. [m \in Members |-> "out"] \in Places
  BY DEF Places
<1>2. NoRoster \in Rosters /\ In(NoRoster) = {} /\ NoRoster.tagged = {}
  BY <1>1 DEF NoRoster, Rosters, In
<1>3. QED BY <1>2 DEF NoWar, NoReq, WarRecord, RequestRecord

\* How a war may change under the requests that read it.
Moved(w) ==
  \/ war'[w] = war[w]
  \/ war[w].status = "none"
  \/ war'[w].status = "gone"
  \/ /\ war[w].status # "gone" /\ war'[w].status # "none"
     /\ \/ war[w].version < war'[w].version
        \/ war[w].version = war'[w].version /\ war[w].roster = war'[w].roster

SameReading(r) ==
  /\ req[r].pc = "write"
  /\ req'[r].id = req[r].id /\ req'[r].version = req[r].version /\ req'[r].seen = req[r].seen

LEMMA StillSeen ==
  ASSUME WarInv, TypeOK', \A w \in Wars : Moved(w),
         \A r \in Requests : req'[r].pc = "write" => SameReading(r) \/ Sees(req[r])'
  PROVE  SeenSound'
<1> SUFFICES ASSUME NEW r \in Requests, req'[r].pc = "write", SameReading(r)
             PROVE  Sees(req[r])'
  BY DEF SeenSound
<1>1. Sees(req[r]) /\ req'[r].id = req[r].id /\ req'[r].version = req[r].version
      /\ req'[r].seen = req[r].seen
  BY DEF WarInv, SeenSound, SameReading
<1> DEFINE w == req[r].id
<1>2. w \in Wars /\ Moved(w) /\ war[w].status # "none"
  BY <1>1 DEF Sees
<1>3. /\ war[w].version \in Nat /\ war'[w].version \in Nat /\ req[r].version \in Nat
  BY <1>2, Types DEF WarInv, WarRecord, RequestRecord, TypeOK
<1>4. QED BY <1>1, <1>2, <1>3 DEF Sees, Moved

LEMMA OutdatedType ==
  ASSUME NEW rs \in [Requests -> RequestRecord]
  PROVE  /\ Outdated(rs) \in [Requests -> RequestRecord]
         /\ \A r \in Requests : /\ Outdated(rs)[r].pc = rs[r].pc /\ Outdated(rs)[r].id = rs[r].id
                                /\ Outdated(rs)[r].version = rs[r].version
                                /\ Outdated(rs)[r].seen = rs[r].seen
<1>1. ASSUME NEW r \in Requests
      PROVE  /\ Outdated(rs)[r] \in RequestRecord
             /\ Outdated(rs)[r].pc = rs[r].pc /\ Outdated(rs)[r].id = rs[r].id
             /\ Outdated(rs)[r].version = rs[r].version /\ Outdated(rs)[r].seen = rs[r].seen
  <2>1. rs[r] \in RequestRecord
    OBVIOUS
  <2>2. QED BY <2>1 DEF Outdated, RequestRecord
<1>2. QED BY <1>1 DEF Outdated

LEMMA ClosesType ==
  ASSUME WarInv, NEW r \in Requests
  PROVE  /\ Closes(r) \in [Requests -> RequestRecord] /\ Closes(r)[r].pc = "idle"
         /\ \A q \in Requests \ {r} : Closes(r)[q] = req[q]
<1>1. req \in [Requests -> RequestRecord]
  BY Types DEF WarInv
<1>2. QED BY <1>1, NothingYet DEF Closes, NoReq

\* A request is closed and the readings of the others are kept.
LEMMA ReadingsKept ==
  ASSUME WarInv, NEW r \in Requests, req' = Closes(r) \/ req' = Outdated(Closes(r))
  PROVE  /\ req' \in [Requests -> RequestRecord] /\ req'[r].pc = "idle"
         /\ \A q \in Requests : req'[q].pc = "write" => SameReading(q)
<1>1. /\ Closes(r) \in [Requests -> RequestRecord] /\ Closes(r)[r].pc = "idle"
      /\ \A q \in Requests \ {r} : Closes(r)[q] = req[q]
  BY ClosesType
<1> DEFINE c == Closes(r)
<1> HIDE DEF c
<1>2. /\ req' \in [Requests -> RequestRecord] /\ req'[r].pc = "idle"
      /\ \A q \in Requests : /\ req'[q].pc = c[q].pc /\ req'[q].id = c[q].id
                             /\ req'[q].version = c[q].version /\ req'[q].seen = c[q].seen
  BY <1>1, OutdatedType DEF c
<1>3. QED BY <1>1, <1>2 DEF c, SameReading

------------------------------------------------------------------------------
\* The event.

LEMMA JoinStep ==
  ASSUME WarInv, NEW m \in Members, Join(m)
  PROVE  WarInv'
<1>1. /\ alive' = alive /\ joined' = joined \cup {m} /\ war' = war /\ made' = made
      /\ req' = Outdated(req) /\ req \in [Requests -> RequestRecord]
  BY Types DEF Join, WarInv
<1>2. /\ req' \in [Requests -> RequestRecord]
      /\ \A r \in Requests : req'[r].pc = "write" => SameReading(r)
  BY <1>1, OutdatedType DEF SameReading
<1>3. TypeOK'
  BY <1>1, <1>2 DEF WarInv, TypeOK, RequestRecord
<1>4. SeenSound'
  BY <1>1, <1>2, <1>3, StillSeen DEF Moved
<1>5. OneHeld' /\ RosterSignedUp'
  BY <1>1 DEF WarInv, OneHeld, Held, RosterSignedUp, In
<1>6. QED BY <1>3, <1>4, <1>5 DEF WarInv

LEMMA LeaveStep ==
  ASSUME WarInv, NEW U \in SUBSET Members, Leave(U)
  PROVE  WarInv'
<1>1. /\ alive' = alive /\ joined' = joined \ U /\ war' = war /\ made' = made
      /\ req' = Outdated(req) /\ req \in [Requests -> RequestRecord]
      /\ \A m \in U : MayLeave(m)
  BY Types DEF Leave, WarInv
<1>2. /\ req' \in [Requests -> RequestRecord]
      /\ \A r \in Requests : req'[r].pc = "write" => SameReading(r)
  BY <1>1, OutdatedType DEF SameReading
<1>3. TypeOK'
  BY <1>1, <1>2 DEF WarInv, TypeOK, RequestRecord
<1>4. SeenSound'
  BY <1>1, <1>2, <1>3, StillSeen DEF Moved
<1>5. OneHeld' /\ RosterSignedUp'
  BY <1>1 DEF WarInv, OneHeld, Held, RosterSignedUp, In, MayLeave
<1>6. QED BY <1>3, <1>4, <1>5 DEF WarInv

LEMMA DestroyStep ==
  ASSUME WarInv, Destroy
  PROVE  WarInv'
<1> DEFINE gone == [NoWar EXCEPT !.status = "gone"]
<1>1. /\ alive' = FALSE /\ joined' = {} /\ req' = req /\ made' = made
      /\ war' = [w \in Wars |-> IF ~Held(w) THEN war[w]
                                ELSE IF war[w].status = "active" THEN gone
                                ELSE [war[w] EXCEPT !.held = FALSE]]
  BY DEF Destroy
<1>2. gone \in WarRecord /\ gone.status = "gone"
  BY NothingYet DEF WarRecord
<1> HIDE DEF gone
<1>3. ASSUME NEW w \in Wars
      PROVE  /\ war'[w] \in WarRecord /\ Moved(w)
             /\ war'[w].status # "active" /\ ~Held(w)'
  <2>1. war[w] \in WarRecord /\ (war[w].status = "active" => Held(w))
    BY Types DEF WarInv, RosterSignedUp, Held
  <2>2. CASE ~Held(w)
    BY <1>1, <2>1, <2>2 DEF Moved, Held
  <2>3. CASE Held(w) /\ war[w].status = "active"
    BY <1>1, <1>2, <2>3 DEF Moved, Held
  <2>4. CASE Held(w) /\ war[w].status # "active"
    BY <1>1, <2>1, <2>4 DEF WarRecord, Moved, Held
  <2>5. QED BY <2>2, <2>3, <2>4
<1>4. TypeOK'
  <2>1. war' \in [Wars -> WarRecord]
    BY <1>1, <1>3
  <2>2. QED BY <1>1, <2>1 DEF WarInv, TypeOK, WarRecord
<1>5. SeenSound'
  BY <1>1, <1>3, <1>4, StillSeen DEF SameReading
<1>6. OneHeld' /\ RosterSignedUp'
  BY <1>3 DEF OneHeld, RosterSignedUp
<1>7. QED BY <1>4, <1>5, <1>6 DEF WarInv

------------------------------------------------------------------------------
\* Reading.

\* A request that is not yet writing moves, and nothing else.
LEMMA OneRequest ==
  ASSUME WarInv, NEW r \in Requests, NEW q \in RequestRecord, req' = [req EXCEPT ![r] = q],
         UNCHANGED <<alive, joined, war>>, made' \in Nat, q.pc = "write" => Sees(q)
  PROVE  WarInv'
<1>1. req \in [Requests -> RequestRecord]
  BY Types DEF WarInv
<1>2. /\ req' \in [Requests -> RequestRecord] /\ req'[r] = q
      /\ \A p \in Requests \ {r} : req'[p] = req[p]
  BY <1>1
<1>3. TypeOK'
  BY <1>2 DEF WarInv, TypeOK, RequestRecord
<1>4. Sees(req[r])' <=> Sees(q)
  BY <1>2 DEF Sees
<1>5. SeenSound'
  BY <1>2, <1>3, <1>4, StillSeen DEF Moved, SameReading
<1>6. OneHeld' /\ RosterSignedUp'
  BY DEF WarInv, OneHeld, Held, RosterSignedUp, In
<1>7. QED BY <1>3, <1>5, <1>6 DEF WarInv

LEMMA ReadEventStep ==
  ASSUME WarInv, NEW r \in Requests, NEW kind \in {"save", "move", "tag", "conclude"},
         ReadEvent(r, kind)
  PROVE  WarInv'
<1>1. PICK current \in BOOLEAN :
        req' = [req EXCEPT ![r] = [NoReq EXCEPT !.pc = "war", !.kind = kind,
                                                !.current = current, !.knows = joined]]
  BY DEF ReadEvent
<1> DEFINE q == [NoReq EXCEPT !.pc = "war", !.kind = kind, !.current = current, !.knows = joined]
<1>2. joined \subseteq Members
  BY DEF WarInv, TypeOK
<1>3. q \in RequestRecord /\ q.pc = "war"
  BY <1>2, NothingYet DEF RequestRecord
<1>4. UNCHANGED <<alive, joined, war>> /\ made' \in Nat
  BY DEF ReadEvent, WarInv, TypeOK
<1> HIDE DEF q
<1>5. QED BY <1>1, <1>3, <1>4, OneRequest DEF q

\* What Read takes over of a war.
LEMMA ReadType ==
  ASSUME WarInv, NEW q \in RequestRecord, NEW w \in Wars
  PROVE  /\ Read(q, w) \in RequestRecord /\ Read(q, w).pc = "write" /\ Read(q, w).id = w
         /\ Read(q, w).version = war[w].version /\ Read(q, w).seen = war[w].roster
<1>1. war[w] \in WarRecord
  BY Types DEF WarInv
<1>2. war[w].version \in Nat /\ war[w].teams \in BOOLEAN /\ war[w].roster \in Rosters
  BY <1>1 DEF WarRecord
<1>3. QED BY <1>2 DEF Read, RequestRecord

LEMMA ReadSees ==
  ASSUME WarInv, NEW q \in RequestRecord, NEW w \in Wars, war[w].status # "none"
  PROVE  Sees(Read(q, w))
<1>1. war[w].version \in Nat
  BY Types DEF WarInv, WarRecord
<1>2. QED BY <1>1, ReadType DEF Sees

LEMMA ReadWarStep ==
  ASSUME WarInv, NEW r \in Requests, ReadWar(r)
  PROVE  WarInv'
<1>1. req[r] \in RequestRecord /\ made' \in Nat /\ UNCHANGED <<alive, joined, war>>
  BY Types DEF WarInv, ReadWar, TypeOK
<1>2. CASE \E w \in Wars : Held(w)
  <2> DEFINE w == CHOOSE w \in Wars : Held(w)
  <2>1. w \in Wars /\ Held(w)
    BY <1>2
  <2>2. req' = [req EXCEPT ![r] = IF war[w].status = "active" THEN Read(req[r], w) ELSE NoReq]
    BY <1>2 DEF ReadWar
  <2> HIDE DEF w
  <2>3. /\ Read(req[r], w) \in RequestRecord /\ Sees(Read(req[r], w))
        /\ NoReq \in RequestRecord /\ NoReq.pc = "idle"
    BY <1>1, <2>1, ReadType, ReadSees, NothingYet DEF Held, NoReq
  <2>4. CASE war[w].status = "active"
    <3>1. req' = [req EXCEPT ![r] = Read(req[r], w)]
      BY <2>2, <2>4
    <3>2. QED BY <1>1, <2>3, <3>1, OneRequest
  <2>5. CASE war[w].status # "active"
    <3>1. req' = [req EXCEPT ![r] = NoReq]
      BY <2>2, <2>5
    <3>2. QED BY <1>1, <2>3, <3>1, OneRequest
  <2>6. QED BY <2>4, <2>5
<1>3. CASE ~\E w \in Wars : Held(w)
  <2> DEFINE q == IF req[r].pc = "war" THEN [req[r] EXCEPT !.pc = "create"] ELSE NoReq
  <2>1. req' = [req EXCEPT ![r] = q]
    BY <1>3 DEF ReadWar
  <2>2. q \in RequestRecord /\ q.pc # "write"
    BY <1>1, NothingYet DEF RequestRecord, NoReq
  <2> HIDE DEF q
  <2>3. QED BY <1>1, <2>1, <2>2, OneRequest
<1>4. QED BY <1>2, <1>3

LEMMA CreateActiveStep ==
  ASSUME WarInv, NEW r \in Requests, CreateActive(r)
  PROVE  WarInv'
<1>1. /\ req[r] \in RequestRecord /\ made' = made /\ UNCHANGED <<alive, joined>>
      /\ req \in [Requests -> RequestRecord] /\ war \in [Wars -> WarRecord]
      /\ req[r].pc = "create" /\ made \in Nat
  BY Types DEF WarInv, CreateActive, TypeOK
<1>2. CASE \E w \in Wars : Held(w)
  <2> DEFINE q == [req[r] EXCEPT !.pc = "raced"]
  <2>1. req' = [req EXCEPT ![r] = q] /\ war' = war
    BY <1>2 DEF CreateActive
  <2>2. q \in RequestRecord /\ q.pc = "raced"
    BY <1>1 DEF RequestRecord
  <2> HIDE DEF q
  <2>3. QED BY <1>1, <2>1, <2>2, OneRequest
<1>3. CASE ~\E w \in Wars : Held(w)
  <2>1. PICK w \in Wars :
          /\ war[w].status = "none"
          /\ war' = [war EXCEPT ![w] = [NoWar EXCEPT !.status = "active", !.held = TRUE]]
          /\ req' = [req EXCEPT ![r] = [Read(req[r], w) EXCEPT !.version = 0, !.seen = NoRoster]]
    BY <1>3 DEF CreateActive
  <2> DEFINE new == [NoWar EXCEPT !.status = "active", !.held = TRUE]
             q == [Read(req[r], w) EXCEPT !.version = 0, !.seen = NoRoster]
  <2>2. /\ new \in WarRecord /\ new.status = "active" /\ new.held = TRUE /\ new.version = 0
        /\ new.roster = NoRoster
    BY NothingYet DEF WarRecord, NoWar
  <2>3. /\ q \in RequestRecord /\ q.pc = "write" /\ q.id = w /\ q.version = 0
        /\ q.seen = NoRoster
    <3>1. /\ Read(req[r], w) \in RequestRecord /\ Read(req[r], w).pc = "write"
          /\ Read(req[r], w).id = w /\ NoRoster \in Rosters
      BY <1>1, ReadType, NothingYet
    <3>2. QED BY <3>1 DEF RequestRecord
  <2>4. war' = [war EXCEPT ![w] = new] /\ req' = [req EXCEPT ![r] = q]
    BY <2>1
  <2> HIDE DEF new, q
  <2>5. /\ war' \in [Wars -> WarRecord] /\ war'[w] = new
        /\ \A v \in Wars \ {w} : war'[v] = war[v]
        /\ req' \in [Requests -> RequestRecord] /\ req'[r] = q
        /\ \A p \in Requests \ {r} : req'[p] = req[p]
    BY <1>1, <2>2, <2>3, <2>4
  <2>6. TypeOK'
    BY <1>1, <2>5 DEF WarInv, TypeOK, WarRecord, RequestRecord
  <2>7. Sees(req[r])'
    BY <2>2, <2>3, <2>5 DEF Sees
  <2>8. \A v \in Wars : Moved(v)
    BY <2>1, <2>5 DEF Moved
  <2>9. SeenSound'
    BY <2>5, <2>6, <2>7, <2>8, StillSeen DEF SameReading
  <2>10. OneHeld'
    BY <1>3, <2>5 DEF OneHeld, Held
  <2>11. RosterSignedUp'
    <3>1. In(war'[w].roster) = {}
      BY <2>2, <2>5, NothingYet
    <3>2. QED BY <1>1, <2>2, <2>5, <3>1 DEF WarInv, RosterSignedUp, In
  <2>12. QED BY <2>6, <2>9, <2>10, <2>11 DEF WarInv
<1>4. QED BY <1>2, <1>3

LEMMA ReadHistoryStep ==
  ASSUME WarInv, NEW r \in Requests, NEW w \in Wars, ReadHistory(r, w, "history")
  PROVE  WarInv'
<1> DEFINE asked == [NoReq EXCEPT !.kind = "history"]
<1>1. /\ req' = [req EXCEPT ![r] = Read(asked, w)] /\ made' \in Nat
      /\ UNCHANGED <<alive, joined, war>> /\ war[w].status = "concluded"
  BY DEF ReadHistory, WarInv, TypeOK
<1>2. asked \in RequestRecord
  BY NothingYet DEF RequestRecord
<1> HIDE DEF asked
<1>3. Read(asked, w) \in RequestRecord /\ Sees(Read(asked, w))
  BY <1>1, <1>2, ReadType, ReadSees
<1>4. QED BY <1>1, <1>3, OneRequest

------------------------------------------------------------------------------
\* Writing.

\* One war is replaced by another state of it, under a request that is closed.
LEMMA OneWar ==
  ASSUME WarInv, NEW w \in Wars, NEW new \in WarRecord, war' = [war EXCEPT ![w] = new],
         Moved(w), req' \in [Requests -> RequestRecord],
         \A q \in Requests : req'[q].pc = "write" => SameReading(q),
         alive' = alive, joined' \subseteq Members, made' \in Nat,
         Held(w)' => \A v \in Wars : Held(v) => v = w,
         new.status = "active" => new.held /\ In(new.roster) \subseteq joined',
         \A v \in Wars \ {w} : war[v].status = "active" => joined' = joined
  PROVE  WarInv'
<1>1. war \in [Wars -> WarRecord]
  BY Types DEF WarInv
<1>2. /\ war' \in [Wars -> WarRecord] /\ war'[w] = new
      /\ \A v \in Wars \ {w} : war'[v] = war[v]
  BY <1>1
<1>3. TypeOK'
  BY <1>2 DEF WarInv, TypeOK, WarRecord, RequestRecord
<1>4. \A v \in Wars : Moved(v)
  BY <1>2 DEF Moved
<1>5. SeenSound'
  BY <1>3, <1>4, StillSeen
<1>6. OneHeld'
  BY <1>2 DEF WarInv, OneHeld, Held
<1>7. RosterSignedUp'
  BY <1>2 DEF WarInv, RosterSignedUp, In
<1>8. QED BY <1>3, <1>5, <1>6, <1>7 DEF WarInv

LEMMA CreateHistoryStep ==
  ASSUME WarInv, NEW w \in Wars, CreateHistory(w)
  PROVE  WarInv'
<1>1. PICK held \in BOOLEAN :
        /\ held => \A v \in Wars : ~Held(v)
        /\ war' = [war EXCEPT ![w] = [NoWar EXCEPT !.status = "concluded", !.held = held]]
  BY DEF CreateHistory
<1> DEFINE new == [NoWar EXCEPT !.status = "concluded", !.held = held]
<1>2. new \in WarRecord /\ new.status = "concluded" /\ new.held = held
  BY NothingYet DEF WarRecord
<1>3. war' = [war EXCEPT ![w] = new] /\ war \in [Wars -> WarRecord]
  BY <1>1, Types DEF WarInv
<1> HIDE DEF new
<1>4. /\ UNCHANGED <<alive, joined, req>> /\ made' \in Nat /\ joined \subseteq Members
      /\ req \in [Requests -> RequestRecord] /\ war[w].status = "none"
  BY Types DEF CreateHistory, WarInv, TypeOK
<1>5. Held(w)' => \A v \in Wars : Held(v) => v = w
  BY <1>1, <1>2, <1>3 DEF Held
<1>6. Moved(w) /\ \A q \in Requests : req'[q].pc = "write" => SameReading(q)
  BY <1>4 DEF Moved, SameReading
<1>7. QED BY <1>2, <1>3, <1>4, <1>5, <1>6, OneWar

\* A write that finds the war as it was read names one, and moves its version.
LEMMA WonWar ==
  ASSUME WarInv, NEW r \in Requests, NEW kind, NEW status \in {"active", "concluded"},
         Wins(r, kind, status)
  PROVE  /\ req[r].id \in Wars /\ war[req[r].id] \in WarRecord
         /\ war[req[r].id].status = status /\ req[r].pc = "write"
         /\ req[r].seen = war[req[r].id].roster
         /\ war[req[r].id].held => Held(req[r].id)
<1>1. req[r].pc = "write" /\ Unchanged(req[r], status)
  BY DEF Wins
<1>2. Sees(req[r])
  BY <1>1 DEF WarInv, SeenSound
<1>3. QED BY <1>1, <1>2, Types DEF WarInv, Sees, Unchanged, Held

LEMMA WrittenStep ==
  ASSUME WarInv, NEW r \in Requests, NEW kind, NEW status \in {"active", "concluded"},
         Wins(r, kind, status), NEW u \in WarRecord, Written(r, u),
         u.version = war[req[r].id].version, u.status \in {status, "concluded"},
         req' = Closes(r) \/ req' = Outdated(Closes(r)),
         alive' = alive, made' = made, joined' \subseteq Members,
         u.held => \A v \in Wars : Held(v) => v = req[r].id,
         u.status = "active" => u.held /\ In(u.roster) \subseteq joined',
         \A v \in Wars \ {req[r].id} : war[v].status = "active" => joined' = joined
  PROVE  WarInv'
<1>0. PICK w \in Wars : w = req[r].id
  BY WonWar
<1> DEFINE new == [u EXCEPT !.version = @ + 1]
<1>1. w \in Wars /\ war[w] \in WarRecord /\ war[w].status = status
  BY <1>0, WonWar
<1>2. war' = [war EXCEPT ![w] = new] /\ war \in [Wars -> WarRecord] /\ made \in Nat
  BY <1>0, Types DEF Written, WarInv, TypeOK
<1>3. u.version \in Nat /\ u.version + 1 \in Nat /\ u.version < u.version + 1
  BY DEF WarRecord
<1>4. /\ new \in WarRecord /\ new.status = u.status /\ new.held = u.held
      /\ new.roster = u.roster /\ new.version = u.version + 1
  BY <1>3 DEF WarRecord
<1> HIDE DEF new
<1>5. war'[w] = new
  BY <1>1, <1>2
<1>6. Moved(w)
  BY <1>0, <1>1, <1>3, <1>4, <1>5 DEF Moved
<1>7. Held(w)' => \A v \in Wars : Held(v) => v = w
  BY <1>0, <1>4, <1>5 DEF Held
<1>8. /\ req' \in [Requests -> RequestRecord]
      /\ \A q \in Requests : req'[q].pc = "write" => SameReading(q)
  BY ReadingsKept
<1>9. new.status = "active" => new.held /\ In(new.roster) \subseteq joined'
  BY <1>4
<1>10. \A v \in Wars \ {w} : war[v].status = "active" => joined' = joined
  BY <1>0
<1>11. QED BY <1>1, <1>2, <1>4, <1>6, <1>7, <1>8, <1>9, <1>10, OneWar

\* A write that leaves the event and its participants alone.
LEMMA QuietWrite ==
  ASSUME WarInv, NEW r \in Requests, NEW kind, NEW status \in {"active", "concluded"},
         Wins(r, kind, status), NEW u \in WarRecord, Written(r, u),
         u.version = war[req[r].id].version, u.status \in {status, "concluded"},
         req' = Closes(r), UNCHANGED <<alive, joined, made>>,
         u.held => war[req[r].id].held \/ \A v \in Wars : Held(v) => v = req[r].id,
         u.status = "active" => u.held /\ In(u.roster) \subseteq joined
  PROVE  WarInv'
<1>1. joined' \subseteq Members /\ made' = made
  BY DEF WarInv, TypeOK
<1>2. u.held => \A v \in Wars : Held(v) => v = req[r].id
  BY WonWar DEF WarInv, OneHeld
<1>3. u.status = "active" => u.held /\ In(u.roster) \subseteq joined'
  OBVIOUS
<1>4. \A v \in Wars \ {req[r].id} : war[v].status = "active" => joined' = joined
  OBVIOUS
<1>5. QED BY <1>1, <1>2, <1>3, <1>4, WrittenStep

LEMMA SaveStep ==
  ASSUME WarInv, NEW r \in Requests, Save(r)
  PROVE  WarInv'
<1> DEFINE w == req[r].id
<1>1. /\ Wins(r, "save", "active") /\ war[w].held /\ req' = Closes(r)
      /\ UNCHANGED <<alive, joined, made>>
  BY DEF Save
<1>2. /\ w \in Wars /\ war[w] \in WarRecord /\ war[w].status = "active"
  BY <1>1, WonWar
<1>3. PICK place \in Places :
        LET new == [place |-> place, tagged |-> {}] IN
        /\ In(new) \subseteq joined
        /\ \E tagged \in SUBSET Team(new), teams \in BOOLEAN :
             Written(r, [war[w] EXCEPT !.teams = teams, !.scored = {},
                                       !.roster = [new EXCEPT !.tagged = tagged]])
  BY DEF Save, Places
<1> DEFINE new == [place |-> place, tagged |-> {}]
<1>4. PICK tagged \in SUBSET Team(new), teams \in BOOLEAN :
        Written(r, [war[w] EXCEPT !.teams = teams, !.scored = {},
                                  !.roster = [new EXCEPT !.tagged = tagged]])
  BY <1>3
<1> DEFINE roster == [new EXCEPT !.tagged = tagged]
           u == [war[w] EXCEPT !.teams = teams, !.scored = {}, !.roster = roster]
<1>5. roster \in Rosters /\ In(roster) \subseteq joined
  BY <1>3 DEF Rosters, Team, In
<1> HIDE DEF roster, new
<1>6. /\ u \in WarRecord /\ u.version = war[w].version /\ u.status = "active"
      /\ u.held = war[w].held /\ u.roster = roster
  BY <1>2, <1>5 DEF WarRecord
<1>7. Written(r, u)
  BY <1>4 DEF roster, new
<1> HIDE DEF u
<1>8. QED BY <1>1, <1>5, <1>6, <1>7, QuietWrite

LEMMA MoveStep ==
  ASSUME WarInv, NEW r \in Requests, Move(r)
  PROVE  WarInv'
<1> DEFINE w == req[r].id
           old == war[w].roster
           place(P, T, R) ==
             [m \in Members |-> IF m \in P THEN "pool" ELSE IF m \in T THEN "team"
                                ELSE IF m \in R THEN "out" ELSE old.place[m]]
           added(P) == P \ req[r].knows
<1>1. /\ Wins(r, "move", "active") /\ war[w].held /\ alive' = alive /\ made' = made
      /\ req' = Outdated(Closes(r))
  BY DEF Move
<1>2. /\ w \in Wars /\ war[w] \in WarRecord /\ war[w].status = "active" /\ Held(w)
  BY <1>1, WonWar
<1>3. PICK P \in SUBSET Members, T \in SUBSET Members, R \in SUBSET Members :
        /\ P \cap (T \cup R) = {} /\ T \cap R = {}
        /\ P \cup T \cup R \subseteq joined \cup added(P)
        /\ Written(r, [war[w] EXCEPT
             !.roster = [place |-> place(P, T, R), tagged |-> old.tagged \ R],
             !.scored = @ \ R])
        /\ joined' = (joined \cup added(P)) \ R
  BY DEF Move
<1> DEFINE roster == [place |-> place(P, T, R), tagged |-> old.tagged \ R]
           u == [war[w] EXCEPT !.roster = roster, !.scored = @ \ R]
<1>4. old \in Rosters /\ war[w].scored \subseteq Members
  BY <1>2 DEF WarRecord
<1>5. roster \in Rosters
  <2>1. \A m \in Members : old.place[m] \in {"out", "pool", "team"}
    BY <1>4 DEF Rosters, Places
  <2>2. place(P, T, R) \in Places
    BY <2>1 DEF Places
  <2>3. QED BY <1>4, <2>2 DEF Rosters
<1>6. In(roster) \subseteq joined'
  <2>1. In(old) \subseteq joined
    BY <1>2 DEF WarInv, RosterSignedUp
  <2>2. In(roster) \subseteq (In(old) \cup P \cup T) \ R
    BY <1>3 DEF In
  <2>3. QED BY <1>3, <2>1, <2>2
<1>7. joined' \subseteq Members
  BY <1>3 DEF WarInv, TypeOK
<1>8. Written(r, u)
  BY <1>3
<1> HIDE DEF roster
<1>9. /\ u \in WarRecord /\ u.version = war[w].version /\ u.status = "active"
      /\ u.held = war[w].held /\ u.roster = roster
  BY <1>2, <1>4, <1>5 DEF WarRecord
<1> HIDE DEF u
<1>10. \A v \in Wars : Held(v) => v = w
  BY <1>2 DEF WarInv, OneHeld
<1>11. \A v \in Wars \ {w} : war[v].status # "active"
  BY <1>10 DEF WarInv, RosterSignedUp, Held
<1>12. QED BY <1>1, <1>6, <1>7, <1>8, <1>9, <1>10, <1>11, WrittenStep

LEMMA SetRoleTagsStep ==
  ASSUME WarInv, NEW r \in Requests, SetRoleTags(r)
  PROVE  WarInv'
<1> DEFINE w == req[r].id
           team == Team(war[w].roster)
<1>1. Wins(r, "tag", "active") /\ req' = Closes(r) /\ UNCHANGED <<alive, joined, made>>
  BY DEF SetRoleTags
<1>2. /\ w \in Wars /\ war[w] \in WarRecord /\ war[w].status = "active"
  BY <1>1, WonWar
<1>3. PICK U \in SUBSET Team(req[r].seen) : \E T \in SUBSET U :
        Written(r, [war[w] EXCEPT !.roster.tagged = (@ \ (U \cap team)) \cup (T \cap team)])
  BY DEF SetRoleTags
<1>4. PICK T \in SUBSET U :
        Written(r, [war[w] EXCEPT !.roster.tagged = (@ \ (U \cap team)) \cup (T \cap team)])
  BY <1>3
<1> DEFINE tagged == (war[w].roster.tagged \ (U \cap team)) \cup (T \cap team)
           u == [war[w] EXCEPT !.roster.tagged = (@ \ (U \cap team)) \cup (T \cap team)]
<1>5. war[w].roster \in Rosters /\ team \subseteq Members
  BY <1>2 DEF WarRecord, Team
<1>6. /\ u.roster = [war[w].roster EXCEPT !.tagged = tagged] /\ u.version = war[w].version
      /\ u.status = "active" /\ u.held = war[w].held
  BY <1>2 DEF WarRecord
<1>7. u.roster \in Rosters /\ u.roster.place = war[w].roster.place
  BY <1>5, <1>6 DEF Rosters
<1>8. u \in WarRecord
  BY <1>2, <1>7 DEF WarRecord
<1>9. u.held /\ In(u.roster) \subseteq joined
  BY <1>2, <1>6, <1>7 DEF WarInv, RosterSignedUp, In
<1>10. Written(r, u)
  BY <1>4
<1> HIDE DEF u
<1>11. QED BY <1>1, <1>6, <1>8, <1>9, <1>10, QuietWrite

LEMMA ConcludeStep ==
  ASSUME WarInv, NEW r \in Requests, Conclude(r)
  PROVE  WarInv'
<1> DEFINE w == req[r].id
<1>1. Wins(r, "conclude", "active") /\ req' = Closes(r) /\ UNCHANGED <<alive, joined, made>>
  BY DEF Conclude
<1>2. w \in Wars /\ war[w] \in WarRecord
  BY <1>1, WonWar
<1>3. PICK U \in SUBSET Team(req[r].seen) :
        Written(r, [war[w] EXCEPT !.status = "concluded",
                                  !.scored = @ \cup (U \cap Team(war[w].roster))])
  BY DEF Conclude
<1> DEFINE u == [war[w] EXCEPT !.status = "concluded",
                               !.scored = @ \cup (U \cap Team(war[w].roster))]
<1>4. /\ u \in WarRecord /\ u.version = war[w].version /\ u.status = "concluded"
      /\ u.held = war[w].held
  BY <1>2 DEF WarRecord, Team
<1>5. Written(r, u)
  BY <1>3
<1> HIDE DEF u
<1>6. QED BY <1>1, <1>4, <1>5, QuietWrite

LEMMA UpdateMemberStatsStep ==
  ASSUME WarInv, NEW r \in Requests, UpdateMemberStats(r)
  PROVE  WarInv'
<1> DEFINE w == req[r].id
<1>1. Wins(r, "history", "concluded") /\ req' = Closes(r) /\ UNCHANGED <<alive, joined, made>>
  BY DEF UpdateMemberStats
<1>2. w \in Wars /\ war[w] \in WarRecord /\ war[w].status = "concluded"
  BY <1>1, WonWar
<1>3. PICK U \in SUBSET Team(req[r].seen) :
        Written(r, [war[w] EXCEPT !.scored = @ \cup (U \cap Team(war[w].roster))])
  BY DEF UpdateMemberStats
<1> DEFINE u == [war[w] EXCEPT !.scored = @ \cup (U \cap Team(war[w].roster))]
<1>4. /\ u \in WarRecord /\ u.version = war[w].version /\ u.status = "concluded"
      /\ u.held = war[w].held
  BY <1>2 DEF WarRecord, Team
<1>5. Written(r, u)
  BY <1>3
<1> HIDE DEF u
<1>6. QED BY <1>1, <1>4, <1>5, QuietWrite

LEMMA UpdateHistoryStep ==
  ASSUME WarInv, NEW r \in Requests, UpdateHistory(r)
  PROVE  WarInv'
<1> DEFINE w == req[r].id
<1>1. Wins(r, "history", "concluded") /\ req' = Closes(r) /\ UNCHANGED <<alive, joined, made>>
  BY DEF UpdateHistory
<1>2. w \in Wars /\ war[w] \in WarRecord /\ war[w].status = "concluded"
  BY <1>1, WonWar
<1>3. PICK held \in BOOLEAN :
        /\ held => \A v \in Wars : Held(v) => v = w
        /\ Written(r, [war[w] EXCEPT !.held = held])
  BY DEF UpdateHistory
<1> DEFINE u == [war[w] EXCEPT !.held = held]
<1>4. /\ u \in WarRecord /\ u.version = war[w].version /\ u.status = "concluded"
      /\ u.held = held
  BY <1>2 DEF WarRecord
<1>5. Written(r, u)
  BY <1>3
<1> HIDE DEF u
<1>6. QED BY <1>1, <1>3, <1>4, <1>5, QuietWrite

LEMMA DeleteHistoryStep ==
  ASSUME WarInv, NEW r \in Requests, DeleteHistory(r)
  PROVE  WarInv'
<1> DEFINE gone == [NoWar EXCEPT !.status = "gone"]
<1>1. /\ Wins(r, "history", "concluded") /\ req' = Closes(r)
      /\ UNCHANGED <<alive, joined, made>>
  BY DEF DeleteHistory
<1>2. PICK w \in Wars : w = req[r].id
  BY <1>1, WonWar
<1>3. gone \in WarRecord /\ gone.status = "gone"
  BY NothingYet DEF WarRecord
<1>4. war' = [war EXCEPT ![w] = gone] /\ war \in [Wars -> WarRecord]
  BY <1>2, Types DEF DeleteHistory, WarInv
<1> HIDE DEF gone
<1>5. Moved(w) /\ ~Held(w)'
  BY <1>3, <1>4 DEF Moved, Held
<1>6. /\ req' \in [Requests -> RequestRecord] /\ joined' \subseteq Members /\ made' \in Nat
      /\ \A q \in Requests : req'[q].pc = "write" => SameReading(q)
  BY <1>1, ReadingsKept DEF WarInv, TypeOK
<1>7. QED BY <1>1, <1>3, <1>4, <1>5, <1>6, OneWar

LEMMA RefusedStep ==
  ASSUME WarInv, NEW r \in Requests, Refused(r)
  PROVE  WarInv'
<1>1. /\ req' = [req EXCEPT ![r] = NoReq] /\ UNCHANGED <<alive, joined, war>>
      /\ made' \in Nat
  BY DEF Refused, Closes, WarInv, TypeOK
<1>2. NoReq \in RequestRecord /\ NoReq.pc # "write"
  BY NothingYet DEF NoReq
<1>3. QED BY <1>1, <1>2, OneRequest

------------------------------------------------------------------------------
\* WarInv is inductive.

LEMMA WarStart == Init => WarInv
<1> SUFFICES ASSUME Init PROVE WarInv
  OBVIOUS
<1>1. /\ \A w \in Wars : war[w] = NoWar /\ war[w].status = "none"
      /\ \A r \in Requests : req[r].pc = "idle"
  BY DEF Init, NoWar, NoReq
<1>2. TypeOK
  BY NothingYet, Types DEF Init
<1>3. OneHeld /\ RosterSignedUp /\ SeenSound
  BY <1>1 DEF OneHeld, RosterSignedUp, SeenSound, Held
<1>4. QED BY <1>2, <1>3 DEF WarInv

LEMMA WarStep == WarInv /\ [Next]_vars => WarInv'
<1> SUFFICES ASSUME WarInv, [Next]_vars PROVE WarInv'
  OBVIOUS
<1>1. CASE UNCHANGED vars
  <2>1. TypeOK' /\ OneHeld' /\ RosterSignedUp' /\ SeenSound'
    BY <1>1 DEF vars, WarInv, TypeOK, OneHeld, RosterSignedUp, SeenSound, Held, Sees, In
  <2>2. QED BY <2>1 DEF WarInv
<1>2. CASE \E m \in Members : Join(m)
  BY <1>2, JoinStep
<1>3. CASE \E U \in SUBSET Members : Leave(U)
  BY <1>3, LeaveStep
<1>4. CASE Destroy
  BY <1>4, DestroyStep
<1>5. CASE \E w \in Wars : CreateHistory(w)
  BY <1>5, CreateHistoryStep
<1>6. ASSUME NEW r \in Requests, Reads(r) PROVE WarInv'
  BY <1>6, ReadEventStep, ReadWarStep, CreateActiveStep, ReadHistoryStep DEF Reads
<1>7. ASSUME NEW r \in Requests, Writes(r) PROVE WarInv'
  BY <1>7, SaveStep, MoveStep, SetRoleTagsStep, ConcludeStep, UpdateMemberStatsStep,
     UpdateHistoryStep, DeleteHistoryStep, RefusedStep DEF Writes
<1>8. QED BY <1>1, <1>2, <1>3, <1>4, <1>5, <1>6, <1>7 DEF Next

LEMMA WarInvariant == Spec => []WarInv
BY WarStart, WarStep, PTL DEF Spec

\* The rows of wars and requests keep their types.
THEOREM WarTypes == Spec => []TypeOK
<1>1. WarInv => TypeOK
  BY DEF WarInv
<1>2. QED BY <1>1, WarInvariant, PTL

\* Whoever is on the roster of an active war takes part in its event.
THEOREM RosterTakesPart == Spec => []RosterSignedUp
<1>1. WarInv => RosterSignedUp
  BY DEF WarInv
<1>2. QED BY <1>1, WarInvariant, PTL

------------------------------------------------------------------------------
\* Only a request that saw the roster replaces it.

SeenBySaver(w) ==
  \/ war[w].status = "none" \/ war'[w].status = "gone"
  \/ war'[w].roster = war[w].roster /\ war'[w].status = war[w].status
  \/ \E r \in Requests : req[r].pc = "write" /\ req'[r].pc = "idle"
                         /\ req[r].id = w /\ req[r].seen = war[w].roster

\* A request that writes had seen the roster, and no other war changes.
LEMMA SaverHasSeen ==
  ASSUME WarInv, NEW r \in Requests, NEW kind, NEW status \in {"active", "concluded"},
         Wins(r, kind, status), NEW u, Written(r, u),
         req' = Closes(r) \/ req' = Outdated(Closes(r)), NEW w \in Wars
  PROVE  SeenBySaver(w)
<1>1. req[r].pc = "write" /\ req[r].seen = war[req[r].id].roster /\ req'[r].pc = "idle"
  BY WonWar, ReadingsKept
<1>2. w # req[r].id => war'[w] = war[w]
  BY Types DEF Written, WarInv
<1>3. QED BY <1>1, <1>2 DEF SeenBySaver

LEMMA WritesSeen ==
  ASSUME WarInv, NEW r \in Requests, Writes(r), NEW w \in Wars
  PROVE  SeenBySaver(w)
<1> DEFINE won(kind, status) == Wins(r, kind, status) /\ \E u : Written(r, u)
           closed == req' = Closes(r) \/ req' = Outdated(Closes(r))
<1>1. CASE Save(r)
  <2>1. won("save", "active") /\ closed
    BY <1>1 DEF Save
  <2>2. QED BY <2>1, SaverHasSeen
<1>2. CASE Move(r)
  <2>1. won("move", "active") /\ closed
    BY <1>2 DEF Move
  <2>2. QED BY <2>1, SaverHasSeen
<1>3. CASE SetRoleTags(r)
  <2>1. won("tag", "active") /\ closed
    BY <1>3 DEF SetRoleTags
  <2>2. QED BY <2>1, SaverHasSeen
<1>4. CASE Conclude(r)
  <2>1. won("conclude", "active") /\ closed
    BY <1>4 DEF Conclude
  <2>2. QED BY <2>1, SaverHasSeen
<1>5. CASE UpdateMemberStats(r) \/ UpdateHistory(r)
  <2>1. won("history", "concluded") /\ closed
    BY <1>5 DEF UpdateMemberStats, UpdateHistory
  <2>2. QED BY <2>1, SaverHasSeen
<1>6. CASE DeleteHistory(r)
  <2>1. war'[w] = war[w] \/ war'[w].status = "gone"
    BY <1>6, Types DEF DeleteHistory, WarInv, NoWar
  <2>2. QED BY <2>1 DEF SeenBySaver
<1>7. CASE Refused(r)
  BY <1>7 DEF Refused, SeenBySaver
<1>8. QED BY <1>1, <1>2, <1>3, <1>4, <1>5, <1>6, <1>7 DEF Writes

LEMMA StepSeen ==
  ASSUME WarInv, [Next]_vars, NEW w \in Wars
  PROVE  SeenBySaver(w)
<1>1. war \in [Wars -> WarRecord]
  BY Types DEF WarInv
<1>2. CASE \E r \in Requests : Writes(r)
  BY <1>2, WritesSeen
<1>3. ASSUME NEW r \in Requests, Reads(r) PROVE SeenBySaver(w)
  <2>1. CASE CreateActive(r)
    BY <1>1, <2>1 DEF CreateActive, SeenBySaver
  <2>2. CASE ~CreateActive(r)
    BY <1>3, <2>2 DEF Reads, ReadEvent, ReadWar, ReadHistory, SeenBySaver
  <2>3. QED BY <2>1, <2>2
<1>4. CASE UNCHANGED vars \/ (\E m \in Members : Join(m)) \/ \E U \in SUBSET Members : Leave(U)
  BY <1>4 DEF vars, Join, Leave, SeenBySaver
<1>5. CASE Destroy
  <2>1. war[w] \in WarRecord
    BY <1>1
  <2>2. war'[w] = IF ~Held(w) THEN war[w]
                  ELSE IF war[w].status = "active" THEN [NoWar EXCEPT !.status = "gone"]
                  ELSE [war[w] EXCEPT !.held = FALSE]
    BY <1>5 DEF Destroy
  <2>3. QED BY <2>1, <2>2 DEF SeenBySaver, WarRecord, NoWar
<1>6. CASE \E v \in Wars : CreateHistory(v)
  BY <1>1, <1>6 DEF CreateHistory, SeenBySaver
<1>7. QED BY <1>2, <1>3, <1>4, <1>5, <1>6 DEF Next

\* A roster is replaced, moved, tagged or closed only by a request that knew it.
THEOREM RosterWasSeen == Spec => SavedOnRosterSeen
<1>1. WarInv /\ [Next]_vars
        => [\A w \in Wars :
              \/ war[w].status = "none" \/ war'[w].status = "gone"
              \/ war'[w].roster = war[w].roster /\ war'[w].status = war[w].status
              \/ \E r \in Requests : req[r].pc = "write" /\ req'[r].pc = "idle"
                                     /\ req[r].id = w /\ req[r].seen = war[w].roster]_vars
  BY StepSeen DEF SeenBySaver
<1>2. QED BY <1>1, WarInvariant, PTL DEF Spec, SavedOnRosterSeen
=============================================================================
