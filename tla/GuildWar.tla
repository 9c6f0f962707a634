------------------------------- MODULE GuildWar -------------------------------
(***************************************************************************)
(* The guild wars of one event: GuildWarService over SqliteGuildWarStore,  *)
(* and SqliteEventGuildWarLifecycleStore, which writes the participants of *)
(* the event and the roster of its war in one batch.                       *)
(*                                                                         *)
(* A request reads the event, then its war (which it creates if there is   *)
(* none), and writes one batch under the roster_version it read; a move    *)
(* also under the updated_at of the event.  An update of the event that    *)
(* changes no participant is not shown: a request may hold an old row from *)
(* the start.  The teams of a war are one; a note, a result and who is     *)
(* deactivated are left out, and so is what is refused by an If-Match.     *)
(***************************************************************************)
EXTENDS Integers, FiniteSets

CONSTANTS
  Members,    \* users
  Wars,       \* ids of guild_wars, each used once
  Requests,   \* requests of staff at a time
  NoId,       \* no war
  MaxRequests \* bound: requests of staff explored

ASSUME GuildWarAssumption == NoId \notin Wars /\ MaxRequests \in Nat

VARIABLES
  alive,   \* the event exists
  joined,  \* its event_participants
  war,     \* guild_wars with their war_teams and war_members
  req,     \* open requests
  made     \* requests so far

vars == <<alive, joined, war, req, made>>

\* held: event_id is this event.  scored: whose stats are recorded.
NoRoster == [place |-> [m \in Members |-> "out"], tagged |-> {}]
NoWar == [status |-> "none", held |-> FALSE, version |-> 0, teams |-> FALSE,
          roster |-> NoRoster, scored |-> {}]
NoReq == [pc |-> "idle", kind |-> "none", current |-> FALSE, knows |-> {},
          id |-> NoId, version |-> 0, teams |-> FALSE, seen |-> NoRoster]

Init ==
  /\ alive = TRUE /\ joined \in SUBSET Members
  /\ war = [w \in Wars |-> NoWar]
  /\ req = [r \in Requests |-> NoReq]
  /\ made = 0

In(roster) == {m \in Members : roster.place[m] # "out"}
Team(roster) == {m \in Members : roster.place[m] = "team"}
Held(w) == war[w].held /\ war[w].status \in {"active", "concluded"}

Outdated(rs) == [r \in Requests |-> [rs[r] EXCEPT !.current = FALSE]]
Closes(r) == [req EXCEPT ![r] = NoReq]

------------------------------------------------------------------------------
\* The event.

\* Sign-ups and additions by staff.
Join(m) ==
  /\ alive /\ joined' = joined \cup {m} /\ joined' # joined
  /\ req' = Outdated(req)
  /\ UNCHANGED <<alive, war, made>>

Untriggered(m) == m \in joined  \* mutant: without active_war_participant_delete
MayLeave(m) ==
  /\ m \in joined
  /\ \A w \in Wars : war[w].status = "active" /\ war[w].held => m \notin In(war[w].roster)

\* leave, removeParticipants.
Leave(U) ==
  /\ alive /\ U # {} /\ \A m \in U : MayLeave(m)
  /\ joined' = joined \ U
  /\ req' = Outdated(req)
  /\ UNCHANGED <<alive, war, made>>

\* destroyEvent: an active war goes with its event, a concluded one stays.
Destroy ==
  /\ alive /\ alive' = FALSE
  /\ joined' = {}
  /\ war' = [w \in Wars |->
       IF ~Held(w) THEN war[w]
       ELSE IF war[w].status = "active" THEN [NoWar EXCEPT !.status = "gone"]
       ELSE [war[w] EXCEPT !.held = FALSE]]
  /\ UNCHANGED <<req, made>>

------------------------------------------------------------------------------
\* Reading.

\* getGuildWarTarget: the row, then the participants.
ReadEvent(r, kind) ==
  /\ req[r].pc = "idle" /\ alive /\ made < MaxRequests
  /\ made' = made + 1
  /\ \E current \in BOOLEAN :
       req' = [req EXCEPT ![r] = [NoReq EXCEPT !.pc = "war", !.kind = kind,
                                               !.current = current, !.knows = joined]]
  /\ UNCHANGED <<alive, joined, war>>

Read(q, w) ==
  [q EXCEPT !.pc = "write", !.id = w, !.version = war[w].version,
            !.teams = war[w].teams, !.seen = war[w].roster]

\* getByEvent.  A concluded war answers a conclusion and refuses the rest; after a
\* lost creation there must be a war.
ReadWar(r) ==
  /\ req[r].pc \in {"war", "raced"}
  /\ req' = [req EXCEPT ![r] =
       IF \E w \in Wars : Held(w)
       THEN LET w == CHOOSE w \in Wars : Held(w)
            IN IF war[w].status = "active" THEN Read(@, w) ELSE NoReq
       ELSE IF @.pc = "war" THEN [@ EXCEPT !.pc = "create"] ELSE NoReq]
  /\ UNCHANGED <<alive, joined, war, made>>

\* createActive: ON CONFLICT (event_id) DO NOTHING.
CreateActive(r) ==
  /\ req[r].pc = "create" /\ alive
  /\ IF \E w \in Wars : Held(w)
     THEN req' = [req EXCEPT ![r].pc = "raced"] /\ war' = war
     ELSE \E w \in Wars :
            /\ war[w].status = "none"
            /\ war' = [war EXCEPT ![w] = [NoWar EXCEPT !.status = "active", !.held = TRUE]]
            /\ req' = [req EXCEPT ![r] = [Read(@, w) EXCEPT !.version = 0, !.seen = NoRoster]]
  /\ UNCHANGED <<alive, joined, made>>

\* requireHistory.
ReadHistory(r, w, kind) ==
  /\ req[r].pc = "idle" /\ made < MaxRequests /\ war[w].status = "concluded"
  /\ made' = made + 1
  /\ req' = [req EXCEPT ![r] = Read([NoReq EXCEPT !.kind = kind], w)]
  /\ UNCHANGED <<alive, joined, war>>

------------------------------------------------------------------------------
\* Writing.

AnyVersion(q, status) == war[q.id].status = status  \* mutant: without roster_version = ?
Unchanged(q, status) == war[q.id].status = status /\ war[q.id].version = q.version

Wins(r, kind, status) ==
  req[r].pc = "write" /\ req[r].kind = kind /\ Unchanged(req[r], status)
Written(r, w) == war' = [war EXCEPT ![req[r].id] = [w EXCEPT !.version = @ + 1]]

\* replaceRoster: everybody in it must take part still.
Save(r) ==
  LET q == req[r] IN
  /\ Wins(r, "save", "active") /\ war[q.id].held
  /\ \E place \in [Members -> {"out", "pool", "team"}] :
     LET new == [place |-> place, tagged |-> {}] IN
     /\ In(new) \subseteq q.knows \cap joined
     /\ \E tagged \in SUBSET Team(new), teams \in BOOLEAN :
          /\ Team(new) # {} => teams
          /\ Written(r, [war[q.id] EXCEPT !.teams = teams, !.scored = {},
                                          !.roster = [new EXCEPT !.tagged = tagged]])
  /\ req' = Closes(r)
  /\ UNCHANGED <<alive, joined, made>>

\* moveMembers: to the pool come those who had not signed up too, whom it signs up;
\* who moves keeps the role tag.
Move(r) ==
  LET q == req[r] IN
  /\ Wins(r, "move", "active") /\ war[q.id].held /\ q.current /\ alive
  /\ \E P, T, R \in SUBSET Members :
       LET added == P \ q.knows
           old == war[q.id].roster
           place == [m \in Members |-> IF m \in P THEN "pool" ELSE IF m \in T THEN "team"
                                       ELSE IF m \in R THEN "out" ELSE old.place[m]]
       IN
       /\ P \cup T \cup R # {} /\ P \cap (T \cup R) = {} /\ T \cap R = {}
       /\ T \cup R \subseteq q.knows /\ (T # {} => q.teams)
       /\ P \cup T \cup R \subseteq joined \cup added
       /\ Written(r, [war[q.id] EXCEPT !.roster = [place |-> place, tagged |-> old.tagged \ R],
                                       !.scored = @ \ R])
       /\ joined' = (joined \cup added) \ R
  /\ req' = Outdated(Closes(r))
  /\ UNCHANGED <<alive, made>>

SetRoleTags(r) ==
  LET q == req[r] IN
  /\ Wins(r, "tag", "active")
  /\ \E U \in SUBSET Team(q.seen) : \E T \in SUBSET U :
       Written(r, [war[q.id] EXCEPT
         !.roster.tagged = (@ \ (U \cap Team(war[q.id].roster))) \cup (T \cap Team(war[q.id].roster))])
  /\ req' = Closes(r)
  /\ UNCHANGED <<alive, joined, made>>

Conclude(r) ==
  LET q == req[r] IN
  /\ Wins(r, "conclude", "active")
  /\ \E U \in SUBSET Team(q.seen) :
       Written(r, [war[q.id] EXCEPT !.status = "concluded",
                                    !.scored = @ \cup (U \cap Team(war[q.id].roster))])
  /\ req' = Closes(r)
  /\ UNCHANGED <<alive, joined, made>>

UpdateMemberStats(r) ==
  LET q == req[r] IN
  /\ Wins(r, "history", "concluded")
  /\ \E U \in SUBSET Team(q.seen) :
       Written(r, [war[q.id] EXCEPT !.scored = @ \cup (U \cap Team(war[q.id].roster))])
  /\ req' = Closes(r)
  /\ UNCHANGED <<alive, joined, made>>

\* updateHistory may give the war to the event, once, or take it away.
UpdateHistory(r) ==
  LET q == req[r] IN
  /\ Wins(r, "history", "concluded")
  /\ \E held \in BOOLEAN :
       /\ held => alive /\ \A w \in Wars : Held(w) => w = q.id
       /\ Written(r, [war[q.id] EXCEPT !.held = held])
  /\ req' = Closes(r)
  /\ UNCHANGED <<alive, joined, made>>

\* deleteHistory, deleteHistories.
DeleteHistory(r) ==
  /\ Wins(r, "history", "concluded")
  /\ war' = [war EXCEPT ![req[r].id] = [NoWar EXCEPT !.status = "gone"]]
  /\ req' = Closes(r)
  /\ UNCHANGED <<alive, joined, made>>

\* createHistory: a war that never had a roster.
CreateHistory(w) ==
  /\ war[w].status = "none" /\ made < MaxRequests /\ made' = made + 1
  /\ \E held \in BOOLEAN :
       /\ held => alive /\ \A v \in Wars : ~Held(v)
       /\ war' = [war EXCEPT ![w] = [NoWar EXCEPT !.status = "concluded", !.held = held]]
  /\ UNCHANGED <<alive, joined, req>>

\* CONFLICT, NOT_FOUND, a batch that failed.
Refused(r) ==
  /\ req[r].pc \in {"create", "write"}
  /\ req' = Closes(r)
  /\ UNCHANGED <<alive, joined, war, made>>

Reads(r) ==
  \/ \E kind \in {"save", "move", "tag", "conclude"} : ReadEvent(r, kind)
  \/ ReadWar(r) \/ CreateActive(r)
  \/ \E w \in Wars : ReadHistory(r, w, "history")
Writes(r) ==
  \/ Save(r) \/ Move(r) \/ SetRoleTags(r) \/ Conclude(r)
  \/ UpdateMemberStats(r) \/ UpdateHistory(r) \/ DeleteHistory(r) \/ Refused(r)

Next ==
  \/ \E m \in Members : Join(m)
  \/ \E U \in SUBSET Members : Leave(U)
  \/ Destroy
  \/ \E w \in Wars : CreateHistory(w)
  \/ \E r \in Requests : Reads(r) \/ Writes(r)

Spec == Init /\ [][Next]_vars

------------------------------------------------------------------------------
Places == [Members -> {"out", "pool", "team"}]
Rosters == [place : Places, tagged : SUBSET Members]
TypeOK ==
  /\ alive \in BOOLEAN /\ joined \subseteq Members /\ made \in Nat
  /\ war \in [Wars -> [status : {"none", "active", "concluded", "gone"}, held : BOOLEAN,
                       version : Nat, teams : BOOLEAN, roster : Rosters,
                       scored : SUBSET Members]]
  /\ req \in [Requests ->
       [pc : {"idle", "war", "raced", "create", "write"},
        kind : {"none", "save", "move", "tag", "conclude", "history"},
        current : BOOLEAN, knows : SUBSET Members, id : Wars \cup {NoId},
        version : Nat, teams : BOOLEAN, seen : Rosters]]

\* Whoever is on the roster of an active war takes part in its event, however
\* sign-ups, removals, moves and saves are mixed.
RosterSignedUp ==
  \A w \in Wars : war[w].status = "active" =>
    war[w].held /\ In(war[w].roster) \subseteq joined

\* A roster is replaced, moved, tagged or closed by a request that knew it as it
\* is by then: of two only the first gets through.
SavedOnRosterSeen ==
  [][\A w \in Wars :
       \/ war[w].status = "none" \/ war'[w].status = "gone"
       \/ war'[w].roster = war[w].roster /\ war'[w].status = war[w].status
       \/ \E r \in Requests : req[r].pc = "write" /\ req'[r].pc = "idle"
                              /\ req[r].id = w /\ req[r].seen = war[w].roster]_vars
=============================================================================
