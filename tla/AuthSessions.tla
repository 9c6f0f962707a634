----------------------------- MODULE AuthSessions -----------------------------
(***************************************************************************)
(* One member's credential and sessions: AuthService and the password      *)
(* reset of IdentityAdminService over SqliteAuthStore.                     *)
(*                                                                         *)
(* A request answers for one password: the one it was sent with.  It reads *)
(* the credential, spends a while hashing, and writes one batch under what *)
(* it read, auth_revision above all.  Passwords are numbered as they are   *)
(* set, so a new one is known to nobody else.  A session carries the       *)
(* revision it was opened under and counts only while the credential still *)
(* has it; knew is no column: it is the password its request was sent with. *)
(* Another login name is a new revision with the same password.  A request *)
(* is its own session token.  Registration, OAuth and e-mail are left out. *)
(***************************************************************************)
EXTENDS Integers, FiniteSets

CONSTANTS
  Requests,         \* the requests of a behaviour, each made once
  NoRequest,        \* none of them
  ResetLife,        \* TEMPORARY_PASSWORD_TTL_MS, PASSWORD_CHANGE_SESSION_TTL_MS
  SessionLife,      \* SESSION_TTL_MS
  AbsoluteLife,     \* SESSION_ABSOLUTE_TTL_MS
  MaximumSessions,  \* MAX_SESSIONS_PER_USER
  LastInstant,      \* bound of the clock
  MaxPassword,      \* bound: passwords set so far
  MaxRevision       \* bound: changes of the credential

ASSUME AuthAssumption ==
  /\ IsFiniteSet(Requests) /\ NoRequest \notin Requests
  /\ {ResetLife, SessionLife, AbsoluteLife, MaximumSessions} \subseteq Nat \ {0}
  /\ {LastInstant, MaxPassword, MaxRevision} \subseteq Nat

VARIABLES
  now,       \* the clock
  cred,      \* the row of user_credentials
  active,    \* users.is_active and not deleted
  sessions,  \* the member's rows of sessions
  admin,     \* auth_revision of the administrator, who may change it once
  req        \* the requests

vars == <<now, cred, active, sessions, admin, req>>

NoTemp == [expires |-> 0, used |-> FALSE, set |-> FALSE]
Temp(expires) == [expires |-> expires, used |-> FALSE, set |-> TRUE]
NoReq == [pc |-> "idle", kind |-> "none", at |-> 0, knows |-> 0, by |-> NoRequest,
          seen |-> 0, weak |-> FALSE, actor |-> 0]

\* weak: hashed with fewer iterations than this server asks for.  An account an
\* administrator has just created starts with a temporary password.
Init ==
  /\ now = 0
  /\ \/ cred \in [password : {1}, weak : BOOLEAN, revision : {1}, temp : {NoTemp}]
     \/ cred = [password |-> 1, weak |-> FALSE, revision |-> 1, temp |-> Temp(ResetLife)]
  /\ active = TRUE /\ sessions = {} /\ admin = 0
  /\ req = [q \in Requests |-> NoReq]

------------------------------------------------------------------------------
\* Sessions.

\* A mutant: a login keeps the token its browser came with.
SameToken(q, scope, life, revision, knew) ==
  [token |-> req[q].by, scope |-> scope, revision |-> revision, knew |-> knew,
   created |-> req[q].at, expires |-> req[q].at + life]
Opened(q, scope, life, revision, knew) ==
  [token |-> q, scope |-> scope, revision |-> revision, knew |-> knew,
   created |-> req[q].at, expires |-> req[q].at + life]
Live(S, at) == {s \in S : s.expires > at}
\* DELETE .. ORDER BY created_at DESC, token_digest DESC LIMIT -1 OFFSET n:
\* a digest is random, so it breaks a tie either way.
Trimmed(S, n) ==
  {K \in SUBSET S :
     /\ Cardinality(K) <= n
     /\ \A d \in S \ K : /\ Cardinality(K) = n
                         /\ \A k \in K : k.created >= d.created}

Authorizes(s) ==
  /\ s.revision = cred.revision /\ active
  /\ s.expires > now /\ now - s.created <= AbsoluteLife
Renewed(s) ==
  IF s.scope = "normal" /\ 2 * (s.expires - now) < SessionLife
  THEN [s EXCEPT !.expires = now + SessionLife] ELSE s

\* resolveAuthorization of a request made now.  A session of another revision
\* is not found; one that is found and no good is deleted.
Resolve(s) ==
  /\ s.revision = cred.revision
  /\ sessions' = (sessions \ {s}) \cup (IF Authorizes(s) THEN {Renewed(s)} ELSE {})
  /\ UNCHANGED <<now, cred, active, admin, req>>

Logout(s) ==
  /\ sessions' = sessions \ {s}
  /\ UNCHANGED <<now, cred, active, admin, req>>

\* The scheduled cleanup of sessions.
CleanUp ==
  /\ sessions' = {s \in sessions : s.expires > now /\ now - s.created < AbsoluteLife}
  /\ UNCHANGED <<now, cred, active, admin, req>>

------------------------------------------------------------------------------
\* Requests.

Ask(q, r) == req[q].pc = "idle" /\ req' = [req EXCEPT ![q] = r]
Goes(q, pc) == req' = [req EXCEPT ![q].pc = pc]
\* A write that did not find what its request had read.
Refused(q, pc) ==
  /\ req[q].pc = pc /\ Goes(q, "refused")
  /\ UNCHANGED <<now, cred, active, sessions, admin>>

Usable(at) == cred.temp.set /\ ~cred.temp.used /\ cred.temp.expires > at

\* login: the account is read and the password is right.
AskLogin(q) ==
  /\ active /\ (cred.temp.set => Usable(now))
  /\ Ask(q, [NoReq EXCEPT !.pc = IF cred.temp.set THEN "consume"
                                 ELSE IF cred.weak THEN "rehash" ELSE "open",
                          !.kind = "login", !.at = now, !.knows = cred.password,
                          !.seen = cred.revision, !.weak = cred.weak])
  /\ UNCHANGED <<now, cred, active, sessions, admin>>

SameHash(q) ==
  cred.password = req[q].knows /\ cred.weak = req[q].weak /\ cred.revision = req[q].seen

Rehash(q) ==
  /\ req[q].pc = "rehash" /\ SameHash(q)
  /\ cred' = [cred EXCEPT !.weak = FALSE]
  /\ Goes(q, "open")
  /\ UNCHANGED <<now, active, sessions, admin>>

\* A mutant: INSERT .. SELECT auth_revision without AND auth_revision = ?.
AnyRevision(q) == TRUE
MayOpen(q) == cred.revision = req[q].seen
\* A mutant: expired sessions go, the oldest do not.
Everything(q, S) == {S}
Others(q, S) == Trimmed(S, MaximumSessions - 1)

\* openUserSession: the new session is among those it trims.
OpenSession(q) ==
  /\ req[q].pc = "open" /\ MayOpen(q)
  /\ LET s == Opened(q, "normal", SessionLife, cred.revision, req[q].knows)
     IN  sessions' \in Others(q, Live(sessions \cup {s}, req[q].at))
  /\ Goes(q, "in")
  /\ UNCHANGED <<now, cred, active, admin>>

\* A mutant: temporary_password_used_at is only looked at when the login starts.
UsedOrNot(q) == SameHash(q) /\ cred.temp.set /\ cred.temp.expires > req[q].at
MayConsume(q) == SameHash(q) /\ Usable(req[q].at)

\* consumeTemporaryPasswordAndOpenSession spares the session it opens.
Consume(q) ==
  /\ req[q].pc = "consume" /\ MayConsume(q)
  /\ cred' = [cred EXCEPT !.temp.used = TRUE]
  /\ LET s == Opened(q, "password_change", ResetLife, cred.revision, req[q].knows)
     IN  \E K \in Others(q, Live(sessions, req[q].at)) : sessions' = K \cup {s}
  /\ Goes(q, "in once")
  /\ UNCHANGED <<now, active, admin>>

\* A request of a member: its session is resolved first.  portal-api lets a
\* restricted session do nothing but complete the reset.
AskChange(q, s, kind) ==
  /\ Authorizes(s)
  /\ s.scope = (IF kind = "complete" THEN "password_change" ELSE "normal")
  /\ sessions' = (sessions \ {s}) \cup {Renewed(s)}
  /\ Ask(q, [NoReq EXCEPT !.pc = "read", !.kind = kind, !.at = now,
                          !.knows = cred.password, !.by = s.token])
  /\ UNCHANGED <<now, cred, active, admin>>

\* findCredentialRecord; all but a completion verify the current password.
ReadCredential(q) ==
  /\ req[q].pc = "read"
  /\ req[q].kind # "complete" => cred.password = req[q].knows
  /\ req' = [req EXCEPT ![q].pc = "change", ![q].seen = cred.revision]
  /\ UNCHANGED <<now, cred, active, sessions, admin>>

WrongPassword(q) ==
  /\ req[q].kind # "complete" /\ cred.password # req[q].knows
  /\ Refused(q, "read")

\* The columns a new password changes.
NewPassword(temp) ==
  [password |-> cred.password + 1, weak |-> FALSE,
   revision |-> cred.revision + 1, temp |-> temp]

MayChange(q) == cred.revision = req[q].seen

\* changeOwnPassword, changeOwnLoginName.
Change(q) ==
  /\ req[q].pc = "change" /\ req[q].kind \in {"password", "login name"} /\ MayChange(q)
  /\ cred.revision < MaxRevision /\ cred.password < MaxPassword
  /\ cred' = IF req[q].kind = "password" THEN NewPassword(cred.temp)
             ELSE [cred EXCEPT !.revision = @ + 1]
  /\ sessions' = {}
  /\ Goes(q, "out")
  /\ UNCHANGED <<now, active, admin>>

\* A mutant: EXISTS (SELECT 1 FROM sessions ..) is left to resolveAuthorization.
OnceHadSession(q) == TRUE
HasSession(q) ==
  \E s \in sessions : /\ s.token = req[q].by /\ s.scope = "password_change"
                      /\ s.revision = req[q].seen /\ s.expires > req[q].at
MayComplete(q) ==
  /\ cred.temp.set /\ cred.temp.used /\ cred.temp.expires > req[q].at
  /\ MayChange(q) /\ HasSession(q)

\* completeTemporaryPasswordAndOpenSession.
Complete(q) ==
  /\ req[q].pc = "change" /\ req[q].kind = "complete" /\ MayComplete(q)
  /\ cred.revision < MaxRevision /\ cred.password < MaxPassword
  /\ cred' = NewPassword(NoTemp)
  /\ sessions' = {Opened(q, "normal", SessionLife, cred'.revision, cred'.password)}
  /\ Goes(q, "in")
  /\ UNCHANGED <<now, active, admin>>

\* resetPassword: the administrator's own password is right ...
AskReset(q) ==
  /\ Ask(q, [NoReq EXCEPT !.pc = "target", !.kind = "reset", !.at = now, !.actor = admin])
  /\ UNCHANGED <<now, cred, active, sessions, admin>>

\* ... then the target is read.
ReadTarget(q) ==
  /\ req[q].pc = "target"
  /\ req' = [req EXCEPT ![q].pc = "reset", ![q].seen = cred.revision]
  /\ UNCHANGED <<now, cred, active, sessions, admin>>

MayReset(q) == cred.revision = req[q].seen /\ admin = req[q].actor

\* setTemporaryPassword.
Reset(q) ==
  /\ req[q].pc = "reset" /\ MayReset(q)
  /\ cred.revision < MaxRevision /\ cred.password < MaxPassword
  /\ cred' = NewPassword(Temp(req[q].at + ResetLife))
  /\ sessions' = {}
  /\ Goes(q, "out")
  /\ UNCHANGED <<now, active, admin>>

------------------------------------------------------------------------------
Tick ==
  /\ now < LastInstant
  /\ now' = now + 1
  /\ UNCHANGED <<cred, active, sessions, admin, req>>

\* The administrator's own credential changes under a reset.
AdminChanges ==
  /\ admin = 0 /\ admin' = 1
  /\ UNCHANGED <<now, cred, active, sessions, req>>

\* setUsersActive, softDeleteUsers: no new revision, but the sessions go.
SetActive(to) ==
  /\ active # to /\ active' = to
  /\ sessions' = IF to THEN sessions ELSE {}
  /\ UNCHANGED <<now, cred, admin, req>>

Asks(q) ==
  \/ AskLogin(q) \/ AskReset(q)
  \/ \E s \in sessions, kind \in {"password", "login name", "complete"} : AskChange(q, s, kind)
Runs(q) ==
  \/ Rehash(q) \/ OpenSession(q) \/ Consume(q)
  \/ ReadCredential(q) \/ WrongPassword(q) \/ Change(q) \/ Complete(q)
  \/ ReadTarget(q) \/ Reset(q)
Fails(q) ==
  \/ ~SameHash(q) /\ Refused(q, "rehash")
  \/ ~MayOpen(q) /\ Refused(q, "open")
  \/ ~MayConsume(q) /\ Refused(q, "consume")
  \/ req[q].kind # "complete" /\ ~MayChange(q) /\ Refused(q, "change")
  \/ req[q].kind = "complete" /\ ~MayComplete(q) /\ Refused(q, "change")
  \/ ~MayReset(q) /\ Refused(q, "reset")

Next ==
  \/ \E q \in Requests : Asks(q) \/ Runs(q) \/ Fails(q)
  \/ \E s \in sessions : Resolve(s) \/ Logout(s)
  \/ CleanUp \/ Tick \/ AdminChanges \/ \E to \in BOOLEAN : SetActive(to)

Spec == Init /\ [][Next]_vars

------------------------------------------------------------------------------
Sessions ==
  [token : Requests, scope : {"normal", "password_change"}, revision : Nat, knew : Nat,
   created : Nat, expires : Nat]
TypeOK ==
  /\ now \in Nat /\ active \in BOOLEAN /\ admin \in {0, 1}
  /\ cred \in [password : Nat, weak : BOOLEAN, revision : Nat,
               temp : [expires : Nat, used : BOOLEAN, set : BOOLEAN]]
  /\ sessions \in SUBSET Sessions
  /\ req \in [Requests ->
       [pc : {"idle", "rehash", "open", "consume", "read", "change", "target", "reset",
              "in", "in once", "out", "refused"},
        kind : {"none", "login", "password", "login name", "complete", "reset"},
        at : Nat, knows : Nat, by : Requests \cup {NoRequest}, seen : Nat,
        weak : BOOLEAN, actor : {0, 1}]]
  /\ \A s, t \in sessions : s.token = t.token => s = t

\* Whoever is in knows the password in force: a session that counts was opened
\* with it, however late, and while it is a temporary one lets its holder do
\* nothing but choose another.
OnlyHoldersAreIn ==
  \A s \in sessions : s.revision = cred.revision =>
    /\ s.knew = cred.password
    /\ s.scope = "password_change" <=> cred.temp.set

\* A temporary password lets one login in, and only one, whatever is sent at once.
OneUse ==
  \A p, q \in Requests :
    req[p].pc = "in once" /\ req[q].pc = "in once" /\ req[p].knows = req[q].knows => p = q

\* Logging in again and again leaves no more sessions than the limit.
SessionsBounded == Cardinality(sessions) <= MaximumSessions

\* A credential is changed by a request that knows the password it replaces, or
\* by an administrator whose own credential is still the one that was checked.
ChangedByItsHolder ==
  [][cred'.revision # cred.revision =>
       \E q \in Requests :
         /\ req'[q].pc # req[q].pc
         /\ IF req[q].kind = "reset" THEN req[q].actor = admin
            ELSE req[q].knows = cred.password]_vars
=============================================================================
