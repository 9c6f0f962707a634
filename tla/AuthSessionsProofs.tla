------------------------- MODULE AuthSessionsProofs -------------------------
(***************************************************************************)
(* Theorems about AuthSessions, for any number of requests, any lifetimes  *)
(* and any limit on sessions.                                              *)
(***************************************************************************)
EXTENDS AuthSessions, FiniteSetTheorems, TLAPS

------------------------------------------------------------------------------
\* The inductive invariant.

Credential ==
  [password : Nat, weak : BOOLEAN, revision : Nat,
   temp : [expires : Nat, used : BOOLEAN, set : BOOLEAN]]
RequestRecord ==
  [pc : {"idle", "rehash", "open", "consume", "read", "change", "target", "reset",
         "in", "in once", "out", "refused"},
   kind : {"none", "login", "password", "login name", "complete", "reset"},
   at : Nat, knows : Nat, by : Requests \cup {NoRequest}, seen : Nat,
   weak : BOOLEAN, actor : {0, 1}]

Done(q) == req[q].pc \in {"in", "in once"}

\* Every session is of the revision in force, and belongs to a request that is in.
Standing(s) ==
  /\ s.revision = cred.revision /\ s.knew = cred.password
  /\ s.scope = "password_change" <=> cred.temp.set
  /\ Done(s.token)

\* What a request knows, as long as the credential is the one it read.
Knows(q) ==
  /\ req[q].knows <= cred.password /\ req[q].seen <= cred.revision
  /\ req[q].pc \in {"rehash", "open", "consume"} /\ req[q].seen = cred.revision
       => req[q].knows = cred.password
  /\ req[q].pc = "change" /\ req[q].kind # "complete" /\ req[q].seen = cred.revision
       => req[q].knows = cred.password
  /\ req[q].pc \in {"target", "reset"} => req[q].kind = "reset"

\* A login without a temporary password finds none as long as the credential is the
\* one it read; one with it has used it up.
KnowsTemp(q) ==
  /\ req[q].pc \in {"rehash", "open"} /\ req[q].seen = cred.revision => ~cred.temp.set
  /\ req[q].pc = "in once" /\ req[q].knows = cred.password => cred.temp.used

\* A request of a member was let in by the session it names; while that lasts the
\* password is the one of then.
LetIn(q) ==
  req[q].pc \in {"read", "change"} =>
    /\ req[q].by \in Requests /\ Done(req[q].by) /\ req[q].kind # "reset"
    /\ \A s \in sessions : s.token = req[q].by => req[q].knows = cred.password

AuthInv ==
  /\ TypeOK
  /\ IsFiniteSet(sessions) /\ SessionsBounded
  /\ \A s \in sessions : Standing(s)
  /\ \A q \in Requests : Knows(q) /\ KnowsTemp(q) /\ LetIn(q)
  /\ OneUse

Distinct(S) == \A s, t \in S : s.token = t.token => s = t

LEMMA Types ==
  TypeOK <=> /\ now \in Nat /\ active \in BOOLEAN /\ admin \in {0, 1}
             /\ cred \in Credential /\ sessions \subseteq Sessions
             /\ req \in [Requests -> RequestRecord] /\ Distinct(sessions)
BY DEF TypeOK, Credential, RequestRecord, Distinct

\* The credential stays, but for a temporary password that is used up, or has a
\* later revision and at least the same password.
CredentialMoves ==
  \/ /\ cred'.revision = cred.revision /\ cred'.password = cred.password
     /\ cred'.temp.set = cred.temp.set /\ (cred.temp.used => cred'.temp.used)
  \/ /\ cred.revision < cred'.revision
     /\ \/ cred.password < cred'.password
        \/ cred.password = cred'.password /\ cred'.temp = cred.temp

\* A session is new to a request that is not in yet, or is left from before.
SessionsMove ==
  \A s \in sessions' :
    \/ ~Done(s.token)
    \/ cred'.password = cred.password /\ \E t \in sessions : t.token = s.token

DoneStays == \A q \in Requests : Done(q) => req'[q].pc = req[q].pc

LEMMA StillKnows ==
  ASSUME AuthInv, TypeOK', CredentialMoves, SessionsMove, DoneStays,
         NEW q \in Requests, req'[q] = req[q]
  PROVE  Knows(q)' /\ KnowsTemp(q)' /\ LetIn(q)'
<1>1. /\ cred \in Credential /\ cred' \in Credential /\ req[q] \in RequestRecord
      /\ Knows(q) /\ KnowsTemp(q) /\ LetIn(q)
  BY Types DEF AuthInv, TypeOK, Credential
<1>2. /\ cred.revision \in Nat /\ cred'.revision \in Nat /\ cred.password \in Nat
      /\ cred'.password \in Nat /\ req[q].knows \in Nat /\ req[q].seen \in Nat
  BY <1>1 DEF Credential, RequestRecord
<1>3. \/ cred.revision = cred'.revision /\ cred.password = cred'.password
      \/ cred.revision < cred'.revision /\ cred.password <= cred'.password
  BY <1>2 DEF CredentialMoves
<1>4. Knows(q)'
  BY <1>1, <1>2, <1>3 DEF Knows
<1>5. req[q].seen = cred'.revision => cred.revision = cred'.revision
  BY <1>1, <1>2, <1>3 DEF Knows
<1>6. req[q].knows = cred'.password => cred.password = cred'.password
  BY <1>1, <1>2, <1>3 DEF Knows
<1>7. cred.revision = cred'.revision => ~(cred.revision < cred'.revision)
  BY <1>2
<1>8. cred.password = cred'.password => ~(cred.password < cred'.password)
  BY <1>2
<1>9. KnowsTemp(q)'
  BY <1>1, <1>5, <1>6, <1>7, <1>8, Zenon DEF KnowsTemp, CredentialMoves
<1>10. LetIn(q)'
  BY <1>1 DEF LetIn, SessionsMove, DoneStays, Done
<1>11. QED BY <1>4, <1>9, <1>10

\* The sessions left after one of them was renewed, or some were deleted.
Fewer(S) ==
  /\ S \subseteq Sessions /\ Distinct(S) /\ IsFiniteSet(S)
  /\ Cardinality(S) <= MaximumSessions
  /\ \A s \in S : Standing(s) /\ \E t \in sessions : t.token = s.token

\* A step that changes neither the credential nor the requests.
LEMMA SessionStep ==
  ASSUME AuthInv, Fewer(sessions'), UNCHANGED <<cred, req>>, now' \in Nat,
         active' \in BOOLEAN, admin' \in {0, 1}
  PROVE  AuthInv'
<1>1. TypeOK'
  BY Types DEF AuthInv, TypeOK, Fewer, Distinct
<1>2. CredentialMoves /\ SessionsMove /\ DoneStays
  BY DEF CredentialMoves, SessionsMove, DoneStays, Fewer
<1>3. \A q \in Requests : Knows(q)' /\ KnowsTemp(q)' /\ LetIn(q)'
  BY <1>1, <1>2, StillKnows
<1>4. (\A s \in sessions : Standing(s))' /\ OneUse' /\ SessionsBounded' /\ IsFiniteSet(sessions')
  BY DEF AuthInv, Fewer, Standing, Done, OneUse, SessionsBounded
<1>5. QED BY <1>1, <1>3, <1>4 DEF AuthInv

LEMMA FewerSubset ==
  ASSUME AuthInv, NEW S \in SUBSET sessions
  PROVE  Fewer(S)
<1>1. IsFiniteSet(S) /\ Cardinality(S) <= Cardinality(sessions)
  BY FS_Subset DEF AuthInv
<1>2. Cardinality(S) \in Nat /\ Cardinality(sessions) \in Nat /\ MaximumSessions \in Nat
  BY <1>1, FS_CardinalityType, AuthAssumption DEF AuthInv
<1>3. Cardinality(S) <= MaximumSessions
  BY <1>1, <1>2 DEF AuthInv, SessionsBounded
<1>4. QED BY <1>1, <1>3, Types DEF AuthInv, Fewer, Distinct

LEMMA RenewedType ==
  ASSUME AuthInv, NEW s \in sessions
  PROVE  /\ Renewed(s) \in Sessions /\ Renewed(s).token = s.token
         /\ Standing(s) => Standing(Renewed(s))
<1>1. s \in Sessions /\ now + SessionLife \in Nat
  BY Types, AuthAssumption DEF AuthInv
<1>2. QED BY <1>1 DEF Renewed, Sessions, Standing, Done

LEMMA FewerRenewed ==
  ASSUME AuthInv, NEW s \in sessions
  PROVE  Fewer((sessions \ {s}) \cup {Renewed(s)})
<1> DEFINE rest == sessions \ {s}
           S == rest \cup {Renewed(s)}
<1>1. sessions \subseteq Sessions /\ Distinct(sessions) /\ \A t \in sessions : Standing(t)
  BY Types DEF AuthInv
<1>2. /\ Renewed(s) \in Sessions /\ Renewed(s).token = s.token /\ Standing(Renewed(s))
  BY <1>1, RenewedType
<1>3. /\ IsFiniteSet(rest) /\ Cardinality(rest) = Cardinality(sessions) - 1
      /\ Cardinality(sessions) \in Nat
  BY FS_RemoveElement, FS_CardinalityType DEF AuthInv
<1>4. IsFiniteSet(S) /\ Cardinality(S) \in {Cardinality(rest), Cardinality(rest) + 1}
  BY <1>3, FS_AddElement
<1>5. Cardinality(S) <= MaximumSessions
  BY <1>3, <1>4, AuthAssumption DEF AuthInv, SessionsBounded
<1>6. Distinct(S)
  BY <1>1, <1>2 DEF Distinct
<1>7. \A t \in S : t \in Sessions /\ Standing(t) /\ \E u \in sessions : u.token = t.token
  BY <1>1, <1>2
<1>8. QED BY <1>4, <1>5, <1>6, <1>7 DEF Fewer

LEMMA OnlySessions ==
  ASSUME AuthInv,
         (\E s \in sessions : Resolve(s) \/ Logout(s)) \/ CleanUp \/ Tick \/ AdminChanges
         \/ \E to \in BOOLEAN : SetActive(to)
  PROVE  AuthInv'
<1>1. now \in Nat /\ active \in BOOLEAN /\ admin \in {0, 1}
  BY DEF AuthInv, TypeOK
<1>2. ASSUME NEW s \in sessions, Resolve(s) PROVE AuthInv'
  <2>1. Fewer(sessions')
    <3>1. CASE Authorizes(s)
      BY <1>2, <3>1, FewerRenewed DEF Resolve
    <3>2. CASE ~Authorizes(s)
      BY <1>2, <3>2, FewerSubset DEF Resolve
    <3>3. QED BY <3>1, <3>2
  <2>2. QED BY <1>1, <1>2, <2>1, SessionStep DEF Resolve
<1>3. ASSUME NEW s \in sessions, Logout(s) PROVE AuthInv'
  BY <1>1, <1>3, FewerSubset, SessionStep DEF Logout
<1>4. CASE CleanUp
  BY <1>1, <1>4, FewerSubset, SessionStep DEF CleanUp
<1>5. CASE Tick \/ AdminChanges
  BY <1>1, <1>5, FewerSubset, SessionStep DEF Tick, AdminChanges
<1>6. ASSUME NEW to \in BOOLEAN, SetActive(to) PROVE AuthInv'
  BY <1>1, <1>6, FewerSubset, SessionStep DEF SetActive
<1>7. QED BY <1>2, <1>3, <1>4, <1>5, <1>6

------------------------------------------------------------------------------
\* The steps of a request.

\* What holds of the request that moves.
Informed(q) == Knows(q) /\ KnowsTemp(q) /\ LetIn(q)

LEMMA RequestStep ==
  ASSUME AuthInv, NEW q \in Requests, NEW r \in RequestRecord, req' = [req EXCEPT ![q] = r],
         ~Done(q), cred' \in Credential, CredentialMoves, SessionsMove,
         sessions' \subseteq Sessions, Distinct(sessions'), IsFiniteSet(sessions'),
         Cardinality(sessions') <= MaximumSessions, \A s \in sessions' : Standing(s)',
         UNCHANGED <<now, active, admin>>, Informed(q)',
         r.pc = "in once" => r.knows = cred.password /\ ~cred.temp.used
  PROVE  AuthInv'
<1>1. req \in [Requests -> RequestRecord]
  BY Types DEF AuthInv
<1>2. /\ req' \in [Requests -> RequestRecord] /\ req'[q] = r
      /\ \A p \in Requests \ {q} : req'[p] = req[p]
  BY <1>1
<1>3. TypeOK'
  BY <1>2, Types DEF AuthInv, TypeOK, Distinct, Credential, RequestRecord
<1>4. DoneStays
  BY <1>2 DEF DoneStays
<1>5. \A p \in Requests \ {q} : Knows(p)' /\ KnowsTemp(p)' /\ LetIn(p)'
  BY <1>2, <1>3, <1>4, StillKnows
<1>6. Knows(q)' /\ KnowsTemp(q)' /\ LetIn(q)'
  BY DEF Informed
<1>7. OneUse'
  <2> SUFFICES ASSUME NEW p \in Requests, p # q, req'[p].pc = "in once",
                      req'[q].pc = "in once", req'[p].knows = req'[q].knows
               PROVE  FALSE
    BY <1>2 DEF AuthInv, OneUse
  <2>1. KnowsTemp(p) /\ req[p].pc = "in once" /\ req[p].knows = cred.password /\ ~cred.temp.used
    BY <1>2 DEF AuthInv
  <2>2. QED BY <2>1 DEF KnowsTemp
<1>8. SessionsBounded' /\ IsFiniteSet(sessions') /\ \A s \in sessions' : Standing(s)'
  BY DEF SessionsBounded
<1>9. QED BY <1>3, <1>5, <1>6, <1>7, <1>8 DEF AuthInv

CredentialKept ==
  /\ cred'.revision = cred.revision /\ cred'.password = cred.password
  /\ cred'.temp = cred.temp

\* A request that opens no session and replaces no password.
LEMMA AskStep ==
  ASSUME AuthInv, NEW q \in Requests, NEW r \in RequestRecord, req' = [req EXCEPT ![q] = r],
         ~Done(q), cred' \in Credential, CredentialKept, Fewer(sessions'),
         UNCHANGED <<now, active, admin>>, Informed(q)', r.pc # "in once"
  PROVE  AuthInv'
<1>1. CredentialMoves /\ SessionsMove
  BY DEF CredentialMoves, SessionsMove, CredentialKept, Fewer
<1>2. req \in [Requests -> RequestRecord]
  BY Types DEF AuthInv
<1>3. \A s \in sessions' : Standing(s)'
  <2> SUFFICES ASSUME NEW s \in sessions' PROVE Standing(s)'
    OBVIOUS
  <2>1. Standing(s) /\ s.token # q
    BY DEF Fewer, Standing
  <2>2. s.token \in Requests /\ Done(s.token)
    BY <2>1 DEF Fewer, Sessions, Standing
  <2>3. Done(s.token)'
    BY <1>2, <2>1, <2>2 DEF Done
  <2>4. QED BY <2>1, <2>3 DEF Standing, CredentialKept
<1>4. QED BY <1>1, <1>3, RequestStep DEF Fewer

LEMMA Request == ASSUME AuthInv, NEW q \in Requests
  PROVE /\ req[q] \in RequestRecord /\ cred \in Credential /\ Informed(q)
        /\ sessions \subseteq Sessions /\ Fewer(sessions)
        /\ req \in [Requests -> RequestRecord]
        /\ now \in Nat /\ admin \in {0, 1}
BY Types, FewerSubset DEF AuthInv, Informed

LEMMA NoReqType == NoReq \in RequestRecord
BY DEF NoReq, RequestRecord

LEMMA AskLoginStep ==
  ASSUME AuthInv, NEW q \in Requests, AskLogin(q)
  PROVE  AuthInv'
<1> DEFINE pc == IF cred.temp.set THEN "consume" ELSE IF cred.weak THEN "rehash" ELSE "open"
           r == [NoReq EXCEPT !.pc = pc, !.kind = "login", !.at = now,
                              !.knows = cred.password, !.seen = cred.revision,
                              !.weak = cred.weak]
<1>1. req' = [req EXCEPT ![q] = r] /\ UNCHANGED <<now, cred, active, sessions, admin>> /\ ~Done(q)
  BY DEF AskLogin, Ask, Done
<1>2. /\ cred.password \in Nat /\ cred.revision \in Nat /\ cred.weak \in BOOLEAN /\ now \in Nat
  BY Request DEF Credential
<1>3. pc \in {"rehash", "open", "consume"} /\ (pc # "consume" => ~cred.temp.set)
  BY Zenon
<1> HIDE DEF pc
<1>4. /\ r \in RequestRecord /\ r.pc = pc /\ r.knows = cred.password /\ r.seen = cred.revision
  BY <1>2, <1>3, NoReqType DEF RequestRecord
<1> HIDE DEF r
<1>5. req'[q] = r
  BY <1>1, Request
<1>6. Knows(q)'
  BY <1>1, <1>2, <1>3, <1>4, <1>5 DEF Knows
<1>7. KnowsTemp(q)' /\ LetIn(q)' /\ r.pc # "in once"
  BY <1>1, <1>3, <1>4, <1>5 DEF KnowsTemp, LetIn
<1>8. CredentialKept /\ cred' \in Credential /\ Fewer(sessions')
  <2>1. cred \in Credential /\ Fewer(sessions)
    BY Request
  <2>2. QED BY <1>1, <2>1 DEF CredentialKept, Fewer
<1>9. QED BY <1>1, <1>4, <1>6, <1>7, <1>8, AskStep DEF Informed

LEMMA CountsUp == ASSUME AuthInv
  PROVE cred.password <= cred.password /\ 0 <= cred.revision
<1>1. cred.password \in Nat /\ cred.revision \in Nat
  BY Types DEF AuthInv, Credential
<1>2. QED BY <1>1

LEMMA AskChangeStep ==
  ASSUME AuthInv, NEW q \in Requests, NEW s \in sessions,
         NEW kind \in {"password", "login name", "complete"}, AskChange(q, s, kind)
  PROVE  AuthInv'
<1> DEFINE r == [NoReq EXCEPT !.pc = "read", !.kind = kind, !.at = now,
                              !.knows = cred.password, !.by = s.token]
<1>1. /\ req' = [req EXCEPT ![q] = r] /\ UNCHANGED <<now, cred, active, admin>> /\ ~Done(q)
      /\ sessions' = (sessions \ {s}) \cup {Renewed(s)}
  BY DEF AskChange, Ask, Done
<1>2. /\ cred.password \in Nat /\ cred.revision \in Nat /\ now \in Nat /\ cred \in Credential
      /\ s.token \in Requests
  BY Request DEF Credential, Sessions
<1>3. /\ r \in RequestRecord /\ r.pc = "read" /\ r.knows = cred.password /\ r.seen = 0
      /\ r.by = s.token /\ r.kind = kind
  BY <1>2, NoReqType DEF RequestRecord, NoReq
<1> HIDE DEF r
<1>4. req'[q] = r /\ \A p \in Requests \ {q} : req'[p] = req[p]
  BY <1>1, Request
<1>5. Knows(q)'
  <2>1. cred.password <= cred.password /\ 0 <= cred.revision
    BY CountsUp
  <2>2. cred' = cred
    BY <1>1
  <2>3. /\ req'[q].pc = "read" /\ req'[q].knows = cred.password /\ req'[q].seen = 0
    BY <1>3, <1>4
  <2>4. QED BY <2>1, <2>2, <2>3 DEF Knows
<1>6. LetIn(q)'
  <2>1. Done(s.token) /\ s.token # q
    BY <1>1 DEF AuthInv, Standing
  <2>2. Done(s.token)'
    BY <1>2, <1>4, <2>1 DEF Done
  <2>3. /\ cred' = cred /\ req'[q].by = s.token /\ req'[q].knows = cred.password
        /\ req'[q].kind # "reset"
    BY <1>1, <1>3, <1>4
  <2>4. QED BY <1>2, <2>2, <2>3 DEF LetIn, Done
<1>7. KnowsTemp(q)' /\ r.pc # "in once"
  BY <1>3, <1>4 DEF KnowsTemp
<1>8. CredentialKept /\ cred' \in Credential /\ Fewer(sessions')
  BY <1>1, <1>2, FewerRenewed DEF CredentialKept
<1>9. QED BY <1>1, <1>3, <1>5, <1>6, <1>7, <1>8, AskStep DEF Informed

LEMMA AskResetStep ==
  ASSUME AuthInv, NEW q \in Requests, AskReset(q)
  PROVE  AuthInv'
<1> DEFINE r == [NoReq EXCEPT !.pc = "target", !.kind = "reset", !.at = now, !.actor = admin]
<1>1. req' = [req EXCEPT ![q] = r] /\ UNCHANGED <<now, cred, active, sessions, admin>> /\ ~Done(q)
  BY DEF AskReset, Ask, Done
<1>2. /\ cred.password \in Nat /\ cred.revision \in Nat /\ now \in Nat /\ admin \in {0, 1}
      /\ cred \in Credential /\ Fewer(sessions)
  BY Request DEF Credential
<1>3. /\ r \in RequestRecord /\ r.pc = "target" /\ r.knows = 0 /\ r.seen = 0 /\ r.kind = "reset"
  BY <1>2, NoReqType DEF RequestRecord, NoReq
<1> HIDE DEF r
<1>4. req'[q] = r
  BY <1>1, Request
<1>5. Knows(q)'
  BY <1>1, <1>2, <1>3, <1>4 DEF Knows
<1>6. KnowsTemp(q)' /\ LetIn(q)' /\ r.pc # "in once"
  BY <1>3, <1>4 DEF KnowsTemp, LetIn
<1>7. CredentialKept /\ cred' \in Credential /\ Fewer(sessions')
  BY <1>1, <1>2 DEF CredentialKept, Fewer
<1>8. QED BY <1>1, <1>3, <1>5, <1>6, <1>7, AskStep DEF Informed

\* A request goes on to read what it will write under.
LEMMA ReadStep ==
  ASSUME AuthInv, NEW q \in Requests, ReadCredential(q) \/ ReadTarget(q)
  PROVE  AuthInv'
<1> DEFINE pc == IF req[q].pc = "read" THEN "change" ELSE "reset"
           r == [req[q] EXCEPT !.pc = pc, !.seen = cred.revision]
<1>1. /\ req' = [req EXCEPT ![q] = r] /\ UNCHANGED <<now, cred, active, sessions, admin>>
      /\ req[q].pc \in {"read", "target"}
      /\ req[q].pc = "read" /\ req[q].kind # "complete" => req[q].knows = cred.password
  <2>1. CASE ReadCredential(q)
    BY <2>1, Request DEF ReadCredential
  <2>2. CASE ReadTarget(q)
    BY <2>2, Request DEF ReadTarget
  <2>3. QED BY <2>1, <2>2
<1>2. /\ cred.password \in Nat /\ cred.revision \in Nat /\ cred \in Credential
      /\ Fewer(sessions) /\ Informed(q) /\ req[q] \in RequestRecord /\ ~Done(q)
  BY <1>1, Request DEF Credential, Done
<1>3. pc \in {"change", "reset"} /\ (pc = "change" <=> req[q].pc = "read")
  OBVIOUS
<1> HIDE DEF pc
<1>4. /\ r \in RequestRecord /\ r.pc = pc /\ r.knows = req[q].knows /\ r.seen = cred.revision
      /\ r.kind = req[q].kind /\ r.by = req[q].by
  BY <1>2, <1>3 DEF RequestRecord
<1> HIDE DEF r
<1>5. req'[q] = r /\ \A p \in Requests \ {q} : req'[p] = req[p]
  BY <1>1, Request
<1>6. Knows(q)'
  BY <1>1, <1>2, <1>3, <1>4, <1>5 DEF Knows, Informed
<1>7. KnowsTemp(q)' /\ r.pc # "in once"
  BY <1>3, <1>4, <1>5 DEF KnowsTemp
<1>8. LetIn(q)'
  BY <1>1, <1>2, <1>3, <1>4, <1>5 DEF LetIn, Informed, Done
<1>9. CredentialKept /\ cred' \in Credential /\ Fewer(sessions')
  BY <1>1, <1>2 DEF CredentialKept, Fewer
<1>10. QED BY <1>1, <1>2, <1>4, <1>6, <1>7, <1>8, <1>9, AskStep DEF Informed

LEMMA RefusedStep ==
  ASSUME AuthInv, NEW q \in Requests,
         NEW pc \in {"rehash", "open", "consume", "read", "change", "reset"}, Refused(q, pc)
  PROVE  AuthInv'
<1> DEFINE r == [req[q] EXCEPT !.pc = "refused"]
<1>1. /\ req' = [req EXCEPT ![q] = r] /\ UNCHANGED <<now, cred, active, sessions, admin>>
      /\ ~Done(q)
  BY Request DEF Refused, Goes, Done
<1>2. /\ cred \in Credential /\ Fewer(sessions) /\ Informed(q) /\ req[q] \in RequestRecord
  BY Request
<1>3. /\ r \in RequestRecord /\ r.pc = "refused" /\ r.knows = req[q].knows
      /\ r.seen = req[q].seen
  BY <1>2 DEF RequestRecord
<1> HIDE DEF r
<1>4. req'[q] = r
  BY <1>1, Request
<1>5. Knows(q)'
  BY <1>1, <1>2, <1>3, <1>4 DEF Knows, Informed
<1>6. KnowsTemp(q)' /\ LetIn(q)' /\ r.pc # "in once"
  BY <1>3, <1>4 DEF KnowsTemp, LetIn
<1>7. CredentialKept /\ cred' \in Credential /\ Fewer(sessions')
  BY <1>1, <1>2 DEF CredentialKept, Fewer
<1>8. QED BY <1>1, <1>3, <1>5, <1>6, <1>7, AskStep DEF Informed

LEMMA RehashStep ==
  ASSUME AuthInv, NEW q \in Requests, Rehash(q)
  PROVE  AuthInv'
<1> DEFINE r == [req[q] EXCEPT !.pc = "open"]
<1>1. /\ req' = [req EXCEPT ![q] = r] /\ UNCHANGED <<now, active, sessions, admin>>
      /\ req[q].pc = "rehash" /\ ~Done(q) /\ cred' = [cred EXCEPT !.weak = FALSE]
      /\ req[q].knows = cred.password
  BY Request DEF Rehash, Goes, Done, SameHash
<1>2. /\ cred \in Credential /\ Fewer(sessions) /\ Informed(q) /\ req[q] \in RequestRecord
  BY Request
<1>3. cred' \in Credential /\ CredentialKept
  BY <1>1, <1>2 DEF Credential, CredentialKept
<1>4. /\ r \in RequestRecord /\ r.pc = "open" /\ r.knows = req[q].knows
      /\ r.seen = req[q].seen /\ r.kind = req[q].kind
  BY <1>2 DEF RequestRecord
<1> HIDE DEF r
<1>5. req'[q] = r
  BY <1>1, Request
<1>6. Knows(q)'
  BY <1>1, <1>2, <1>3, <1>4, <1>5 DEF Knows, Informed, CredentialKept
<1>7. KnowsTemp(q)' /\ LetIn(q)' /\ r.pc # "in once"
  BY <1>1, <1>2, <1>3, <1>4, <1>5 DEF KnowsTemp, LetIn, Informed, CredentialKept
<1>8. Fewer(sessions')
  <2>1. \A s \in sessions : Standing(s)
    BY DEF AuthInv
  <2>2. QED BY <1>1, <1>2 DEF Fewer
<1>9. QED BY <1>1, <1>3, <1>4, <1>6, <1>7, <1>8, AskStep DEF Informed

------------------------------------------------------------------------------
\* Sessions are opened.

LEMMA OpenedType ==
  ASSUME AuthInv, NEW q \in Requests, NEW life \in Nat
  PROVE  req[q].at \in Nat /\ req[q].at + life \in Nat
<1>1. req[q].at \in Nat
  BY Request DEF RequestRecord
<1>2. QED BY <1>1

LEMMA WithNew ==
  ASSUME AuthInv, NEW q \in Requests, ~Done(q), NEW s \in Sessions, s.token = q,
         NEW K \in SUBSET (sessions \cup {s})
  PROVE  /\ K \subseteq Sessions /\ Distinct(K) /\ IsFiniteSet(K)
         /\ \A t \in K : ~Done(t.token) \/ \E u \in sessions : u.token = t.token
<1>1. sessions \subseteq Sessions /\ Distinct(sessions) /\ \A t \in sessions : Done(t.token)
  BY Types DEF AuthInv, Standing
<1>2. IsFiniteSet(sessions \cup {s})
  BY FS_AddElement DEF AuthInv
<1>3. IsFiniteSet(K)
  BY <1>2, FS_Subset
<1>4. Distinct(K)
  BY <1>1 DEF Distinct
<1>5. QED BY <1>1, <1>3, <1>4

\* A request gets in with a session of its own, the credential kept.
LEMMA EnterStep ==
  ASSUME AuthInv, NEW q \in Requests, NEW pc \in {"in", "in once"},
         req' = [req EXCEPT ![q].pc = pc], ~Done(q), CredentialMoves, cred' \in Credential,
         NEW s \in Sessions, s.token = q, sessions' \subseteq sessions \cup {s},
         Cardinality(sessions') <= MaximumSessions, UNCHANGED <<now, active, admin>>,
         cred'.revision = cred.revision, cred'.password = cred.password,
         cred'.temp.set = cred.temp.set, s.revision = cred.revision, s.knew = cred.password,
         s.scope = "password_change" <=> cred.temp.set,
         pc = "in once" => cred'.temp.used,
         pc = "in once" => req[q].knows = cred.password /\ ~cred.temp.used
  PROVE  AuthInv'
<1> DEFINE r == [req[q] EXCEPT !.pc = pc]
<1>1. /\ req \in [Requests -> RequestRecord] /\ req[q] \in RequestRecord /\ Informed(q)
      /\ cred.revision \in Nat /\ cred.password \in Nat
  BY Request DEF Credential
<1>2. /\ r \in RequestRecord /\ r.pc = pc /\ r.knows = req[q].knows /\ r.seen = req[q].seen
      /\ req' = [req EXCEPT ![q] = r]
  BY <1>1 DEF RequestRecord
<1> HIDE DEF r
<1>3. req'[q] = r /\ \A p \in Requests \ {q} : req'[p] = req[p]
  BY <1>1, <1>2
<1>4. /\ sessions' \subseteq Sessions /\ Distinct(sessions') /\ IsFiniteSet(sessions')
      /\ \A t \in sessions' : ~Done(t.token) \/ \E u \in sessions : u.token = t.token
  BY WithNew
<1>5. SessionsMove
  BY <1>4 DEF SessionsMove
<1>6. \A t \in sessions' : Standing(t)'
  <2>1. ASSUME NEW t \in sessions PROVE Standing(t)'
    <3>1. Standing(t) /\ t.token \in Requests
      BY Types DEF AuthInv, Sessions
    <3>2. t.token # q
      BY <3>1 DEF Standing
    <3>3. Done(t.token)'
      BY <1>3, <3>1, <3>2 DEF Done, Standing
    <3>4. QED BY <3>1, <3>3 DEF Standing
  <2>2. Done(s.token)'
    BY <1>2, <1>3 DEF Done
  <2>3. Standing(s)'
    BY <2>2 DEF Standing
  <2>4. QED BY <2>1, <2>3
<1>7. Knows(q)'
  <2>1. req[q].knows <= cred.password /\ req[q].seen <= cred.revision
    BY <1>1 DEF Informed, Knows
  <2>2. QED BY <1>2, <1>3, <2>1 DEF Knows
<1>8. KnowsTemp(q)' /\ LetIn(q)'
  BY <1>2, <1>3 DEF KnowsTemp, LetIn
<1>9. r.pc = "in once" => r.knows = cred.password /\ ~cred.temp.used
  BY <1>2
<1>10. QED BY <1>2, <1>4, <1>5, <1>6, <1>7, <1>8, <1>9, RequestStep DEF Informed

LEMMA OpenSessionStep ==
  ASSUME AuthInv, NEW q \in Requests, OpenSession(q)
  PROVE  AuthInv'
<1> DEFINE s == Opened(q, "normal", SessionLife, cred.revision, req[q].knows)
<1>1. /\ req[q].pc = "open" /\ cred.revision = req[q].seen
      /\ sessions' \in Trimmed(Live(sessions \cup {s}, req[q].at), MaximumSessions - 1)
      /\ req' = [req EXCEPT ![q].pc = "in"] /\ UNCHANGED <<now, cred, active, admin>>
  BY DEF OpenSession, MayOpen, Others, Goes
<1>2. ~Done(q) /\ cred \in Credential /\ Informed(q)
  BY <1>1, Request DEF Done
<1>3. cred.revision \in Nat /\ req[q].knows \in Nat /\ SessionLife \in Nat
  BY Request, AuthAssumption DEF Credential, RequestRecord
<1>4. s \in Sessions /\ s.token = q /\ s.scope = "normal" /\ s.revision = cred.revision
      /\ s.knew = req[q].knows
  <2>1. req[q].at \in Nat /\ req[q].at + SessionLife \in Nat
    BY <1>3, OpenedType
  <2>2. QED BY <1>3, <2>1 DEF Opened, Sessions
<1> HIDE DEF s
<1>5. req[q].knows = cred.password /\ ~cred.temp.set
  BY <1>1, <1>2 DEF Informed, Knows, KnowsTemp
<1>6. sessions' \subseteq sessions \cup {s} /\ Cardinality(sessions') <= MaximumSessions - 1
  BY <1>1 DEF Trimmed, Live
<1>7. Cardinality(sessions') <= MaximumSessions
  <2>1. IsFiniteSet(sessions')
    BY <1>2, <1>4, <1>6, WithNew
  <2>2. Cardinality(sessions') \in Nat /\ MaximumSessions \in Nat
    BY <2>1, FS_CardinalityType, AuthAssumption
  <2>3. QED BY <1>6, <2>2
<1>8. CredentialMoves
  BY <1>1 DEF CredentialMoves
<1>9. cred' \in Credential /\ cred' = cred /\ UNCHANGED <<now, active, admin>>
  BY <1>1, <1>2
<1>10. s.revision = cred.revision /\ s.knew = cred.password
       /\ (s.scope = "password_change" <=> cred.temp.set)
  BY <1>4, <1>5
<1>11. QED BY <1>1, <1>2, <1>4, <1>6, <1>7, <1>8, <1>9, <1>10, EnterStep

LEMMA ConsumeStep ==
  ASSUME AuthInv, NEW q \in Requests, Consume(q)
  PROVE  AuthInv'
<1> DEFINE s == Opened(q, "password_change", ResetLife, cred.revision, req[q].knows)
<1>1. /\ req[q].pc = "consume" /\ MayConsume(q)
      /\ \E K \in Trimmed(Live(sessions, req[q].at), MaximumSessions - 1) :
           sessions' = K \cup {s}
      /\ req' = [req EXCEPT ![q].pc = "in once"] /\ UNCHANGED <<now, active, admin>>
      /\ cred' = [cred EXCEPT !.temp.used = TRUE]
  BY DEF Consume, Others, Goes
<1>2. ~Done(q) /\ cred \in Credential
  BY <1>1, Request DEF Done
<1>3. cred.revision \in Nat /\ req[q].knows \in Nat /\ ResetLife \in Nat
  BY Request, AuthAssumption DEF Credential, RequestRecord
<1>4. s \in Sessions /\ s.token = q /\ s.scope = "password_change"
      /\ s.revision = cred.revision /\ s.knew = req[q].knows
  <2>1. req[q].at \in Nat /\ req[q].at + ResetLife \in Nat
    BY <1>3, OpenedType
  <2>2. QED BY <1>3, <2>1 DEF Opened, Sessions
<1> HIDE DEF s
<1>5. req[q].knows = cred.password /\ cred.temp.set /\ ~cred.temp.used
  BY <1>1 DEF MayConsume, SameHash, Usable
<1>6. PICK K \in Trimmed(Live(sessions, req[q].at), MaximumSessions - 1) :
        sessions' = K \cup {s}
  BY <1>1
<1>7. K \subseteq sessions /\ Cardinality(K) <= MaximumSessions - 1
  BY DEF Trimmed, Live
<1>8. Cardinality(sessions') <= MaximumSessions
  <2>1. IsFiniteSet(K)
    BY <1>7, FS_Subset DEF AuthInv
  <2>2. Cardinality(K) \in Nat /\ Cardinality(sessions') \in {Cardinality(K), Cardinality(K) + 1}
    BY <1>6, <2>1, FS_AddElement, FS_CardinalityType
  <2>3. MaximumSessions \in Nat
    BY AuthAssumption
  <2>4. QED BY <1>7, <2>2, <2>3
<1>9. /\ cred' \in Credential /\ cred'.revision = cred.revision
      /\ cred'.password = cred.password /\ cred'.temp.set = cred.temp.set /\ cred'.temp.used
  BY <1>1, <1>2 DEF Credential
<1>10. CredentialMoves /\ sessions' \subseteq sessions \cup {s}
  BY <1>6, <1>7, <1>9 DEF CredentialMoves
<1>11. s.revision = cred.revision /\ s.knew = cred.password
       /\ (s.scope = "password_change" <=> cred.temp.set)
  BY <1>4, <1>5
<1>12. QED BY <1>1, <1>2, <1>4, <1>5, <1>8, <1>9, <1>10, <1>11, EnterStep

------------------------------------------------------------------------------
\* The credential is changed.

\* A new revision: the sessions go, but for one that is opened with the new password.
LEMMA ReplaceStep ==
  ASSUME AuthInv, NEW q \in Requests, NEW pc \in {"in", "out"},
         req' = [req EXCEPT ![q].pc = pc], ~Done(q), cred' \in Credential,
         cred'.revision = cred.revision + 1,
         \/ cred'.password = cred.password + 1
         \/ cred'.password = cred.password /\ cred'.temp = cred.temp,
         sessions' \subseteq Sessions, UNCHANGED <<now, active, admin>>,
         \/ sessions' = {}
         \/ /\ pc = "in" /\ ~cred'.temp.set
            /\ \E s : /\ sessions' = {s} /\ s.token = q /\ s.scope = "normal"
                      /\ s.revision = cred'.revision /\ s.knew = cred'.password
  PROVE  AuthInv'
<1> DEFINE r == [req[q] EXCEPT !.pc = pc]
<1>1. /\ req \in [Requests -> RequestRecord] /\ req[q] \in RequestRecord /\ Informed(q)
      /\ cred.revision \in Nat /\ cred.password \in Nat
  BY Request DEF Credential
<1>2. /\ r \in RequestRecord /\ r.pc = pc /\ r.knows = req[q].knows /\ r.seen = req[q].seen
      /\ req' = [req EXCEPT ![q] = r]
  BY <1>1 DEF RequestRecord
<1> HIDE DEF r
<1>3. req'[q] = r
  BY <1>1, <1>2
<1>4. cred.revision < cred'.revision
  BY <1>1
<1>5. CredentialMoves
  <2>1. CASE cred'.password = cred.password + 1
    <3>1. cred.password < cred'.password
      BY <1>1, <2>1
    <3>2. QED BY <1>4, <3>1 DEF CredentialMoves
  <2>2. CASE cred'.password = cred.password /\ cred'.temp = cred.temp
    BY <1>4, <2>2 DEF CredentialMoves
  <2>3. QED BY <2>1, <2>2
<1>6. SessionsMove
  BY DEF SessionsMove
<1>7. Distinct(sessions') /\ IsFiniteSet(sessions') /\ Cardinality(sessions') <= MaximumSessions
  <2>1. MaximumSessions \in Nat \ {0}
    BY AuthAssumption
  <2>2. CASE sessions' = {}
    BY <2>1, <2>2, FS_EmptySet DEF Distinct
  <2>3. ASSUME NEW s, sessions' = {s}
        PROVE  Distinct(sessions') /\ IsFiniteSet(sessions')
               /\ Cardinality(sessions') <= MaximumSessions
    <3>1. IsFiniteSet({s}) /\ Cardinality({s}) = 1
      BY FS_Singleton
    <3>2. 1 <= MaximumSessions
      BY <2>1
    <3>3. QED BY <2>3, <3>1, <3>2 DEF Distinct
  <2>4. QED BY <2>2, <2>3
<1>8. \A s \in sessions' : Standing(s)'
  <2>1. CASE sessions' = {}
    BY <2>1
  <2>2. ASSUME NEW s, pc = "in", ~cred'.temp.set, sessions' = {s}, s.token = q,
               s.scope = "normal", s.revision = cred'.revision, s.knew = cred'.password
        PROVE  Standing(s)'
    <3>1. Done(s.token)'
      BY <1>2, <1>3, <2>2 DEF Done
    <3>2. s.scope = "password_change" <=> cred'.temp.set
      BY <2>2, Zenon
    <3>3. QED BY <2>2, <3>1, <3>2 DEF Standing
  <2>3. QED BY <2>1, <2>2
<1>9. Knows(q)'
  <2>1. req[q].knows <= cred.password /\ req[q].seen <= cred.revision
        /\ req[q].knows \in Nat /\ req[q].seen \in Nat
        /\ cred'.revision \in Nat /\ cred'.password \in Nat
    BY <1>1 DEF Informed, Knows, RequestRecord, Credential
  <2>2. cred.password <= cred'.password
    BY <1>1, <2>1
  <2>3. req[q].knows <= cred'.password /\ req[q].seen <= cred'.revision
    BY <1>1, <2>1, <2>2
  <2>4. QED BY <1>2, <1>3, <2>3 DEF Knows
<1>10. KnowsTemp(q)' /\ LetIn(q)' /\ r.pc # "in once"
  BY <1>2, <1>3 DEF KnowsTemp, LetIn
<1>11. QED BY <1>2, <1>5, <1>6, <1>7, <1>8, <1>9, <1>10, RequestStep DEF Informed

LEMMA NewPasswordType ==
  ASSUME AuthInv, NEW temp, temp \in [expires : Nat, used : BOOLEAN, set : BOOLEAN]
  PROVE  /\ NewPassword(temp) \in Credential /\ NewPassword(temp).temp = temp
         /\ NewPassword(temp).password = cred.password + 1
         /\ NewPassword(temp).revision = cred.revision + 1
<1>1. cred.password + 1 \in Nat /\ cred.revision + 1 \in Nat
  BY Request, Types DEF AuthInv, Credential
<1>2. QED BY <1>1 DEF NewPassword, Credential

LEMMA ChangeStep ==
  ASSUME AuthInv, NEW q \in Requests, Change(q)
  PROVE  AuthInv'
<1>1. /\ req[q].pc = "change" /\ req' = [req EXCEPT ![q].pc = "out"] /\ sessions' = {}
      /\ UNCHANGED <<now, active, admin>>
      /\ cred' = IF req[q].kind = "password" THEN NewPassword(cred.temp)
                 ELSE [cred EXCEPT !.revision = @ + 1]
  BY DEF Change, Goes
<1>2. cred \in Credential /\ ~Done(q) /\ cred.revision + 1 \in Nat
      /\ cred.temp \in [expires : Nat, used : BOOLEAN, set : BOOLEAN]
  <2>1. cred \in Credential
    BY Request
  <2>2. QED BY <1>1, <2>1 DEF Credential, Done
<1>3. CASE req[q].kind = "password"
  BY <1>1, <1>2, <1>3, NewPasswordType, ReplaceStep
<1>4. CASE req[q].kind # "password"
  <2>1. cred' \in Credential /\ cred'.revision = cred.revision + 1
        /\ cred'.password = cred.password /\ cred'.temp = cred.temp
    BY <1>1, <1>2, <1>4 DEF Credential
  <2>2. QED BY <1>1, <1>2, <2>1, ReplaceStep
<1>5. QED BY <1>3, <1>4

LEMMA ResetStep ==
  ASSUME AuthInv, NEW q \in Requests, Reset(q)
  PROVE  AuthInv'
<1>1. /\ req[q].pc = "reset" /\ req' = [req EXCEPT ![q].pc = "out"] /\ sessions' = {}
      /\ UNCHANGED <<now, active, admin>>
      /\ cred' = NewPassword(Temp(req[q].at + ResetLife))
  BY DEF Reset, Goes
<1>2. ~Done(q)
  BY <1>1 DEF Done
<1>3. req[q].at \in Nat /\ ResetLife \in Nat
  BY Request, AuthAssumption DEF RequestRecord
<1>4. Temp(req[q].at + ResetLife) \in [expires : Nat, used : BOOLEAN, set : BOOLEAN]
  BY <1>3 DEF Temp
<1>5. QED BY <1>1, <1>2, <1>4, NewPasswordType, ReplaceStep

LEMMA CompleteStep ==
  ASSUME AuthInv, NEW q \in Requests, Complete(q)
  PROVE  AuthInv'
<1> DEFINE s == Opened(q, "normal", SessionLife, cred'.revision, cred'.password)
<1>1. /\ req[q].pc = "change" /\ req' = [req EXCEPT ![q].pc = "in"]
      /\ UNCHANGED <<now, active, admin>> /\ cred' = NewPassword(NoTemp)
      /\ sessions' = {s}
  BY DEF Complete, Goes
<1>2. ~Done(q)
  BY <1>1 DEF Done
<1>3. NoTemp \in [expires : Nat, used : BOOLEAN, set : BOOLEAN] /\ ~NoTemp.set
  BY DEF NoTemp
<1>4. /\ cred' \in Credential /\ ~cred'.temp.set
      /\ cred'.password = cred.password + 1 /\ cred'.revision = cred.revision + 1
  BY <1>1, <1>3, NewPasswordType
<1>5. cred'.revision \in Nat /\ cred'.password \in Nat /\ SessionLife \in Nat
  BY <1>4, AuthAssumption DEF Credential
<1>6. /\ s \in Sessions /\ s.token = q /\ s.scope = "normal"
      /\ s.revision = cred'.revision /\ s.knew = cred'.password
  <2>1. req[q].at \in Nat /\ req[q].at + SessionLife \in Nat
    BY <1>5, OpenedType
  <2>2. QED BY <1>5, <2>1 DEF Opened, Sessions
<1> HIDE DEF s
<1>7. QED BY <1>1, <1>2, <1>4, <1>6, ReplaceStep

------------------------------------------------------------------------------
\* AuthInv is inductive.

LEMMA AuthStart == Init => AuthInv
<1> SUFFICES ASSUME Init PROVE AuthInv
  OBVIOUS
<1>1. /\ sessions = {} /\ \A q \in Requests : req[q] = NoReq
      /\ cred.password = 1 /\ cred.revision = 1
  BY DEF Init
<1>2. TypeOK
  <2>1. ResetLife \in Nat
    BY AuthAssumption
  <2>2. cred \in Credential
    <3>1. /\ NoTemp \in [expires : Nat, used : BOOLEAN, set : BOOLEAN]
          /\ Temp(ResetLife) \in [expires : Nat, used : BOOLEAN, set : BOOLEAN]
      BY <2>1 DEF NoTemp, Temp
    <3>2. CASE cred \in [password : {1}, weak : BOOLEAN, revision : {1}, temp : {NoTemp}]
      BY <3>1, <3>2 DEF Credential
    <3>3. CASE cred = [password |-> 1, weak |-> FALSE, revision |-> 1, temp |-> Temp(ResetLife)]
      BY <3>1, <3>3 DEF Credential
    <3>4. QED BY <3>2, <3>3 DEF Init
  <2>3. req \in [Requests -> RequestRecord]
    BY NoReqType DEF Init
  <2>4. QED BY <2>2, <2>3, Types DEF Init, Distinct
<1>3. IsFiniteSet(sessions) /\ SessionsBounded
  BY <1>1, FS_EmptySet, AuthAssumption DEF SessionsBounded
<1>4. \A q \in Requests : req[q].pc = "idle" /\ req[q].knows = 0 /\ req[q].seen = 0
  BY <1>1 DEF NoReq
<1>5. ASSUME NEW q \in Requests PROVE Knows(q) /\ KnowsTemp(q) /\ LetIn(q)
  <2>1. req[q].knows <= cred.password /\ req[q].seen <= cred.revision
    BY <1>1, <1>4
  <2>2. Knows(q)
    BY <1>4, <2>1 DEF Knows
  <2>3. KnowsTemp(q) /\ LetIn(q)
    BY <1>4 DEF KnowsTemp, LetIn
  <2>4. QED BY <2>2, <2>3
<1>6. OneUse /\ \A s \in sessions : Standing(s)
  BY <1>1, <1>4 DEF OneUse
<1>7. QED BY <1>2, <1>3, <1>5, <1>6 DEF AuthInv

LEMMA AuthStep == AuthInv /\ [Next]_vars => AuthInv'
<1> SUFFICES ASSUME AuthInv, [Next]_vars PROVE AuthInv'
  OBVIOUS
<1>1. CASE UNCHANGED vars
  <2>1. Fewer(sessions) /\ now \in Nat /\ active \in BOOLEAN /\ admin \in {0, 1}
    BY FewerSubset DEF AuthInv, TypeOK
  <2>2. Fewer(sessions') /\ UNCHANGED <<now, active, admin, cred, req>>
    BY <1>1, <2>1 DEF vars, Fewer
  <2>3. QED BY <2>1, <2>2, SessionStep
<1>2. ASSUME NEW q \in Requests, Asks(q) PROVE AuthInv'
  BY <1>2, AskLoginStep, AskResetStep, AskChangeStep DEF Asks
<1>3. ASSUME NEW q \in Requests, Runs(q) PROVE AuthInv'
  <2>1. CASE WrongPassword(q)
    BY <2>1, RefusedStep DEF WrongPassword
  <2>2. QED
    BY <1>3, <2>1, RehashStep, OpenSessionStep, ConsumeStep, ReadStep, ChangeStep,
       CompleteStep, ResetStep DEF Runs
<1>4. ASSUME NEW q \in Requests, Fails(q) PROVE AuthInv'
  BY <1>4, RefusedStep DEF Fails
<1>5. QED BY <1>1, <1>2, <1>3, <1>4, OnlySessions DEF Next

LEMMA AuthInvariant == Spec => []AuthInv
BY AuthStart, AuthStep, PTL DEF Spec

\* The rows and requests keep their types, and no two sessions have one token.
THEOREM AuthTypes == Spec => []TypeOK
<1>1. AuthInv => TypeOK
  BY DEF AuthInv
<1>2. QED BY <1>1, AuthInvariant, PTL

\* A session that counts was opened with the password in force.
THEOREM HoldersAreIn == Spec => []OnlyHoldersAreIn
<1>1. AuthInv => OnlyHoldersAreIn
  BY DEF AuthInv, Standing, OnlyHoldersAreIn
<1>2. QED BY <1>1, AuthInvariant, PTL

\* A temporary password lets one login in.
THEOREM UsedOnce == Spec => []OneUse
<1>1. AuthInv => OneUse
  BY DEF AuthInv
<1>2. QED BY <1>1, AuthInvariant, PTL

\* No number of logins leaves more sessions than the limit.
THEOREM SessionsLimited == Spec => []SessionsBounded
<1>1. AuthInv => SessionsBounded
  BY DEF AuthInv
<1>2. QED BY <1>1, AuthInvariant, PTL

------------------------------------------------------------------------------
\* Who changes a credential.

ByItsHolder ==
  cred'.revision # cred.revision =>
    \E q \in Requests :
      /\ req'[q].pc # req[q].pc
      /\ IF req[q].kind = "reset" THEN req[q].actor = admin
         ELSE req[q].knows = cred.password

LEMMA StepByHolder == AuthInv /\ [Next]_vars => ByItsHolder
<1> SUFFICES ASSUME AuthInv, [Next]_vars, cred'.revision # cred.revision
             PROVE  \E q \in Requests :
                      /\ req'[q].pc # req[q].pc
                      /\ IF req[q].kind = "reset" THEN req[q].actor = admin
                         ELSE req[q].knows = cred.password
  BY DEF ByItsHolder
<1>1. cred \in Credential /\ req \in [Requests -> RequestRecord]
  BY Types DEF AuthInv
<1>2. PICK q \in Requests : Change(q) \/ Complete(q) \/ Reset(q)
  <2>1. ASSUME NEW q \in Requests, Rehash(q) \/ Consume(q) PROVE cred'.revision = cred.revision
    BY <1>1, <2>1 DEF Rehash, Consume, Credential
  <2>2. ASSUME NEW q \in Requests, Asks(q) \/ Fails(q) PROVE cred' = cred
    BY <2>2 DEF Asks, Fails, AskLogin, AskReset, AskChange, Refused
  <2>3. ASSUME NEW q \in Requests, OpenSession(q) \/ ReadCredential(q) \/ WrongPassword(q)
                                   \/ ReadTarget(q)
        PROVE  cred' = cred
    BY <2>3 DEF OpenSession, ReadCredential, WrongPassword, Refused, ReadTarget
  <2>4. UNCHANGED vars \/ (\E s \in sessions : Resolve(s) \/ Logout(s)) \/ CleanUp \/ Tick
        \/ AdminChanges \/ (\E to \in BOOLEAN : SetActive(to)) => cred' = cred
    BY DEF vars, Resolve, Logout, CleanUp, Tick, AdminChanges, SetActive
  <2>5. QED BY <2>1, <2>2, <2>3, <2>4 DEF Next, Runs
<1>3. req[q] \in RequestRecord /\ Knows(q) /\ LetIn(q)
  BY <1>1 DEF AuthInv
<1>4. CASE Change(q)
  <2>1. /\ req[q].pc = "change" /\ req[q].kind \in {"password", "login name"}
        /\ req[q].seen = cred.revision /\ req' = [req EXCEPT ![q].pc = "out"]
    BY <1>4 DEF Change, MayChange, Goes
  <2>2. req'[q].pc = "out"
    BY <1>1, <2>1 DEF RequestRecord
  <2>3. req[q].kind # "complete" /\ req[q].kind # "reset"
    BY <2>1
  <2>4. req[q].knows = cred.password
    BY <1>3, <2>1, <2>3 DEF Knows
  <2>5. QED BY <2>1, <2>2, <2>3, <2>4
<1>5. CASE Complete(q)
  <2>1. req[q].pc = "change" /\ req'[q].pc = "in" /\ req[q].kind = "complete"
        /\ \E s \in sessions : s.token = req[q].by
    BY <1>1, <1>5 DEF Complete, MayComplete, HasSession, Goes
  <2>2. QED BY <1>3, <2>1 DEF LetIn
<1>6. CASE Reset(q)
  <2>1. req[q].pc = "reset" /\ req'[q].pc = "out" /\ req[q].actor = admin
    BY <1>1, <1>6 DEF Reset, MayReset, Goes
  <2>2. QED BY <1>3, <2>1 DEF Knows
<1>7. QED BY <1>2, <1>4, <1>5, <1>6

\* A credential is changed by who knows the password it replaces, or by an
\* administrator whose own credential is the one that was checked.
THEOREM ChangedByHolder == Spec => ChangedByItsHolder
<1>1. AuthInv /\ [Next]_vars
        => [cred'.revision # cred.revision =>
              \E q \in Requests :
                /\ req'[q].pc # req[q].pc
                /\ IF req[q].kind = "reset" THEN req[q].actor = admin
                   ELSE req[q].knows = cred.password]_vars
  BY StepByHolder DEF ByItsHolder
<1>2. QED BY <1>1, AuthInvariant, PTL DEF Spec, ChangedByItsHolder
=============================================================================
