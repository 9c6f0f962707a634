------------------------ MODULE MediaLifecycleProofs ------------------------
(***************************************************************************)
(* Theorems about MediaLifecycle, for any number of assets, objects,       *)
(* articles, uploads and collectors, for slow and for timely uploads.      *)
(***************************************************************************)
EXTENDS MediaLifecycle, TLAPS

------------------------------------------------------------------------------
\* The inductive invariant.

\* A staged asset has all its objects: this is what makes attaching safe.
StagedIsComplete ==
  \A a \in Assets : state[a] = "staged" => Objects({a}) \subseteq blobs

\* Every asset belongs to the upload that reserved it.
OwnAssets ==
  /\ \A u \in Uploads : \A a \in upload[u].assets : state[a] # "unborn"
  /\ \A u, v \in Uploads : u # v => upload[u].assets \cap upload[v].assets = {}

\* What an upload has neither stored nor in progress is still to do; it stages
\* nothing before all of it is stored.
Unstored(u) == upload[u].todo \cup upload[u].inflight

UploadsProgress ==
  \A u \in Uploads :
    /\ upload[u].pc \in {"writing", "stage"} /\ ~upload[u].failed =>
         \A a \in upload[u].assets : state[a] = "uploading" =>
           Objects({a}) \subseteq blobs \cup Unstored(u)
    /\ upload[u].pc = "stage" => Unstored(u) = {} /\ ~upload[u].failed

\* A collector deletes the objects of lost assets only.
CollectedIsLost ==
  \A c \in Collectors : \A a \in gc[c].todo : state[a] \in {"deleting", "gone"}

MediaInv ==
  /\ TypeOK
  /\ ReferencesWork
  /\ AttachedIsReferenced
  /\ StagedIsComplete
  /\ OwnAssets
  /\ UploadsProgress
  /\ CollectedIsLost

------------------------------------------------------------------------------
\* Steps that change neither rows nor references nor objects.
LEMMA UploadOnly ==
  ASSUME MediaInv, NEW u \in Uploads, NEW s \in UploadState,
         upload' = [upload EXCEPT ![u] = s],
         s.assets = upload[u].assets,
         s.pc \in {"writing", "stage"} /\ ~s.failed =>
           /\ upload[u].pc \in {"writing", "stage"} /\ ~upload[u].failed
           /\ Unstored(u) \subseteq s.todo \cup s.inflight,
         s.pc = "stage" => s.todo \cup s.inflight = {} /\ ~s.failed,
         faults' \in 0..MaxFaults,
         UNCHANGED <<rowVars, blobs, refVars, gc>>
  PROVE  MediaInv'
<1> USE DEF rowVars, refVars
<1>1. TypeOK'
  BY DEF MediaInv, TypeOK
<1>2. ReferencesWork' /\ AttachedIsReferenced' /\ StagedIsComplete' /\ CollectedIsLost'
  BY DEF MediaInv, ReferencesWork, AttachedIsReferenced, StagedIsComplete, CollectedIsLost
<1>3. upload \in [Uploads -> UploadState]
  BY DEF MediaInv, TypeOK
<1>4. OwnAssets'
  BY <1>3 DEF MediaInv, OwnAssets
<1>5. UploadsProgress'
  <2> SUFFICES ASSUME NEW v \in Uploads
               PROVE  /\ upload'[v].pc \in {"writing", "stage"} /\ ~upload'[v].failed =>
                           \A a \in upload'[v].assets : state[a] = "uploading" =>
                             Objects({a}) \subseteq blobs \cup (upload'[v].todo \cup upload'[v].inflight)
                      /\ upload'[v].pc = "stage" =>
                           upload'[v].todo \cup upload'[v].inflight = {} /\ ~upload'[v].failed
    BY DEF UploadsProgress, Unstored
  <2>1. CASE v = u
    BY <1>3, <2>1 DEF MediaInv, UploadsProgress, Unstored
  <2>2. CASE v # u
    BY <1>3, <2>2 DEF MediaInv, UploadsProgress, Unstored
  <2>3. QED BY <2>1, <2>2
<1>6. QED BY <1>1, <1>2, <1>4, <1>5 DEF MediaInv

\* A batch of references: Refer keeps the invariant when what it leaves is old
\* or refers to A, and all of A is referred to.
LEMMA ReferStep ==
  ASSUME MediaInv, NEW A \in SUBSET Assets, NEW t \in Targets,
         NEW L \in SUBSET (Assets \X Targets), NEW R \in SUBSET (Assets \X Articles),
         Refer(A, L, R),
         L \cup R \subseteq links \cup retained \cup (A \X {t}),
         A \X {t} \subseteq L \cup R
  PROVE  MediaInv'
<1> DEFINE D == Dropped(L, R)
<1>1. /\ state \in [Assets -> {"unborn", "uploading", "staged", "attached", "deleting", "gone"}]
      /\ expired \in [Assets -> BOOLEAN] /\ lapsed \in [Assets -> BOOLEAN]
      /\ claim \in [Assets -> Tokens \cup {None}]
      /\ links \subseteq Assets \X Targets /\ retained \subseteq Assets \X Articles
      /\ \A a \in Assets : claim[a] # None => state[a] = "deleting"
      /\ Articles \subseteq Targets
  BY DEF MediaInv, TypeOK, Targets
<1>2. /\ links' = L /\ retained' = R
      /\ state' = [a \in Assets |-> IF a \in A THEN "attached"
                                    ELSE IF a \in D THEN "deleting" ELSE state[a]]
      /\ claim' = [a \in Assets |-> IF a \in A \cup D THEN None ELSE claim[a]]
      /\ UNCHANGED <<blobs, upload, gc, faults>>
      /\ \A a \in A : state[a] \in {"staged", "attached"}
  BY DEF Refer, Attachable
<1>3. /\ expired' = [a \in Assets |-> expired[a] /\ a \notin A \cup D]
      /\ lapsed' = [a \in Assets |-> lapsed[a] /\ a \notin A \cup D]
  BY DEF Refer
<1>4. \A r \in links \cup retained : r[1] \in Assets /\ state[r[1]] = "attached"
                                     /\ Objects({r[1]}) \subseteq blobs
  BY <1>1 DEF MediaInv, ReferencesWork
<1>5. \A a \in D : a \in Assets /\ state[a] = "attached" /\ a \notin A
  <2> SUFFICES ASSUME NEW a \in D PROVE a \in Assets /\ state[a] = "attached" /\ a \notin A
    OBVIOUS
  <2>1. /\ \E r \in links \cup retained : r[1] = a
        /\ \A r \in L \cup R : r[1] # a
    BY DEF Dropped
  <2>2. a \in A => <<a, t>> \in L \cup R
    OBVIOUS
  <2>3. a \notin A
    BY <2>1, <2>2
  <2>4. QED BY <1>4, <2>1, <2>3
<1>6. TypeOK'
  <2>1. /\ state' \in [Assets -> {"unborn", "uploading", "staged", "attached", "deleting", "gone"}]
        /\ claim' \in [Assets -> Tokens \cup {None}]
    BY <1>1, <1>2
  <2>2. \A a \in Assets : claim'[a] # None => state'[a] = "deleting"
    BY <1>1, <1>2
  <2>3. expired' \in [Assets -> BOOLEAN] /\ lapsed' \in [Assets -> BOOLEAN]
    BY <1>3, Zenon
  <2>4. links' \subseteq Assets \X Targets /\ retained' \subseteq Assets \X Articles
    BY <1>2
  <2>5. blobs' \subseteq Objects(Assets) /\ upload' \in [Uploads -> UploadState]
        /\ gc' \in [Collectors -> GcState] /\ faults' \in 0..MaxFaults
    BY <1>2 DEF MediaInv, TypeOK
  <2>6. QED BY <2>1, <2>2, <2>3, <2>4, <2>5 DEF TypeOK
<1>7. \A a \in A : Objects({a}) \subseteq blobs
  <2> SUFFICES ASSUME NEW a \in A PROVE Objects({a}) \subseteq blobs
    OBVIOUS
  <2>1. CASE state[a] = "staged"
    BY <2>1 DEF MediaInv, StagedIsComplete
  <2>2. CASE state[a] = "attached"
    BY <1>4, <2>2 DEF MediaInv, AttachedIsReferenced
  <2>3. QED BY <1>2, <2>1, <2>2
<1>8. ReferencesWork'
  <2> SUFFICES ASSUME NEW r \in L \cup R
               PROVE  state'[r[1]] = "attached" /\ Objects({r[1]}) \subseteq blobs
    BY <1>2 DEF ReferencesWork
  <2>1. CASE r \in A \X {t}
    BY <1>2, <1>7, <2>1
  <2>2. CASE r \in links \cup retained
    <3>1. r[1] \notin D
      BY DEF Dropped
    <3>2. QED BY <1>2, <1>4, <2>2, <3>1
  <2>3. QED BY <2>1, <2>2
<1>9. AttachedIsReferenced'
  <2> SUFFICES ASSUME NEW a \in Assets, state'[a] = "attached"
               PROVE  \E r \in L \cup R : r[1] = a
    BY <1>2 DEF AttachedIsReferenced
  <2>1. CASE a \in A
    <3>1. <<a, t>> \in L \cup R
      BY <2>1
    <3>2. QED BY <3>1
  <2>2. CASE a \notin A
    <3>1. a \notin D /\ state[a] = "attached"
      BY <1>2, <2>2
    <3>2. PICK r \in links \cup retained : r[1] = a
      BY <3>1 DEF MediaInv, AttachedIsReferenced
    <3>3. QED BY <3>1, <3>2 DEF Dropped
  <2>3. QED BY <2>1, <2>2
<1>10. StagedIsComplete'
  BY <1>2 DEF MediaInv, StagedIsComplete
<1>11. OwnAssets'
  BY <1>1, <1>2 DEF MediaInv, TypeOK, UploadState, OwnAssets
<1>12. \A a \in Assets : state'[a] = "uploading" => state[a] = "uploading"
  BY <1>2
<1>13. UploadsProgress'
  BY <1>2, <1>12 DEF MediaInv, TypeOK, UploadState, UploadsProgress, Unstored
<1>14. CollectedIsLost'
  BY <1>2, <1>5 DEF MediaInv, TypeOK, GcState, CollectedIsLost
<1>15. QED BY <1>6, <1>8, <1>9, <1>10, <1>11, <1>13, <1>14 DEF MediaInv

\* One upload changes, and its own rows move among the states of an upload.
LEMMA OtherUploads ==
  ASSUME MediaInv, NEW u \in Uploads, NEW s \in UploadState,
         upload' = [upload EXCEPT ![u] = s]
  PROVE  /\ upload' \in [Uploads -> UploadState]
         /\ upload'[u] = s
         /\ \A v \in Uploads : v # u => upload'[v] = upload[v]
BY DEF MediaInv, TypeOK

LEMMA ReserveStep == ASSUME MediaInv, NEW u \in Uploads, Reserve(u) PROVE MediaInv'
<1>1. PICK A \in SUBSET {a \in Assets : state[a] = "unborn"} :
        /\ Move(A, "uploading")
        /\ upload' = [upload EXCEPT ![u] =
             [NoUpload EXCEPT !.pc = "writing", !.assets = A, !.todo = Objects(A)]]
  BY DEF Reserve
<1> DEFINE s == [NoUpload EXCEPT !.pc = "writing", !.assets = A, !.todo = Objects(A)]
<1>2. /\ s \in UploadState /\ s.pc = "writing" /\ s.assets = A
      /\ s.todo = Objects(A) /\ s.inflight = {} /\ ~s.failed
  BY DEF NoUpload, UploadState, Objects
<1>3. upload' = [upload EXCEPT ![u] = s]
  BY <1>1
<1> HIDE DEF s
<1>4. /\ upload' \in [Uploads -> UploadState] /\ upload'[u] = s
      /\ \A v \in Uploads : v # u => upload'[v] = upload[v]
  BY <1>2, <1>3, OtherUploads
<1>5. UNCHANGED <<blobs, links, retained, gc, faults>>
  BY DEF Reserve, refVars
<1>6. /\ state' = [a \in Assets |-> IF a \in A THEN "uploading" ELSE state[a]]
      /\ \A a \in A : state[a] = "unborn"
  BY <1>1 DEF Move
<1>7. TypeOK'
  <2>1. /\ claim' \in [Assets -> Tokens \cup {None}] /\ lapsed' \in [Assets -> BOOLEAN]
        /\ expired' \in [Assets -> BOOLEAN]
        /\ \A a \in Assets : claim'[a] # None => state'[a] = "deleting"
    BY <1>1, <1>6 DEF MediaInv, TypeOK, Move
  <2>2. QED BY <1>4, <1>5, <1>6, <2>1 DEF MediaInv, TypeOK
<1>8. ReferencesWork' /\ AttachedIsReferenced' /\ StagedIsComplete'
  BY <1>5, <1>6
  DEF MediaInv, TypeOK, ReferencesWork, AttachedIsReferenced, StagedIsComplete
<1>9. OwnAssets'
  <2>1. \A v \in Uploads : \A a \in upload'[v].assets : state'[a] # "unborn"
    BY <1>2, <1>4, <1>6 DEF MediaInv, OwnAssets, TypeOK, UploadState
  <2>2. \A v \in Uploads : v # u => upload[v].assets \cap A = {}
    BY <1>6 DEF MediaInv, OwnAssets
  <2>3. QED BY <1>2, <1>4, <2>1, <2>2 DEF MediaInv, OwnAssets
<1>10. UploadsProgress'
  <2>1. \A v \in Uploads : v # u => \A a \in upload[v].assets : state'[a] = state[a]
    BY <1>6 DEF MediaInv, OwnAssets, TypeOK, UploadState
  <2>2. \A a \in A : Objects({a}) \subseteq Objects(A)
    BY DEF Objects
  <2>3. QED BY <1>2, <1>4, <1>5, <2>1, <2>2 DEF MediaInv, UploadsProgress, Unstored
<1>11. CollectedIsLost'
  BY <1>5, <1>6 DEF MediaInv, TypeOK, GcState, CollectedIsLost
<1>12. QED BY <1>7, <1>8, <1>9, <1>10, <1>11 DEF MediaInv

\* An object is stored and leaves the writes in progress.
LEMMA StoreStep ==
  ASSUME MediaInv, NEW u \in Uploads, NEW s \in UploadState,
         upload' = [upload EXCEPT ![u] = s],
         NEW w \in Objects(Assets),
         s.pc = upload[u].pc, s.assets = upload[u].assets,
         ~s.failed => ~upload[u].failed /\ Unstored(u) \subseteq s.todo \cup s.inflight \cup {w}
                      /\ blobs' = blobs \cup {w},
         s.pc = "stage" => s.todo \cup s.inflight = {} /\ ~s.failed,
         blobs' \in {blobs, blobs \cup {w}},
         faults' \in 0..MaxFaults,
         UNCHANGED <<rowVars, refVars, gc>>
  PROVE  MediaInv'
<1> USE DEF rowVars, refVars
<1>1. blobs \subseteq blobs' /\ blobs' \subseteq Objects(Assets)
  BY DEF MediaInv, TypeOK
<1>2. /\ upload' \in [Uploads -> UploadState] /\ upload'[u] = s
      /\ \A v \in Uploads : v # u => upload'[v] = upload[v]
  BY OtherUploads
<1>3. TypeOK'
  BY <1>1, <1>2 DEF MediaInv, TypeOK
<1>4. ReferencesWork' /\ AttachedIsReferenced' /\ StagedIsComplete' /\ CollectedIsLost'
  BY <1>1 DEF MediaInv, ReferencesWork, AttachedIsReferenced, StagedIsComplete, CollectedIsLost
<1>5. OwnAssets'
  BY <1>2 DEF MediaInv, OwnAssets
<1>6. UploadsProgress'
  BY <1>1, <1>2 DEF MediaInv, UploadsProgress, Unstored
<1>7. QED BY <1>3, <1>4, <1>5, <1>6 DEF MediaInv

LEMMA MarkStagedStep == ASSUME MediaInv, NEW u \in Uploads, MarkStaged(u) PROVE MediaInv'
<1> DEFINE A == StillReserved(u)
           s == [upload[u] EXCEPT !.pc = IF A = upload[u].assets THEN "done" ELSE "cleanup"]
<1>1. upload[u] \in UploadState /\ upload[u].assets \subseteq Assets
  BY DEF MediaInv, TypeOK, UploadState
<1>2. /\ s \in UploadState /\ s.pc \in {"done", "cleanup"} /\ s.assets = upload[u].assets
  BY <1>1 DEF UploadState
<1>3. upload' = [upload EXCEPT ![u] = s]
  BY DEF MarkStaged
<1> HIDE DEF s
<1>4. /\ upload' \in [Uploads -> UploadState] /\ upload'[u] = s
      /\ \A v \in Uploads : v # u => upload'[v] = upload[v]
  BY <1>2, <1>3, OtherUploads
<1>5. /\ UNCHANGED <<expired, claim, lapsed, blobs, links, retained, gc, faults>>
      /\ state' = [a \in Assets |-> IF a \in A THEN "staged" ELSE state[a]]
      /\ \A a \in A : state[a] = "uploading" /\ a \in upload[u].assets
  BY DEF MarkStaged, refVars, StillReserved
<1>6. TypeOK'
  BY <1>4, <1>5 DEF MediaInv, TypeOK
<1>7. ReferencesWork' /\ AttachedIsReferenced'
  BY <1>5 DEF MediaInv, TypeOK, ReferencesWork, AttachedIsReferenced
<1>8. StagedIsComplete'
  <2>1. \A a \in A : Objects({a}) \subseteq blobs
    BY <1>5 DEF MediaInv, MarkStaged, UploadsProgress
  <2>2. QED BY <1>5, <2>1 DEF MediaInv, StagedIsComplete
<1>9. OwnAssets'
  <2>1. \A v \in Uploads : upload'[v].assets = upload[v].assets /\ upload[v].assets \subseteq Assets
    BY <1>2, <1>4 DEF MediaInv, TypeOK, UploadState
  <2>2. \A a \in Assets : state[a] # "unborn" => state'[a] # "unborn"
    BY <1>5
  <2>3. QED BY <2>1, <2>2 DEF MediaInv, OwnAssets
<1>10. UploadsProgress'
  BY <1>2, <1>4, <1>5 DEF MediaInv, UploadsProgress, Unstored, TypeOK, UploadState
<1>11. CollectedIsLost'
  BY <1>5 DEF MediaInv, TypeOK, GcState, CollectedIsLost
<1>12. QED BY <1>6, <1>7, <1>8, <1>9, <1>10, <1>11 DEF MediaInv

\* Rows move to "deleting" or "gone"; nobody stores, refers or starts to collect.
LEMMA LoseRows ==
  ASSUME MediaInv, NEW S \in SUBSET Assets, NEW l \in {"deleting", "gone"},
         \A a \in S : state[a] \in Pending \cup {"deleting"},
         state' = [a \in Assets |-> IF a \in S THEN l ELSE state[a]],
         UNCHANGED <<blobs, refVars, upload>>
  PROVE  /\ state' \in [Assets -> {"unborn", "uploading", "staged", "attached", "deleting", "gone"}]
         /\ ReferencesWork' /\ AttachedIsReferenced' /\ StagedIsComplete'
         /\ OwnAssets' /\ UploadsProgress'
         /\ \A a \in Assets : state[a] \in {"deleting", "gone"} => state'[a] \in {"deleting", "gone"}
<1> USE DEF refVars, Pending
<1>1. state \in [Assets -> {"unborn", "uploading", "staged", "attached", "deleting", "gone"}]
  BY DEF MediaInv, TypeOK
<1>2. ReferencesWork' /\ AttachedIsReferenced'
  BY <1>1 DEF MediaInv, TypeOK, ReferencesWork, AttachedIsReferenced
<1>3. StagedIsComplete'
  BY <1>1 DEF MediaInv, StagedIsComplete
<1>4. \A u \in Uploads : upload[u].assets \subseteq Assets
  BY DEF MediaInv, TypeOK, UploadState
<1>5. OwnAssets'
  BY <1>1, <1>4 DEF MediaInv, OwnAssets
<1>6. UploadsProgress'
  BY <1>1, <1>4 DEF MediaInv, UploadsProgress, Unstored
<1>7. QED BY <1>1, <1>2, <1>3, <1>5, <1>6

LEMMA MarkDeletingStep == ASSUME MediaInv, NEW u \in Uploads, MarkDeleting(u) PROVE MediaInv'
<1> DEFINE S == {a \in upload[u].assets : state[a] \in Pending}
           s == [upload[u] EXCEPT !.pc = "failed"]
<1>1. upload[u] \in UploadState /\ upload[u].assets \subseteq Assets
  BY DEF MediaInv, TypeOK, UploadState
<1>2. s \in UploadState /\ s.pc = "failed" /\ s.assets = upload[u].assets
  BY <1>1 DEF UploadState
<1>3. upload' = [upload EXCEPT ![u] = s]
  BY DEF MarkDeleting
<1> HIDE DEF s
<1>4. /\ upload' \in [Uploads -> UploadState] /\ upload'[u] = s
      /\ \A v \in Uploads : v # u => upload'[v] = upload[v]
  BY <1>2, <1>3, OtherUploads
<1>5. /\ UNCHANGED <<blobs, links, retained, gc, faults>>
      /\ Move(S, "deleting")
      /\ state' = [a \in Assets |-> IF a \in S THEN "deleting" ELSE state[a]]
  BY DEF MarkDeleting, refVars, Move
<1>6. TypeOK'
  <2>1. /\ claim' \in [Assets -> Tokens \cup {None}] /\ lapsed' \in [Assets -> BOOLEAN]
        /\ expired' \in [Assets -> BOOLEAN]
        /\ \A a \in Assets : claim'[a] # None => state'[a] = "deleting"
    BY <1>5 DEF MediaInv, TypeOK, Move
  <2>2. state' \in [Assets -> {"unborn", "uploading", "staged", "attached", "deleting", "gone"}]
    BY <1>5 DEF MediaInv, TypeOK
  <2>3. QED BY <1>4, <1>5, <2>1, <2>2 DEF MediaInv, TypeOK
<1>7. ReferencesWork' /\ AttachedIsReferenced' /\ StagedIsComplete'
  BY <1>5 DEF MediaInv, TypeOK, ReferencesWork, AttachedIsReferenced, StagedIsComplete, Pending
<1>8. OwnAssets'
  <2>1. \A v \in Uploads : upload'[v].assets = upload[v].assets /\ upload[v].assets \subseteq Assets
    BY <1>2, <1>4 DEF MediaInv, TypeOK, UploadState
  <2>2. \A a \in Assets : state[a] # "unborn" => state'[a] # "unborn"
    BY <1>5
  <2>3. QED BY <2>1, <2>2 DEF MediaInv, OwnAssets
<1>9. UploadsProgress'
  BY <1>2, <1>4, <1>5 DEF MediaInv, UploadsProgress, Unstored, TypeOK, UploadState
<1>10. CollectedIsLost'
  BY <1>5 DEF MediaInv, TypeOK, GcState, CollectedIsLost
<1>11. QED BY <1>6, <1>7, <1>8, <1>9, <1>10 DEF MediaInv

\* A collector's record changes; its todo list gains lost assets only.
LEMMA GcOnly ==
  ASSUME MediaInv, NEW c \in Collectors, NEW s \in GcState, gc' = [gc EXCEPT ![c] = s],
         \A a \in s.todo : state[a] \in {"deleting", "gone"}, faults' \in 0..MaxFaults,
         NEW B \in SUBSET Assets, \A a \in B : state[a] \in {"deleting", "gone"},
         blobs \ Objects(B) \subseteq blobs', blobs' \subseteq blobs,
         UNCHANGED <<rowVars, refVars, upload>>
  PROVE  MediaInv'
<1> USE DEF rowVars, refVars
<1>1. TypeOK'
  BY DEF MediaInv, TypeOK
<1>2. \A a \in Assets : state[a] \notin {"deleting", "gone"} /\ Objects({a}) \subseteq blobs =>
        Objects({a}) \subseteq blobs'
  BY DEF Objects
<1>3. ReferencesWork' /\ AttachedIsReferenced' /\ StagedIsComplete'
  BY <1>2 DEF MediaInv, TypeOK, ReferencesWork, AttachedIsReferenced, StagedIsComplete
<1>4. OwnAssets'
  BY DEF MediaInv, OwnAssets
<1>5. UploadsProgress'
  <2>1. \A u \in Uploads : \A a \in upload[u].assets :
          state[a] = "uploading" /\ Objects({a}) \subseteq blobs \cup Unstored(u) =>
            Objects({a}) \subseteq blobs' \cup Unstored(u)
    BY DEF Objects
  <2>2. QED BY <2>1 DEF MediaInv, UploadsProgress, Unstored
<1>6. CollectedIsLost'
  BY DEF MediaInv, TypeOK, CollectedIsLost
<1>7. QED BY <1>1, <1>3, <1>4, <1>5, <1>6 DEF MediaInv

LEMMA ClaimStep == ASSUME MediaInv, NEW c \in Collectors, ClaimGarbage(c) PROVE MediaInv'
<1> DEFINE S == StillGarbage(c)
<1>1. gc[c] \in GcState
  BY DEF MediaInv, TypeOK
<1>2. S \in SUBSET Assets /\ \A a \in S : state[a] \in Pending \cup {"deleting"}
  BY <1>1 DEF StillGarbage, Garbage, GcState
<1>3. PICK token \in Tokens :
        /\ state' = [a \in Assets |-> IF a \in S THEN "deleting" ELSE state[a]]
        /\ claim' = [a \in Assets |-> IF a \in S THEN token ELSE claim[a]]
        /\ lapsed' = [a \in Assets |-> lapsed[a] /\ a \notin S]
        /\ gc' = [gc EXCEPT ![c] =
             IF S = {} THEN NoRun
             ELSE [NoRun EXCEPT !.pc = "delete", !.token = token, !.todo = S]]
  BY DEF ClaimGarbage
<1>4. UNCHANGED <<expired, blobs, refVars, upload, faults>>
  BY DEF ClaimGarbage
<1> HIDE DEF S
<1>5. /\ state' \in [Assets -> {"unborn", "uploading", "staged", "attached", "deleting", "gone"}]
      /\ ReferencesWork' /\ AttachedIsReferenced' /\ StagedIsComplete'
      /\ OwnAssets' /\ UploadsProgress'
      /\ \A a \in Assets : state[a] \in {"deleting", "gone"} => state'[a] \in {"deleting", "gone"}
  BY <1>2, <1>3, <1>4, LoseRows
<1> DEFINE s == IF S = {} THEN NoRun
                ELSE [NoRun EXCEPT !.pc = "delete", !.token = token, !.todo = S]
<1>6. s \in GcState /\ s.todo = S
  BY <1>2 DEF NoRun, GcState
<1>7. gc' = [gc EXCEPT ![c] = s]
  BY <1>3
<1> HIDE DEF s
<1>8. gc' \in [Collectors -> GcState] /\ gc'[c] = s
      /\ \A d \in Collectors : d # c => gc'[d] = gc[d]
  BY <1>6, <1>7 DEF MediaInv, TypeOK
<1>9. TypeOK'
  <2>1. claim' \in [Assets -> Tokens \cup {None}] /\ lapsed' \in [Assets -> BOOLEAN]
        /\ \A a \in Assets : claim'[a] # None => state'[a] = "deleting"
    BY <1>3 DEF MediaInv, TypeOK
  <2>2. QED BY <1>4, <1>5, <1>8, <2>1 DEF MediaInv, TypeOK, refVars
<1>10. CollectedIsLost'
  BY <1>2, <1>3, <1>5, <1>6, <1>8 DEF MediaInv, TypeOK, GcState, CollectedIsLost
<1>11. QED BY <1>5, <1>9, <1>10 DEF MediaInv

LEMMA FinalizeStep == ASSUME MediaInv, NEW c \in Collectors, Finalize(c) PROVE MediaInv'
<1> DEFINE S == StillClaimed(c)
<1>1. gc[c] \in GcState
  BY DEF MediaInv, TypeOK
<1>2. S \in SUBSET Assets /\ \A a \in S : state[a] \in Pending \cup {"deleting"}
  BY <1>1 DEF StillClaimed, GcState
<1>3. /\ state' = [a \in Assets |-> IF a \in S THEN "gone" ELSE state[a]]
      /\ Move(S, "gone")
      /\ gc' = [gc EXCEPT ![c] = NoRun]
      /\ UNCHANGED <<blobs, refVars, upload, faults>>
  BY DEF Finalize, Move
<1> HIDE DEF S
<1>4. /\ state' \in [Assets -> {"unborn", "uploading", "staged", "attached", "deleting", "gone"}]
      /\ ReferencesWork' /\ AttachedIsReferenced' /\ StagedIsComplete'
      /\ OwnAssets' /\ UploadsProgress'
      /\ \A a \in Assets : state[a] \in {"deleting", "gone"} => state'[a] \in {"deleting", "gone"}
  BY <1>2, <1>3, LoseRows
<1>5. NoRun \in GcState /\ NoRun.todo = {}
  BY DEF NoRun, GcState
<1>6. TypeOK'
  <2>1. claim' \in [Assets -> Tokens \cup {None}] /\ lapsed' \in [Assets -> BOOLEAN]
        /\ expired' \in [Assets -> BOOLEAN]
        /\ \A a \in Assets : claim'[a] # None => state'[a] = "deleting"
    BY <1>3 DEF MediaInv, TypeOK, Move
  <2>2. QED BY <1>3, <1>4, <1>5, <2>1 DEF MediaInv, TypeOK, refVars
<1>7. CollectedIsLost'
  BY <1>3, <1>4, <1>5 DEF MediaInv, TypeOK, GcState, CollectedIsLost
<1>8. QED BY <1>4, <1>6, <1>7 DEF MediaInv

------------------------------------------------------------------------------
LEMMA FaultType == TypeOK /\ (Fault \/ UNCHANGED faults) => faults' \in 0..MaxFaults
BY MediaAssumption DEF TypeOK, Fault

LEMMA MediaStep == MediaInv /\ [Next]_vars => MediaInv'
<1> SUFFICES ASSUME MediaInv, [Next]_vars PROVE MediaInv'
  OBVIOUS
<1>1. /\ upload \in [Uploads -> UploadState] /\ gc \in [Collectors -> GcState]
      /\ blobs \subseteq Objects(Assets) /\ faults \in 0..MaxFaults
      /\ links \subseteq Assets \X Targets /\ retained \subseteq Assets \X Articles
      /\ TypeOK
  BY DEF MediaInv, TypeOK
<1>2. ASSUME NEW u \in Uploads, StartWrite(u) PROVE MediaInv'
  <2>1. PICK w \in upload[u].todo :
          upload' = [upload EXCEPT ![u].todo = @ \ {w}, ![u].inflight = @ \cup {w}]
    BY <1>2 DEF StartWrite
  <2> DEFINE s == [upload[u] EXCEPT !.todo = @ \ {w}, !.inflight = @ \cup {w}]
  <2>2. /\ s \in UploadState /\ s.pc = "writing" /\ s.failed = upload[u].failed
        /\ s.assets = upload[u].assets /\ Unstored(u) \subseteq s.todo \cup s.inflight
    BY <1>1, <1>2, <2>1 DEF StartWrite, UploadState, Unstored
  <2>3. upload' = [upload EXCEPT ![u] = s]
    BY <2>1
  <2> HIDE DEF s
  <2>4. UNCHANGED <<rowVars, blobs, refVars, gc>> /\ upload[u].pc = "writing"
        /\ faults' \in 0..MaxFaults
    BY <1>1, <1>2 DEF StartWrite
  <2>5. QED BY <2>2, <2>3, <2>4, UploadOnly
<1>3. ASSUME NEW u \in Uploads, WriteDone(u) \/ WriteFails(u) PROVE MediaInv'
  <2>1. PICK w \in upload[u].inflight, f \in BOOLEAN :
          /\ blobs' \in {blobs, blobs \cup {w}}
          /\ ~f => blobs' = blobs \cup {w}
          /\ upload' = [upload EXCEPT ![u] =
               [upload[u] EXCEPT !.inflight = @ \ {w}, !.failed = upload[u].failed \/ f]]
    <3>1. CASE WriteDone(u)
      <4>1. PICK w \in upload[u].inflight :
              /\ blobs' = blobs \cup {w}
              /\ upload' = [upload EXCEPT ![u].inflight = @ \ {w}]
        BY <3>1 DEF WriteDone
      <4>2. [upload[u] EXCEPT !.inflight = @ \ {w}, !.failed = upload[u].failed \/ FALSE]
              = [upload[u] EXCEPT !.inflight = @ \ {w}]
        BY <1>1 DEF UploadState
      <4>3. QED BY <4>1, <4>2
    <3>2. CASE WriteFails(u)
      <4>1. PICK w \in upload[u].inflight, stored \in BOOLEAN :
              /\ blobs' = IF stored THEN blobs \cup {w} ELSE blobs
              /\ upload' = [upload EXCEPT ![u].inflight = @ \ {w}, ![u].failed = TRUE]
        BY <3>2 DEF WriteFails
      <4>2. [upload[u] EXCEPT !.inflight = @ \ {w}, !.failed = upload[u].failed \/ TRUE]
              = [upload[u] EXCEPT !.inflight = @ \ {w}, !.failed = TRUE]
        BY <1>1 DEF UploadState
      <4>3. QED BY <4>1, <4>2
    <3>3. QED BY <1>3, <3>1, <3>2
  <2> DEFINE s == [upload[u] EXCEPT !.inflight = @ \ {w}, !.failed = upload[u].failed \/ f]
  <2>2. upload[u] \in UploadState /\ w \in Objects(Assets)
    BY <1>1 DEF UploadState
  <2>3. /\ s.pc = upload[u].pc /\ s.assets = upload[u].assets
        /\ s.todo = upload[u].todo /\ s.inflight = upload[u].inflight \ {w}
        /\ s.failed = (upload[u].failed \/ f)
    BY <2>2 DEF UploadState
  <2>4. s \in UploadState
    <3>1. (upload[u].failed \/ f) \in BOOLEAN
      BY <2>2 DEF UploadState
    <3>2. QED BY <2>2, <3>1 DEF UploadState
  <2>5. upload' = [upload EXCEPT ![u] = s]
    BY <2>1
  <2> HIDE DEF s
  <2>6. upload[u].pc # "stage"
    BY <2>1 DEF MediaInv, UploadsProgress, Unstored
  <2>7. UNCHANGED <<rowVars, refVars, gc>> /\ faults' \in 0..MaxFaults
    BY <1>1, <1>3, FaultType DEF WriteDone, WriteFails
  <2>8. ~s.failed => /\ ~upload[u].failed /\ blobs' = blobs \cup {w}
                     /\ Unstored(u) \subseteq s.todo \cup s.inflight \cup {w}
    BY <2>1, <2>3 DEF Unstored
  <2>9. QED BY <2>1, <2>2, <2>3, <2>4, <2>5, <2>6, <2>7, <2>8, StoreStep
<1>4. ASSUME NEW u \in Uploads, WritesSettle(u) PROVE MediaInv'
  <2> DEFINE s == [upload[u] EXCEPT !.pc = IF upload[u].failed THEN "cleanup" ELSE "stage"]
  <2>1. /\ s \in UploadState /\ s.assets = upload[u].assets /\ s.failed = upload[u].failed
        /\ s.todo = upload[u].todo /\ s.inflight = upload[u].inflight
        /\ s.pc = IF upload[u].failed THEN "cleanup" ELSE "stage"
    BY <1>1 DEF UploadState
  <2>2. /\ upload' = [upload EXCEPT ![u] = s]
        /\ UNCHANGED <<rowVars, blobs, refVars, gc>>
        /\ upload[u].pc = "writing" /\ upload[u].inflight = {}
        /\ upload[u].failed \/ upload[u].todo = {}
        /\ faults' \in 0..MaxFaults
    BY <1>1, <1>4 DEF WritesSettle, Quiet
  <2> HIDE DEF s
  <2>3. s.pc \in {"writing", "stage"} /\ ~s.failed =>
           /\ upload[u].pc \in {"writing", "stage"} /\ ~upload[u].failed
           /\ Unstored(u) \subseteq s.todo \cup s.inflight
    BY <2>1, <2>2 DEF Unstored
  <2>4. s.pc = "stage" => s.todo \cup s.inflight = {} /\ ~s.failed
    BY <2>1, <2>2
  <2>5. QED BY <2>1, <2>2, <2>3, <2>4, UploadOnly
<1>5. ASSUME NEW u \in Uploads, UploadFault(u) \/ WriteLost(u) PROVE MediaInv'
  <2>1. PICK s \in UploadState :
          /\ upload' = [upload EXCEPT ![u] = s]
          /\ s.pc \in {"cleanup", "failed"} /\ s.assets = upload[u].assets
    <3>1. CASE UploadFault(u)
      <4>1. CASE upload' = [upload EXCEPT ![u].pc = "cleanup"]
        <5>1. [upload[u] EXCEPT !.pc = "cleanup"] \in UploadState
          BY <1>1 DEF UploadState
        <5>2. QED BY <1>1, <4>1, <5>1 DEF UploadState
      <4>2. CASE upload' = [upload EXCEPT ![u].pc = "failed", ![u].todo = {}]
        <5>1. [upload[u] EXCEPT !.pc = "failed", !.todo = {}] \in UploadState
          BY <1>1 DEF UploadState
        <5>2. QED BY <1>1, <4>2, <5>1 DEF UploadState
      <4>3. QED BY <3>1, <4>1, <4>2 DEF UploadFault
    <3>2. CASE WriteLost(u)
      <4>1. PICK w : upload' = [upload EXCEPT ![u].inflight = @ \ {w}]
        BY <3>2 DEF WriteLost
      <4>2. [upload[u] EXCEPT !.inflight = @ \ {w}] \in UploadState
        BY <1>1 DEF UploadState
      <4>3. QED BY <1>1, <3>2, <4>1, <4>2 DEF WriteLost, UploadState
    <3>3. QED BY <1>5, <3>1, <3>2
  <2>2. UNCHANGED <<rowVars, blobs, refVars, gc>> /\ faults' \in 0..MaxFaults
    BY <1>1, <1>5, FaultType DEF UploadFault, WriteLost
  <2>3. QED BY <2>1, <2>2, UploadOnly
<1>6. ASSUME NEW t \in Entities, ReplaceLinks(t) PROVE MediaInv'
  <2>1. PICK A \in SUBSET (Assets \ WikiImages) :
          Refer(A, {l \in links : l[2] # t} \cup (A \X {t}), retained)
    BY <1>6 DEF ReplaceLinks
  <2> DEFINE L == {l \in links : l[2] # t} \cup (A \X {t})
  <2>2. /\ L \in SUBSET (Assets \X Targets) /\ retained \in SUBSET (Assets \X Articles)
        /\ A \in SUBSET Assets /\ t \in Targets
        /\ L \cup retained \subseteq links \cup retained \cup (A \X {t})
        /\ A \X {t} \subseteq L \cup retained
    BY <1>1 DEF Targets
  <2> HIDE DEF L
  <2>3. QED BY <2>1, <2>2, ReferStep DEF L
<1>7. ASSUME NEW t \in Articles, SaveArticle(t) PROVE MediaInv'
  <2>1. PICK A \in SUBSET WikiImages :
          Refer(A, {l \in links : l[2] # t} \cup (A \X {t}), retained \cup (A \X {t}))
    BY <1>7 DEF SaveArticle
  <2> DEFINE L == {l \in links : l[2] # t} \cup (A \X {t})
             R == retained \cup (A \X {t})
  <2>2. /\ L \in SUBSET (Assets \X Targets) /\ R \in SUBSET (Assets \X Articles)
        /\ A \in SUBSET Assets /\ t \in Targets
        /\ L \cup R \subseteq links \cup retained \cup (A \X {t})
        /\ A \X {t} \subseteq L \cup R
    BY <1>1, MediaAssumption DEF Targets
  <2> HIDE DEF L, R
  <2>3. QED BY <2>1, <2>2, ReferStep DEF L, R
<1>8. ASSUME NEW t \in Articles, EraseArticle(t) PROVE MediaInv'
  <2> DEFINE L == {l \in links : l[2] # t}
             R == {r \in retained : r[2] # t}
             A == {}
  <2>1. Refer(A, L, R)
    BY <1>8 DEF EraseArticle
  <2>2. /\ L \in SUBSET (Assets \X Targets) /\ R \in SUBSET (Assets \X Articles)
        /\ A \in SUBSET Assets /\ t \in Targets
        /\ L \cup R \subseteq links \cup retained \cup (A \X {t})
        /\ A \X {t} \subseteq L \cup R
    BY <1>1 DEF Targets
  <2> HIDE DEF L, R, A
  <2>3. QED BY <2>1, <2>2, ReferStep
<1>9. ASSUME NEW a \in Assets, Expire(a) \/ Lapse(a) PROVE MediaInv'
  <2>1. TypeOK' /\ UNCHANGED <<state, blobs, refVars, upload, gc>>
    BY <1>1, <1>9 DEF Expire, Lapse, TypeOK, refVars
  <2>2. QED
    BY <2>1 DEF MediaInv, ReferencesWork, AttachedIsReferenced, StagedIsComplete, OwnAssets,
                UploadsProgress, Unstored, CollectedIsLost, refVars
<1>10. ASSUME NEW c \in Collectors, SelectGarbage(c) PROVE MediaInv'
  <2>1. PICK S \in SUBSET Assets :
          gc' = [gc EXCEPT ![c] = [NoRun EXCEPT !.pc = "claim", !.candidates = S]]
    BY <1>10 DEF SelectGarbage
  <2> DEFINE s == [NoRun EXCEPT !.pc = "claim", !.candidates = S]
             B == {}
  <2>2. s \in GcState /\ s.todo = {}
    BY DEF NoRun, GcState
  <2>3. UNCHANGED <<rowVars, blobs, refVars, upload, faults>>
    BY <1>10 DEF SelectGarbage
  <2> HIDE DEF s
  <2>4. B \in SUBSET Assets /\ \A a \in B : state[a] \in {"deleting", "gone"}
        /\ blobs \ Objects(B) \subseteq blobs' /\ blobs' \subseteq blobs
    BY <2>3
  <2>5. gc' = [gc EXCEPT ![c] = s]
    BY <2>1 DEF s
  <2> HIDE DEF B
  <2>6. QED BY <1>1, <2>2, <2>3, <2>4, <2>5, GcOnly
<1>11. ASSUME NEW c \in Collectors, DeleteBlobs(c) \/ DeleteFails(c) PROVE MediaInv'
  <2>1. PICK a \in gc[c].todo, d \in SUBSET Assets :
          /\ gc' = [gc EXCEPT ![c] = [gc[c] EXCEPT !.todo = @ \ {a}, !.deleted = d]]
          /\ blobs \ Objects({a}) \subseteq blobs' /\ blobs' \subseteq blobs
    <3>1. CASE DeleteBlobs(c)
      <4>1. PICK a \in gc[c].todo :
              /\ blobs' = blobs \ Objects({a})
              /\ gc' = [gc EXCEPT ![c].todo = @ \ {a}, ![c].deleted = @ \cup {a}]
        BY <3>1 DEF DeleteBlobs
      <4> DEFINE d == gc[c].deleted \cup {a}
      <4>2. d \in SUBSET Assets
        BY <1>1 DEF GcState
      <4>3. gc' = [gc EXCEPT ![c] = [gc[c] EXCEPT !.todo = @ \ {a}, !.deleted = d]]
        BY <4>1
      <4>4. blobs \ Objects({a}) \subseteq blobs' /\ blobs' \subseteq blobs
        BY <4>1
      <4> HIDE DEF d
      <4>5. QED BY <4>2, <4>3, <4>4
    <3>2. CASE DeleteFails(c)
      <4>1. PICK a \in gc[c].todo, lost \in SUBSET Variants :
              /\ blobs' = blobs \ ({a} \X lost)
              /\ gc' = [gc EXCEPT ![c].todo = @ \ {a}]
        BY <3>2 DEF DeleteFails
      <4>2. ({a} \X lost) \subseteq Objects({a}) /\ gc[c].deleted \in SUBSET Assets
        BY <1>1 DEF Objects, GcState
      <4>3. [gc[c] EXCEPT !.todo = @ \ {a}]
              = [gc[c] EXCEPT !.todo = @ \ {a}, !.deleted = gc[c].deleted]
        BY <1>1 DEF GcState
      <4>4. gc' = [gc EXCEPT ![c] = [gc[c] EXCEPT !.todo = @ \ {a}, !.deleted = gc[c].deleted]]
        BY <4>1, <4>3
      <4>5. QED BY <4>1, <4>2, <4>4
    <3>3. QED BY <1>11, <3>1, <3>2
  <2> DEFINE s == [gc[c] EXCEPT !.todo = @ \ {a}, !.deleted = d]
             B == {a}
  <2>2. s \in GcState /\ s.todo = gc[c].todo \ {a} /\ B \in SUBSET Assets
    BY <1>1 DEF GcState
  <2>3. /\ \A b \in gc[c].todo : state[b] \in {"deleting", "gone"}
    BY DEF MediaInv, CollectedIsLost
  <2>4. UNCHANGED <<rowVars, refVars, upload>> /\ faults' \in 0..MaxFaults
    BY <1>1, <1>11, FaultType DEF DeleteBlobs, DeleteFails
  <2>5. gc' = [gc EXCEPT ![c] = s] /\ blobs \ Objects(B) \subseteq blobs' /\ blobs' \subseteq blobs
    BY <2>1
  <2>6. \A b \in B : state[b] \in {"deleting", "gone"}
    BY <2>3
  <2> HIDE DEF s, B
  <2>7. QED BY <2>2, <2>3, <2>4, <2>5, <2>6, GcOnly
<1>12. ASSUME NEW c \in Collectors, CollectorFault(c) PROVE MediaInv'
  <2> DEFINE B == {}
  <2>1. NoRun \in GcState /\ NoRun.todo = {}
    BY DEF NoRun, GcState
  <2>2. gc' = [gc EXCEPT ![c] = NoRun] /\ UNCHANGED <<rowVars, blobs, refVars, upload>>
        /\ faults' \in 0..MaxFaults
    BY <1>1, <1>12, FaultType DEF CollectorFault
  <2>3. B \in SUBSET Assets /\ \A a \in B : state[a] \in {"deleting", "gone"}
        /\ blobs \ Objects(B) \subseteq blobs' /\ blobs' \subseteq blobs
    BY <2>2
  <2> HIDE DEF B
  <2>4. QED BY <2>1, <2>2, <2>3, GcOnly
<1>13. CASE UNCHANGED vars
  BY <1>13
  DEF vars, rowVars, refVars, MediaInv, TypeOK, ReferencesWork, AttachedIsReferenced,
      StagedIsComplete, OwnAssets, UploadsProgress, Unstored, CollectedIsLost
<1>14. QED
  BY <1>2, <1>3, <1>4, <1>5, <1>6, <1>7, <1>8, <1>9, <1>10, <1>11, <1>12, <1>13,
     ReserveStep, MarkStagedStep, MarkDeletingStep, ClaimStep, FinalizeStep
  DEF Next, UploadStep, CollectorStep

LEMMA MediaStart == Init => MediaInv
<1> SUFFICES ASSUME Init PROVE MediaInv
  OBVIOUS
<1>1. NoUpload \in UploadState /\ NoUpload.pc = "idle" /\ NoUpload.assets = {}
      /\ NoRun \in GcState /\ NoRun.todo = {}
  BY DEF NoUpload, UploadState, NoRun, GcState
<1>2. TypeOK
  BY <1>1, MediaAssumption DEF Init, TypeOK
<1>3. QED
  BY <1>1, <1>2 DEF Init, MediaInv, ReferencesWork, AttachedIsReferenced, StagedIsComplete,
                    OwnAssets, UploadsProgress, CollectedIsLost

\* The inductive invariant holds in every reachable state, however long uploads
\* and collections take and wherever they die.
THEOREM MediaInvariant == Spec => []MediaInv
BY MediaStart, MediaStep, PTL DEF Spec

\* Types, and the table's CHECK on deletion claims.
THEOREM MediaTypes == Spec => []TypeOK
<1>1. MediaInv => TypeOK
  BY DEF MediaInv
<1>2. QED BY <1>1, MediaInvariant, PTL

\* What is referred to keeps its row and all of its objects.
THEOREM ReferencesAreServed == Spec => []ReferencesWork
<1>1. MediaInv => ReferencesWork
  BY DEF MediaInv
<1>2. QED BY <1>1, MediaInvariant, PTL

\* The reference triggers of links and revisions leave no attached asset behind.
THEOREM NoAttachedLeak == Spec => []AttachedIsReferenced
<1>1. MediaInv => AttachedIsReferenced
  BY DEF MediaInv
<1>2. QED BY <1>1, MediaInvariant, PTL
------------------------------------------------------------------------------
\* No object without its row.  While uploads end within their reservation, a row
\* that an upload may still write an object for is not collected.

Busy(u) == upload[u].pc = "writing" \/ upload[u].inflight # {}

OwnObjects(u) == upload[u].todo \cup upload[u].inflight \subseteq Objects(upload[u].assets)
Kept(u) == Busy(u) => \A a \in upload[u].assets : state[a] = "uploading" /\ ~expired[a]
Settled(u) == upload[u].pc \in {"stage", "cleanup", "done"} => upload[u].inflight = {}

\* What a collector deleted under a claim it still holds is deleted for good.
Emptied(c) ==
  /\ gc[c].pc # "delete" => gc[c].deleted = {}
  /\ gc[c].pc = "delete" => gc[c].token # None
  /\ \A a \in gc[c].deleted :
       state[a] = "deleting" /\ claim[a] = gc[c].token => Objects({a}) \cap blobs = {}

OrphanInv ==
  /\ MediaInv
  /\ \A u \in Uploads : OwnObjects(u) /\ Kept(u) /\ Settled(u)
  /\ \A c \in Collectors : Emptied(c)
  /\ NoOrphanBlobs

LEMMA MediaShapes ==
  ASSUME MediaInv
  PROVE  /\ state \in [Assets -> {"unborn", "uploading", "staged", "attached", "deleting", "gone"}]
         /\ expired \in [Assets -> BOOLEAN]
         /\ claim \in [Assets -> Tokens \cup {None}]
         /\ \A a \in Assets : claim[a] # None => state[a] = "deleting"
         /\ upload \in [Uploads -> UploadState] /\ gc \in [Collectors -> GcState]
         /\ \A u \in Uploads : upload[u].assets \subseteq Assets
         /\ \A c \in Collectors : gc[c].deleted \subseteq Assets /\ gc[c].todo \subseteq Assets
                                  /\ gc[c].candidates \subseteq Assets
         /\ \A b \in blobs : b[1] \in Assets
         /\ \A u, v \in Uploads : u # v => upload[u].assets \cap upload[v].assets = {}
         /\ \A u \in Uploads : \A a \in upload[u].assets : state[a] # "unborn"
         /\ \A r \in links \cup retained : r[1] \in Assets /\ state[r[1]] = "attached"
BY DEF MediaInv, TypeOK, UploadState, GcState, OwnAssets, ReferencesWork, Objects, Targets

LEMMA InObjects == \A A, w : w \in Objects(A) => w[1] \in A
BY DEF Objects

LEMMA ObjectsOf == \A a, w : w \in Objects({a}) => w[1] = a
BY DEF Objects

\* A step of an upload that leaves the rows: it stores what it was writing.
LEMMA WritingStep ==
  ASSUME OrphanInv, MediaInv', NEW u \in Uploads, NEW s, upload' = [upload EXCEPT ![u] = s],
         s.assets = upload[u].assets,
         s.todo \cup s.inflight \subseteq upload[u].todo \cup upload[u].inflight,
         s.pc = "writing" \/ s.inflight # {} => Busy(u),
         s.pc \in {"stage", "cleanup", "done"} => s.inflight = {},
         blobs' \subseteq blobs \cup upload[u].inflight,
         UNCHANGED <<rowVars, gc>>
  PROVE  OrphanInv'
<1>1. upload'[u] = s /\ \A v \in Uploads : v # u => upload'[v] = upload[v]
  BY MediaShapes DEF OrphanInv
<1>2. UNCHANGED <<state, expired, claim, gc>>
  BY DEF rowVars
<1>3. ASSUME NEW v \in Uploads PROVE OwnObjects(v)' /\ Kept(v)' /\ Settled(v)'
  <2>1. CASE v = u
    BY <1>1, <1>2, <2>1 DEF OrphanInv, OwnObjects, Kept, Settled, Busy
  <2>2. CASE v # u
    BY <1>1, <1>2, <2>2 DEF OrphanInv, OwnObjects, Kept, Settled, Busy
  <2>3. QED BY <2>1, <2>2
<1>4. \A w \in blobs' : w \in blobs \/ state[w[1]] = "uploading"
  <2>1. \A w \in upload[u].inflight : w[1] \in upload[u].assets
    BY InObjects DEF OrphanInv, OwnObjects
  <2>2. upload[u].inflight # {} => \A a \in upload[u].assets : state[a] = "uploading"
    BY DEF OrphanInv, Kept, Busy
  <2>3. QED BY <2>1, <2>2
<1>5. NoOrphanBlobs'
  BY <1>2, <1>4 DEF OrphanInv, NoOrphanBlobs
<1>6. \A c \in Collectors : Emptied(c)'
  <2> SUFFICES ASSUME NEW c \in Collectors, NEW a \in gc[c].deleted,
                      state[a] = "deleting", claim[a] = gc[c].token, NEW w \in blobs',
                      w \in Objects({a})
               PROVE  FALSE
    BY <1>2 DEF OrphanInv, Emptied
  <2>1. w \notin blobs
    BY DEF OrphanInv, Emptied
  <2>2. QED BY <1>4, <2>1, ObjectsOf
<1>7. QED BY <1>3, <1>5, <1>6 DEF OrphanInv

\* A step of the rows alone, or of the rows and one upload that is not writing: what
\* is being written is kept, what is claimed stays so or loses its claim.
LEMMA RowsStep ==
  ASSUME OrphanInv, MediaInv', UNCHANGED <<blobs, gc>>,
         \A u \in Uploads : OwnObjects(u)' /\ Kept(u)' /\ Settled(u)',
         \A a \in Assets : \/ claim'[a] = claim[a] /\ (state'[a] = "deleting" => state[a] = "deleting")
                           \/ claim'[a] = None,
         \A a \in Assets : state'[a] \in {"unborn", "gone"} => state[a] \in {"unborn", "gone"}
  PROVE  OrphanInv'
<1>1. NoOrphanBlobs'
  BY MediaShapes DEF OrphanInv, NoOrphanBlobs
<1>2. ASSUME NEW c \in Collectors PROVE Emptied(c)'
  <2>1. Emptied(c) /\ gc[c].deleted \subseteq Assets /\ gc[c] \in GcState
    BY MediaShapes DEF OrphanInv
  <2>2. gc[c].deleted # {} => gc[c].token # None
    BY <2>1 DEF Emptied
  <2>3. QED BY <2>1, <2>2 DEF Emptied
<1>3. QED BY <1>1, <1>2 DEF OrphanInv

LEMMA ReserveKeeps ==
  ASSUME OrphanInv, MediaInv', NEW u \in Uploads, Reserve(u) PROVE OrphanInv'
<1>1. PICK A \in SUBSET {a \in Assets : state[a] = "unborn"} :
        /\ Move(A, "uploading")
        /\ upload' = [upload EXCEPT ![u] =
             [NoUpload EXCEPT !.pc = "writing", !.assets = A, !.todo = Objects(A)]]
  BY DEF Reserve
<1>2. /\ upload'[u].assets = A /\ upload'[u].todo = Objects(A) /\ upload'[u].inflight = {}
      /\ upload'[u].pc = "writing"
      /\ \A v \in Uploads : v # u => upload'[v] = upload[v]
  BY <1>1, MediaShapes DEF OrphanInv, NoUpload
<1>3. /\ \A a \in A : state'[a] = "uploading" /\ ~expired'[a]
      /\ \A a \in Assets \ A : state'[a] = state[a] /\ expired'[a] = expired[a]
                               /\ claim'[a] = claim[a]
      /\ \A a \in A : claim'[a] = None
  BY <1>1 DEF Move
<1>4. ASSUME NEW v \in Uploads PROVE OwnObjects(v)' /\ Kept(v)' /\ Settled(v)'
  <2>1. CASE v = u
    BY <1>2, <1>3, <2>1 DEF OwnObjects, Kept, Settled
  <2>2. CASE v # u
    <3>1. upload[v].assets \subseteq Assets \ A
      BY MediaShapes DEF OrphanInv
    <3>2. QED BY <1>2, <1>3, <2>2, <3>1 DEF OrphanInv, OwnObjects, Kept, Settled, Busy
  <2>3. QED BY <2>1, <2>2
<1>5. UNCHANGED <<blobs, gc>>
  BY DEF Reserve
<1>6. \A a \in Assets : state'[a] \in {"unborn", "gone"} => state[a] \in {"unborn", "gone"}
  BY <1>3
<1>7. QED BY <1>3, <1>4, <1>5, <1>6, RowsStep

\* markStaged and markDeleting move the rows of an upload that has written all.
LEMMA SettledStep ==
  ASSUME OrphanInv, MediaInv', NEW u \in Uploads, upload[u].pc \in {"stage", "cleanup"},
         NEW s, upload' = [upload EXCEPT ![u] = s], s.pc \in {"done", "cleanup", "failed"},
         s.assets = upload[u].assets, s.todo = upload[u].todo, s.inflight = upload[u].inflight,
         \A a \in Assets \ upload[u].assets :
           state'[a] = state[a] /\ expired'[a] = expired[a] /\ claim'[a] = claim[a],
         \A a \in upload[u].assets :
           \/ state'[a] \in {state[a], "staged"} /\ claim'[a] = claim[a]
           \/ state'[a] = "deleting" /\ claim'[a] = None,
         UNCHANGED <<blobs, gc>>
  PROVE  OrphanInv'
<1>1. upload'[u] = s /\ \A v \in Uploads : v # u => upload'[v] = upload[v]
  BY MediaShapes DEF OrphanInv
<1>2. upload[u].inflight = {}
  BY DEF OrphanInv, Settled
<1>3. /\ upload'[u].assets = upload[u].assets /\ upload'[u].todo = upload[u].todo
      /\ upload'[u].inflight = {} /\ upload'[u].pc \in {"done", "cleanup", "failed"}
  BY <1>1, <1>2
<1>4. ASSUME NEW v \in Uploads PROVE OwnObjects(v)' /\ Kept(v)' /\ Settled(v)'
  <2>1. CASE v = u
    BY <1>2, <1>3, <2>1 DEF OrphanInv, OwnObjects, Kept, Settled, Busy
  <2>2. CASE v # u
    <3>1. upload[v].assets \subseteq Assets \ upload[u].assets
      BY <2>2, MediaShapes DEF OrphanInv
    <3>2. QED BY <1>1, <2>2, <3>1 DEF OrphanInv, OwnObjects, Kept, Settled, Busy
  <2>3. QED BY <2>1, <2>2
<1>5. \A a \in Assets : \/ claim'[a] = claim[a] /\ (state'[a] = "deleting" => state[a] = "deleting")
                        \/ claim'[a] = None
  OBVIOUS
<1>6. \A a \in Assets : state'[a] \in {"unborn", "gone"} => state[a] \in {"unborn", "gone"}
  OBVIOUS
<1>7. QED BY <1>4, <1>5, <1>6, RowsStep
LEMMA MarkStagedKeeps ==
  ASSUME OrphanInv, MediaInv', NEW u \in Uploads, MarkStaged(u) PROVE OrphanInv'
<1> DEFINE A == StillReserved(u)
           s == [upload[u] EXCEPT !.pc = IF A = upload[u].assets THEN "done" ELSE "cleanup"]
<1>1. /\ upload[u].pc = "stage" /\ upload' = [upload EXCEPT ![u] = s]
      /\ state' = [a \in Assets |-> IF a \in A THEN "staged" ELSE state[a]]
      /\ UNCHANGED <<expired, claim, blobs, gc>>
  BY DEF MarkStaged
<1>2. A \subseteq upload[u].assets /\ upload[u].assets \subseteq Assets
  BY MediaShapes DEF OrphanInv, StillReserved
<1>3. /\ s.pc \in {"done", "cleanup"} /\ s.assets = upload[u].assets
      /\ s.todo = upload[u].todo /\ s.inflight = upload[u].inflight
  BY MediaShapes DEF OrphanInv, UploadState
<1> HIDE DEF s, A
<1>4. /\ \A a \in Assets \ upload[u].assets : state'[a] = state[a]
      /\ \A a \in upload[u].assets : state'[a] = state[a] \/ state'[a] = "staged"
  BY <1>1, <1>2
<1>5. upload[u].pc \in {"stage", "cleanup"} /\ s.pc \in {"done", "cleanup", "failed"}
  BY <1>1, <1>3
<1>6. \A a \in Assets \ upload[u].assets :
       state'[a] = state[a] /\ expired'[a] = expired[a] /\ claim'[a] = claim[a]
  BY <1>1, <1>2, <1>4
<1>7. \A a \in upload[u].assets :
       \/ state'[a] \in {state[a], "staged"} /\ claim'[a] = claim[a]
       \/ state'[a] = "deleting" /\ claim'[a] = None
  BY <1>1, <1>2, <1>4
<1>8. upload' = [upload EXCEPT ![u] = s] /\ UNCHANGED <<blobs, gc>>
  BY <1>1
<1>9. QED BY <1>3, <1>5, <1>6, <1>7, <1>8, SettledStep

LEMMA MarkDeletingKeeps ==
  ASSUME OrphanInv, MediaInv', NEW u \in Uploads, MarkDeleting(u) PROVE OrphanInv'
<1> DEFINE A == {a \in upload[u].assets : state[a] \in Pending}
           s == [upload[u] EXCEPT !.pc = "failed"]
<1>1. /\ upload[u].pc = "cleanup" /\ upload' = [upload EXCEPT ![u] = s]
      /\ Move(A, "deleting") /\ UNCHANGED <<blobs, gc>>
  BY DEF MarkDeleting
<1>2. A \subseteq upload[u].assets /\ upload[u].assets \subseteq Assets
  BY MediaShapes DEF OrphanInv
<1>3. /\ s.pc = "failed" /\ s.assets = upload[u].assets
      /\ s.todo = upload[u].todo /\ s.inflight = upload[u].inflight
  BY MediaShapes DEF OrphanInv, UploadState
<1> HIDE DEF s, A
<1>4. /\ \A a \in A : state'[a] = "deleting" /\ claim'[a] = None
      /\ \A a \in Assets \ A : state'[a] = state[a] /\ claim'[a] = claim[a]
                               /\ expired'[a] = expired[a]
  BY <1>1, <1>2 DEF Move
<1>5. upload[u].pc \in {"stage", "cleanup"} /\ s.pc \in {"done", "cleanup", "failed"}
  BY <1>1, <1>3
<1>6. \A a \in Assets \ upload[u].assets :
       state'[a] = state[a] /\ expired'[a] = expired[a] /\ claim'[a] = claim[a]
  BY <1>1, <1>2, <1>4
<1>7. \A a \in upload[u].assets :
       \/ state'[a] \in {state[a], "staged"} /\ claim'[a] = claim[a]
       \/ state'[a] = "deleting" /\ claim'[a] = None
  BY <1>1, <1>2, <1>4
<1>8. upload' = [upload EXCEPT ![u] = s] /\ UNCHANGED <<blobs, gc>>
  BY <1>1
<1>9. QED BY <1>3, <1>5, <1>6, <1>7, <1>8, SettledStep

LEMMA ReferKeeps ==
  ASSUME OrphanInv, MediaInv', NEW A \in SUBSET Assets, NEW L, NEW R, Refer(A, L, R)
  PROVE  OrphanInv'
<1> DEFINE D == Dropped(L, R)
<1>1. /\ state' = [a \in Assets |-> IF a \in A THEN "attached"
                                    ELSE IF a \in D THEN "deleting" ELSE state[a]]
      /\ expired' = [a \in Assets |-> expired[a] /\ a \notin A \cup D]
      /\ claim' = [a \in Assets |-> IF a \in A \cup D THEN None ELSE claim[a]]
      /\ UNCHANGED <<blobs, upload, gc>>
      /\ \A a \in A : state[a] \in {"staged", "attached"}
  BY DEF Refer, Attachable
<1>2. \A a \in D : state[a] = "attached"
  BY MediaShapes DEF OrphanInv, Dropped
<1> HIDE DEF D
<1>3. \A a \in Assets : state[a] = "uploading" => state'[a] = "uploading" /\ expired'[a] = expired[a]
  BY <1>1, <1>2, MediaShapes DEF OrphanInv
<1>4. ASSUME NEW v \in Uploads PROVE OwnObjects(v)' /\ Kept(v)' /\ Settled(v)'
  <2>1. upload[v].assets \subseteq Assets
    BY MediaShapes DEF OrphanInv
  <2>2. QED BY <1>1, <1>3, <2>1 DEF OrphanInv, OwnObjects, Kept, Settled, Busy
<1>5. \A a \in Assets : \/ claim'[a] = claim[a] /\ (state'[a] = "deleting" => state[a] = "deleting")
                        \/ claim'[a] = None
  BY <1>1
<1>6. \A a \in Assets : state'[a] \in {"unborn", "gone"} => state[a] \in {"unborn", "gone"}
  BY <1>1
<1>7. QED BY <1>1, <1>4, <1>5, <1>6, RowsStep

LEMMA ExpireKeeps ==
  ASSUME SlowUploads = FALSE, OrphanInv, MediaInv', NEW b \in Assets, Expire(b)
  PROVE  OrphanInv'
<1>1. /\ \A u \in Uploads : b \in upload[u].assets => Ended(u)
      /\ expired' = [expired EXCEPT ![b] = TRUE]
      /\ UNCHANGED <<state, claim, blobs, upload, gc>>
  BY DEF Expire
<1>2. ASSUME NEW v \in Uploads PROVE OwnObjects(v)' /\ Kept(v)' /\ Settled(v)'
  <2>1. Busy(v) => b \notin upload[v].assets
    BY <1>1 DEF Ended, Busy
  <2>2. upload[v].assets \subseteq Assets
    BY MediaShapes DEF OrphanInv
  <2>3. \A a \in Assets : a # b => expired'[a] = expired[a]
    BY <1>1, MediaShapes DEF OrphanInv
  <2>4. QED BY <1>1, <2>1, <2>2, <2>3 DEF OrphanInv, OwnObjects, Kept, Settled, Busy
<1>3. QED BY <1>1, <1>2, RowsStep

LEMMA LapseKeeps ==
  ASSUME OrphanInv, MediaInv', NEW b \in Assets, Lapse(b) PROVE OrphanInv'
<1>1. UNCHANGED <<state, expired, claim, blobs, upload, gc>>
  BY DEF Lapse
<1>2. QED BY <1>1 DEF OrphanInv, OwnObjects, Kept, Settled, Busy, Emptied, NoOrphanBlobs

\* A collector's record changes and objects go; the rows stay.
LEMMA CollectingStep ==
  ASSUME OrphanInv, MediaInv', NEW c \in Collectors, NEW s, gc' = [gc EXCEPT ![c] = s],
         s.pc # "delete" => s.deleted = {},
         s.pc = "delete" => s.token = gc[c].token /\ gc[c].pc = "delete",
         \A a \in s.deleted : a \in gc[c].deleted \/ Objects({a}) \cap blobs' = {},
         blobs' \subseteq blobs, UNCHANGED <<rowVars, upload>>
  PROVE  OrphanInv'
<1>1. gc'[c] = s /\ \A d \in Collectors : d # c => gc'[d] = gc[d]
  BY MediaShapes DEF OrphanInv
<1>2. UNCHANGED <<state, expired, claim, upload>>
  BY DEF rowVars
<1>3. ASSUME NEW d \in Collectors PROVE Emptied(d)'
  <2>1. CASE d = c
    BY <1>1, <1>2, <2>1 DEF OrphanInv, Emptied
  <2>2. CASE d # c
    BY <1>1, <1>2, <2>2 DEF OrphanInv, Emptied
  <2>3. QED BY <2>1, <2>2
<1>4. QED
  BY <1>2, <1>3 DEF OrphanInv, OwnObjects, Kept, Settled, Busy, NoOrphanBlobs

LEMMA ClaimKeeps ==
  ASSUME OrphanInv, MediaInv', NEW c \in Collectors, ClaimGarbage(c) PROVE OrphanInv'
<1> DEFINE S == StillGarbage(c)
<1>1. PICK token \in Tokens \ ({claim[a] : a \in Assets} \cup {gc[d].token : d \in Collectors}) :
        /\ state' = [a \in Assets |-> IF a \in S THEN "deleting" ELSE state[a]]
        /\ claim' = [a \in Assets |-> IF a \in S THEN token ELSE claim[a]]
        /\ gc' = [gc EXCEPT ![c] =
             IF S = {} THEN NoRun
             ELSE [NoRun EXCEPT !.pc = "delete", !.token = token, !.todo = S]]
  BY DEF ClaimGarbage
<1>2. UNCHANGED <<expired, blobs, upload>>
  BY DEF ClaimGarbage
<1>3. \A a \in S : a \in Assets /\ state[a] \in Pending \cup {"deleting"}
                   /\ (state[a] = "uploading" => expired[a])
  BY MediaShapes DEF OrphanInv, StillGarbage, Garbage, Pending
<1> HIDE DEF S
<1>4. token # None /\ \A d \in Collectors : gc[d].token # token
  BY <1>1, MediaAssumption
<1>5. /\ gc'[c].deleted = {} /\ (gc'[c].pc = "delete" => gc'[c].token = token)
      /\ \A d \in Collectors : d # c => gc'[d] = gc[d]
  BY <1>1, MediaShapes DEF OrphanInv, NoRun
<1>6. ASSUME NEW v \in Uploads PROVE OwnObjects(v)' /\ Kept(v)' /\ Settled(v)'
  <2>1. upload[v].assets \subseteq Assets
    BY MediaShapes DEF OrphanInv
  <2>2. Busy(v) => \A a \in upload[v].assets : a \notin S
    BY <1>3 DEF OrphanInv, Kept
  <2>3. QED BY <1>1, <1>2, <2>1, <2>2 DEF OrphanInv, OwnObjects, Kept, Settled, Busy
<1>7. ASSUME NEW d \in Collectors PROVE Emptied(d)'
  <2>1. CASE d = c
    BY <1>4, <1>5, <2>1 DEF Emptied
  <2>2. CASE d # c
    <3>1. Emptied(d) /\ gc[d].deleted \subseteq Assets /\ gc'[d] = gc[d] /\ gc[d].token # token
      BY <1>4, <1>5, <2>2, MediaShapes DEF OrphanInv
    <3>2. \A a \in Assets : claim'[a] = gc[d].token => state'[a] = state[a] /\ claim'[a] = claim[a]
      BY <1>1, <3>1
    <3>3. QED BY <1>2, <3>1, <3>2 DEF Emptied
  <2>3. QED BY <2>1, <2>2
<1>8. NoOrphanBlobs'
  <2>1. \A a \in Assets : state'[a] \in {"unborn", "gone"} => state[a] \in {"unborn", "gone"}
    BY <1>1
  <2>2. QED BY <1>2, <2>1, MediaShapes DEF OrphanInv, NoOrphanBlobs
<1>9. QED BY <1>6, <1>7, <1>8 DEF OrphanInv

\* The row goes after its objects.
LEMMA FinalizeKeeps ==
  ASSUME OrphanInv, MediaInv', NEW c \in Collectors, Finalize(c) PROVE OrphanInv'
<1> DEFINE S == StillClaimed(c)
<1>1. /\ Move(S, "gone") /\ gc' = [gc EXCEPT ![c] = NoRun] /\ UNCHANGED <<blobs, upload>>
  BY DEF Finalize
<1>2. \A a \in S : a \in Assets /\ state[a] = "deleting" /\ Objects({a}) \cap blobs = {}
  BY MediaShapes DEF OrphanInv, StillClaimed, Emptied
<1> HIDE DEF S
<1>3. /\ \A a \in S : state'[a] = "gone" /\ claim'[a] = None
      /\ \A a \in Assets \ S : state'[a] = state[a] /\ claim'[a] = claim[a]
                               /\ expired'[a] = expired[a]
  BY <1>1, <1>2 DEF Move
<1>4. /\ gc'[c].deleted = {} /\ gc'[c].pc # "delete"
      /\ \A d \in Collectors : d # c => gc'[d] = gc[d]
  BY <1>1, MediaShapes DEF OrphanInv, NoRun
<1>5. ASSUME NEW v \in Uploads PROVE OwnObjects(v)' /\ Kept(v)' /\ Settled(v)'
  <2>1. upload[v].assets \subseteq Assets
    BY MediaShapes DEF OrphanInv
  <2>2. Busy(v) => \A a \in upload[v].assets : a \notin S
    BY <1>2 DEF OrphanInv, Kept
  <2>3. QED BY <1>1, <1>3, <2>1, <2>2 DEF OrphanInv, OwnObjects, Kept, Settled, Busy
<1>6. ASSUME NEW d \in Collectors PROVE Emptied(d)'
  <2>1. CASE d = c
    BY <1>4, <2>1 DEF Emptied
  <2>2. CASE d # c
    <3>1. Emptied(d) /\ gc[d].deleted \subseteq Assets /\ gc'[d] = gc[d]
      BY <1>4, <2>2, MediaShapes DEF OrphanInv
    <3>2. \A a \in Assets : state'[a] = "deleting" => state[a] = "deleting" /\ claim'[a] = claim[a]
      BY <1>3
    <3>3. QED BY <1>1, <3>1, <3>2 DEF Emptied
  <2>3. QED BY <2>1, <2>2
<1>7. NoOrphanBlobs'
  <2> SUFFICES ASSUME NEW b \in blobs, state'[b[1]] \in {"unborn", "gone"} PROVE FALSE
    BY <1>1 DEF NoOrphanBlobs
  <2>1. b[1] \in Assets /\ b \in Objects({b[1]}) /\ state[b[1]] \notin {"unborn", "gone"}
    BY DEF OrphanInv, NoOrphanBlobs, MediaInv, TypeOK, Objects
  <2>2. QED BY <1>2, <1>3, <2>1
<1>8. QED BY <1>5, <1>6, <1>7 DEF OrphanInv

LEMMA OrphanStep ==
  ASSUME SlowUploads = FALSE, OrphanInv, [Next]_vars PROVE OrphanInv'
<1>1. MediaInv'
  BY MediaStep DEF OrphanInv
<1>2. /\ upload \in [Uploads -> UploadState] /\ gc \in [Collectors -> GcState]
      /\ \A u \in Uploads : Settled(u)
  BY MediaShapes DEF OrphanInv
<1>3. ASSUME NEW u \in Uploads, StartWrite(u) PROVE OrphanInv'
  <2>1. PICK w \in upload[u].todo :
          upload' = [upload EXCEPT ![u] =
            [upload[u] EXCEPT !.todo = upload[u].todo \ {w},
                              !.inflight = upload[u].inflight \cup {w}]]
    BY <1>3 DEF StartWrite
  <2>2. upload[u].pc = "writing" /\ UNCHANGED <<rowVars, blobs, gc>>
    BY <1>3 DEF StartWrite
  <2>3. QED BY <1>1, <1>2, <2>1, <2>2, WritingStep DEF Busy, UploadState
<1>4. ASSUME NEW u \in Uploads, WriteDone(u) \/ WriteFails(u) \/ WriteLost(u) PROVE OrphanInv'
  <2>1. PICK w \in upload[u].inflight, f \in BOOLEAN :
          upload' = [upload EXCEPT ![u] =
            [upload[u] EXCEPT !.inflight = upload[u].inflight \ {w}, !.failed = f]]
    <3>1. upload[u].failed \in BOOLEAN /\ upload[u] \in UploadState
      BY <1>2 DEF UploadState
    <3>2. \A w : [upload[u] EXCEPT !.inflight = upload[u].inflight \ {w}]
                 = [upload[u] EXCEPT !.inflight = upload[u].inflight \ {w},
                                     !.failed = upload[u].failed]
      BY <3>1 DEF UploadState
    <3>3. CASE WriteDone(u) \/ WriteLost(u)
      <4>1. PICK w \in upload[u].inflight :
              upload' = [upload EXCEPT ![u] =
                [upload[u] EXCEPT !.inflight = upload[u].inflight \ {w}]]
        BY <3>3 DEF WriteDone, WriteLost
      <4>2. QED BY <3>1, <3>2, <4>1
    <3>4. CASE WriteFails(u)
      BY <3>4 DEF WriteFails
    <3>5. QED BY <1>4, <3>3, <3>4
  <2>2. blobs' \subseteq blobs \cup upload[u].inflight /\ UNCHANGED <<rowVars, gc>>
    BY <1>4 DEF WriteDone, WriteFails, WriteLost
  <2>3. QED BY <1>1, <1>2, <2>1, <2>2, WritingStep DEF Busy, Settled, UploadState
<1>5. ASSUME NEW u \in Uploads, WritesSettle(u) PROVE OrphanInv'
  <2>1. PICK l \in {"cleanup", "stage"} :
          upload' = [upload EXCEPT ![u] = [upload[u] EXCEPT !.pc = l]]
    BY <1>5 DEF WritesSettle
  <2>2. upload[u].inflight = {} /\ UNCHANGED <<rowVars, blobs, gc>>
    BY <1>5 DEF WritesSettle, Quiet
  <2>3. QED BY <1>1, <1>2, <2>1, <2>2, WritingStep DEF UploadState
<1>6. ASSUME NEW u \in Uploads, UploadFault(u) PROVE OrphanInv'
  <2>1. UNCHANGED <<rowVars, blobs, gc>>
    BY <1>6 DEF UploadFault
  <2>2. CASE /\ upload[u].pc = "stage"
             /\ upload' = [upload EXCEPT ![u] = [upload[u] EXCEPT !.pc = "cleanup"]]
    BY <1>1, <1>2, <2>1, <2>2, WritingStep DEF Settled, UploadState
  <2>3. CASE upload' = [upload EXCEPT ![u] = [upload[u] EXCEPT !.pc = "failed", !.todo = {}]]
    BY <1>1, <1>2, <2>1, <2>3, WritingStep DEF Busy, UploadState
  <2>4. QED BY <1>6, <2>2, <2>3 DEF UploadFault
<1>7. ASSUME NEW t \in Entities, ReplaceLinks(t) PROVE OrphanInv'
  BY <1>1, <1>7, ReferKeeps DEF ReplaceLinks
<1>8. ASSUME NEW t \in Articles, SaveArticle(t) \/ EraseArticle(t) PROVE OrphanInv'
  <2>1. \A A \in SUBSET WikiImages : A \in SUBSET Assets
    BY MediaAssumption
  <2>2. QED BY <1>1, <1>8, <2>1, ReferKeeps DEF SaveArticle, EraseArticle
<1>9. ASSUME NEW c \in Collectors, SelectGarbage(c) PROVE OrphanInv'
  <2>1. PICK S : gc' = [gc EXCEPT ![c] = [NoRun EXCEPT !.pc = "claim", !.candidates = S]]
    BY <1>9 DEF SelectGarbage
  <2> DEFINE s == [NoRun EXCEPT !.pc = "claim", !.candidates = S]
  <2>2. s.pc = "claim" /\ s.deleted = {}
    BY DEF NoRun
  <2>3. gc' = [gc EXCEPT ![c] = s] /\ UNCHANGED <<rowVars, blobs, upload>>
    BY <1>9, <2>1 DEF SelectGarbage
  <2> HIDE DEF s
  <2>4. QED BY <1>1, <2>2, <2>3, CollectingStep
<1>10. ASSUME NEW c \in Collectors, DeleteBlobs(c) PROVE OrphanInv'
  <2>1. PICK a \in gc[c].todo :
          /\ blobs' = blobs \ Objects({a})
          /\ gc' = [gc EXCEPT ![c] = [gc[c] EXCEPT !.todo = gc[c].todo \ {a},
                                                   !.deleted = gc[c].deleted \cup {a}]]
    BY <1>10 DEF DeleteBlobs
  <2> DEFINE s == [gc[c] EXCEPT !.todo = gc[c].todo \ {a}, !.deleted = gc[c].deleted \cup {a}]
  <2>2. s.pc = gc[c].pc /\ s.token = gc[c].token /\ s.deleted = gc[c].deleted \cup {a}
    BY <1>2 DEF GcState
  <2>3. /\ gc' = [gc EXCEPT ![c] = s] /\ gc[c].pc = "delete" /\ UNCHANGED <<rowVars, upload>>
        /\ blobs' \subseteq blobs /\ Objects({a}) \cap blobs' = {}
    BY <1>10, <2>1 DEF DeleteBlobs
  <2> HIDE DEF s
  <2>4. QED BY <1>1, <2>2, <2>3, CollectingStep
<1>11. ASSUME NEW c \in Collectors, DeleteFails(c) PROVE OrphanInv'
  <2>1. PICK a \in gc[c].todo :
          gc' = [gc EXCEPT ![c] = [gc[c] EXCEPT !.todo = gc[c].todo \ {a}]]
    BY <1>11 DEF DeleteFails
  <2> DEFINE s == [gc[c] EXCEPT !.todo = gc[c].todo \ {a}]
  <2>2. s.pc = gc[c].pc /\ s.token = gc[c].token /\ s.deleted = gc[c].deleted
    BY <1>2 DEF GcState
  <2>3. /\ gc' = [gc EXCEPT ![c] = s] /\ gc[c].pc = "delete" /\ blobs' \subseteq blobs
        /\ UNCHANGED <<rowVars, upload>>
    BY <1>11, <2>1 DEF DeleteFails
  <2> HIDE DEF s
  <2>4. QED BY <1>1, <2>2, <2>3, CollectingStep
<1>12. ASSUME NEW c \in Collectors, CollectorFault(c) PROVE OrphanInv'
  <2>1. gc' = [gc EXCEPT ![c] = NoRun] /\ UNCHANGED <<rowVars, blobs, upload>>
    BY <1>12 DEF CollectorFault
  <2>2. NoRun.pc = "idle" /\ NoRun.deleted = {}
    BY DEF NoRun
  <2>3. QED BY <1>1, <2>1, <2>2, CollectingStep
<1>13. CASE UNCHANGED vars
  BY <1>1, <1>13
  DEF vars, rowVars, OrphanInv, OwnObjects, Kept, Settled, Busy, Emptied, NoOrphanBlobs
<1>14. QED
  BY <1>1, <1>3, <1>4, <1>5, <1>6, <1>7, <1>8, <1>9, <1>10, <1>11, <1>12, <1>13,
     ReserveKeeps, MarkStagedKeeps, MarkDeletingKeeps, ExpireKeeps, LapseKeeps,
     ClaimKeeps, FinalizeKeeps
  DEF Next, UploadStep, CollectorStep

\* No object is left without its row, as long as uploads end within their reservation.
THEOREM NothingOrphaned == SlowUploads = FALSE => (Spec => []NoOrphanBlobs)
<1> SUFFICES ASSUME SlowUploads = FALSE PROVE Spec => []NoOrphanBlobs
  OBVIOUS
<1>1. Init => OrphanInv
  <2> SUFFICES ASSUME Init PROVE OrphanInv
    OBVIOUS
  <2>1. MediaInv
    BY MediaStart
  <2>2. /\ \A u \in Uploads : upload[u] = NoUpload
        /\ \A c \in Collectors : gc[c] = NoRun
        /\ blobs = {}
    BY DEF Init
  <2>3. QED
    BY <2>1, <2>2 DEF OrphanInv, OwnObjects, Kept, Settled, Busy, Emptied, NoOrphanBlobs,
                      NoUpload, NoRun
<1>2. OrphanInv /\ [Next]_vars => OrphanInv'
  BY OrphanStep
<1>3. OrphanInv => NoOrphanBlobs
  BY DEF OrphanInv
<1>4. QED BY <1>1, <1>2, <1>3, PTL DEF Spec

------------------------------------------------------------------------------
\* Refinement of the shelf.  The objects of what can be referred to are all there,
\* so the row alone says where an asset is.

Places == [a \in Assets |-> Place(a)]
Told == {a \in Assets : Known(a)}
shelfState == <<Places, Told, links, retained>>

RowPlace(s) ==
  CASE s = "unborn" -> "new" [] s = "uploading" -> "reserved"
    [] s \in {"staged", "attached"} -> "shelf" [] OTHER -> "lost"

LEMMA PlacesByRow == MediaInv => Places = [a \in Assets |-> RowPlace(state[a])]
<1> SUFFICES ASSUME MediaInv, NEW a \in Assets PROVE Place(a) = RowPlace(state[a])
  BY DEF Places
<1>1. state[a] \in {"staged", "attached"} => Objects({a}) \subseteq blobs
  BY DEF MediaInv, StagedIsComplete, AttachedIsReferenced, ReferencesWork
<1>2. QED BY <1>1 DEF Place, RowPlace

\* What refers to an asset holds it attached.
LEMMA ShownIsAttached ==
  ASSUME MediaInv
  PROVE  \A a \in Assets : a \in Shelf!Shown(links, retained) <=> state[a] = "attached"
BY DEF MediaInv, ReferencesWork, AttachedIsReferenced, Shelf!Shown

\* Steps in which no asset moves.
LEMMA QuietShelf ==
  ASSUME MediaInv, MediaInv', UNCHANGED <<Told, links, retained>>,
         \A a \in Assets : RowPlace(state'[a]) = RowPlace(state[a])
  PROVE  UNCHANGED shelfState
<1>1. Places' = [a \in Assets |-> RowPlace(state'[a])]
  <2>1. (MediaInv => Places = [a \in Assets |-> RowPlace(state[a])])'
    BY PlacesByRow, PTL
  <2>2. QED BY <2>1
<1>2. QED BY <1>1, PlacesByRow DEF shelfState

\* Steps in which the assets of A go to p.
LEMMA ShelfGoes ==
  ASSUME MediaInv, MediaInv', NEW A \in SUBSET Assets, NEW p,
         \A a \in Assets : RowPlace(state'[a]) = IF a \in A THEN p ELSE RowPlace(state[a])
  PROVE  Shelf!Goes(A, p)
<1>1. Places' = [a \in Assets |-> RowPlace(state'[a])]
  <2>1. (MediaInv => Places = [a \in Assets |-> RowPlace(state[a])])'
    BY PlacesByRow, PTL
  <2>2. QED BY <2>1
<1>2. Places' = [a \in Assets |-> IF a \in A THEN p ELSE Places[a]]
  BY <1>1, PlacesByRow
<1>3. QED BY <1>2 DEF Shelf!Goes, Places

LEMMA ShelfAt ==
  ASSUME MediaInv, NEW p
  PROVE  Shelf!At(p) = {a \in Assets : RowPlace(state[a]) = p}
BY PlacesByRow DEF Shelf!At, Places

\* Whose ids are known changes only when an upload is answered.
LEMMA ToldStays ==
  ASSUME MediaInv, NEW u \in Uploads, NEW s, upload' = [upload EXCEPT ![u] = s],
         s.pc = "done" <=> upload[u].pc = "done",
         s.pc = "done" => s.assets = upload[u].assets
  PROVE  Told' = Told
<1>1. \A v \in Uploads : upload'[v] = IF v = u THEN s ELSE upload[v]
  BY DEF MediaInv, TypeOK
<1>2. \A a \in Assets : Known(a)' <=> Known(a)
  BY <1>1 DEF Known
<1>3. QED BY <1>2 DEF Told

\* A reservation takes new ids.
LEMMA ReserveRefines ==
  ASSUME MediaInv, MediaInv', NEW u \in Uploads, Reserve(u)
  PROVE  Shelf!Next
<1>1. PICK A \in SUBSET {a \in Assets : state[a] = "unborn"} :
        /\ A # {} /\ Move(A, "uploading")
        /\ upload' = [upload EXCEPT ![u] =
             [NoUpload EXCEPT !.pc = "writing", !.assets = A, !.todo = Objects(A)]]
  BY Zenon DEF Reserve
<1>2. upload[u].pc = "idle" /\ UNCHANGED <<links, retained>>
  BY DEF Reserve, refVars
<1>3. Told' = Told
  <2> DEFINE s == [NoUpload EXCEPT !.pc = "writing", !.assets = A, !.todo = Objects(A)]
  <2>1. s.pc = "writing"
    BY DEF NoUpload
  <2> HIDE DEF s
  <2>2. QED BY <1>1, <1>2, <2>1, ToldStays DEF s
<1>4. \A a \in Assets : RowPlace(state'[a]) = IF a \in A THEN "reserved" ELSE RowPlace(state[a])
  BY <1>1 DEF Move, RowPlace
<1>5. Shelf!Goes(A, "reserved")
  BY <1>4, ShelfGoes
<1>6. A \subseteq Shelf!At("new")
  BY <1>1, ShelfAt DEF RowPlace
<1>7. Shelf!Reserve(A)
  BY <1>1, <1>2, <1>3, <1>5, <1>6 DEF Shelf!Reserve, Told
<1>8. QED BY <1>7 DEF Shelf!Next

\* markStaged puts what is still reserved on the shelf, and the ids are told if that is
\* all of it.
LEMMA MarkStagedRefines ==
  ASSUME MediaInv, MediaInv', NEW u \in Uploads, MarkStaged(u)
  PROVE  Shelf!Next
<1>1. upload \in [Uploads -> UploadState] /\ upload[u].assets \subseteq Assets
  BY DEF MediaInv, TypeOK, UploadState
<1>2. PICK A \in SUBSET Assets : A = StillReserved(u)
  BY <1>1 DEF StillReserved
<1>3. PICK answered \in BOOLEAN : answered <=> A = upload[u].assets
  OBVIOUS
<1>4. /\ upload[u].pc = "stage" /\ UNCHANGED <<links, retained>>
      /\ state' = [a \in Assets |-> IF a \in A THEN "staged" ELSE state[a]]
      /\ upload' = [upload EXCEPT ![u].pc = IF answered THEN "done" ELSE "cleanup"]
  BY <1>2, <1>3 DEF MarkStaged, refVars
<1>5. \A v \in Uploads : /\ upload'[v].assets = upload[v].assets
                         /\ upload'[v].pc = IF v = u THEN IF answered THEN "done" ELSE "cleanup"
                                            ELSE upload[v].pc
  BY <1>1, <1>4 DEF UploadState
<1>6. Told' = IF answered THEN Told \cup A ELSE Told
  <2>1. \A a \in Assets : Known(a)' <=> Known(a) \/ (answered /\ a \in A)
    BY <1>3, <1>4, <1>5 DEF Known
  <2>2. QED BY <2>1 DEF Told
<1>7. \A a \in A : state[a] = "uploading"
  BY <1>2 DEF StillReserved
<1>8. \A a \in Assets : RowPlace(state'[a]) = IF a \in A THEN "shelf" ELSE RowPlace(state[a])
  BY <1>4 DEF RowPlace
<1>9. Shelf!Goes(A, "shelf")
  BY <1>8, ShelfGoes
<1>10. A \subseteq Shelf!At("reserved")
  BY <1>7, ShelfAt DEF RowPlace
<1>11. Shelf!Put(A, answered)
  BY <1>4, <1>6, <1>9, <1>10 DEF Shelf!Put, Told
<1>12. QED BY <1>11 DEF Shelf!Next

\* Rows that go to the collector or to nobody are lost, if they were not before.
LEMMA LoseRefines ==
  ASSUME MediaInv, MediaInv', NEW S \in SUBSET Assets, NEW l \in {"deleting", "gone"},
         \A a \in S : state[a] \in Pending \cup {"deleting"},
         state' = [a \in Assets |-> IF a \in S THEN l ELSE state[a]],
         UNCHANGED <<links, retained>>, Told' = Told
  PROVE  [Shelf!Next]_shelfState
<1> DEFINE A == {a \in S : state[a] \in Pending}
<1>1. \A a \in Assets : RowPlace(state'[a]) = IF a \in A THEN "lost" ELSE RowPlace(state[a])
  BY DEF RowPlace, Pending
<1>2. CASE A = {}
  BY <1>1, <1>2, QuietShelf
<1>3. CASE A # {}
  <2>1. Shelf!Goes(A, "lost")
    <3> HIDE DEF A
    <3>1. A \in SUBSET Assets
      BY DEF A
    <3>2. QED BY <1>1, <3>1, ShelfGoes
  <2>2. /\ Shelf!At("reserved") = {a \in Assets : RowPlace(state[a]) = "reserved"}
        /\ Shelf!At("shelf") = {a \in Assets : RowPlace(state[a]) = "shelf"}
    BY ShelfAt
  <2>3. A \subseteq (Shelf!At("reserved") \cup Shelf!At("shelf")) \ Shelf!Shown(links, retained)
    BY <2>2, ShownIsAttached DEF RowPlace, Pending
  <2>4. \E B \in SUBSET Assets : B = A
    OBVIOUS
  <2>5. PICK B \in SUBSET Assets : B = A
    BY <2>4
  <2>6. Shelf!Lose(B)
    BY <1>3, <2>1, <2>3, <2>5 DEF Shelf!Lose, Told
  <2>7. QED BY <2>6 DEF Shelf!Next
<1>4. QED BY <1>2, <1>3

\* A batch of references is one step of the shelf, its triggers included.
LEMMA ReferRefines ==
  ASSUME MediaInv, MediaInv', NEW A \in SUBSET Assets, NEW t \in Targets,
         NEW L, NEW R, Refer(A, L, R), A \X {t} \subseteq L,
         L \in SUBSET (links \cup (A \X {t})), R \in SUBSET (retained \cup (A \X {t})),
         \A r \in (links \ L) \cup (retained \ R) : r[2] = t
  PROVE  Shelf!Next
<1>1. PICK D : D = Dropped(L, R)
  OBVIOUS
<1>2. /\ links' = L /\ retained' = R /\ UNCHANGED upload
      /\ \A a \in A : state[a] \in {"staged", "attached"} /\ Known(a)
      /\ state' = [a \in Assets |-> IF a \in A THEN "attached"
                                    ELSE IF a \in D THEN "deleting" ELSE state[a]]
  BY <1>1 DEF Refer, Attachable
<1>3. D = Shelf!Shown(links, retained) \ Shelf!Shown(L, R)
  BY <1>1 DEF Dropped, Shelf!Shown
<1>4. A \subseteq Shelf!Shown(L, R)
  <2>1. ASSUME NEW a \in A PROVE a \in Shelf!Shown(L, R)
    <3>1. <<a, t>> \in L \cup R /\ <<a, t>>[1] = a
      OBVIOUS
    <3>2. QED BY <3>1 DEF Shelf!Shown
  <2>2. QED BY <2>1
<1>5. D \in SUBSET Assets /\ D \cap A = {}
  <2>1. \A r \in links \cup retained : r[1] \in Assets
    BY DEF MediaInv, TypeOK
  <2>2. QED BY <1>3, <1>4, <2>1 DEF Shelf!Shown
<1>6. \A a \in Assets : RowPlace(state'[a]) = IF a \in D THEN "lost" ELSE RowPlace(state[a])
  BY <1>2, <1>5 DEF RowPlace
<1>7. Shelf!Goes(D, "lost")
  BY <1>5, <1>6, ShelfGoes
<1>8. A \subseteq Shelf!At("shelf") \cap Told
  BY <1>2, ShelfAt DEF RowPlace, Told
<1>9. Told' = Told
  BY <1>2 DEF Told, Known
<1>10. Shelf!Refer(t, A, L, R)
  BY <1>2, <1>3, <1>7, <1>8, <1>9 DEF Shelf!Refer, Told
<1>11. QED BY <1>10 DEF Shelf!Next

LEMMA SaveRefines ==
  ASSUME MediaInv, MediaInv',
         \/ \E t \in Entities : ReplaceLinks(t)
         \/ \E t \in Articles : SaveArticle(t) \/ EraseArticle(t)
  PROVE  Shelf!Next
<1>1. Entities \subseteq Targets /\ Articles \subseteq Targets
  BY DEF Targets
<1>2. ASSUME NEW t \in Entities, ReplaceLinks(t) PROVE Shelf!Next
  <2>1. PICK A \in SUBSET (Assets \ WikiImages) :
          Refer(A, {l \in links : l[2] # t} \cup (A \X {t}), retained)
    BY <1>2 DEF ReplaceLinks
  <2>2. PICK L, R : L = {l \in links : l[2] # t} \cup (A \X {t}) /\ R = retained
    OBVIOUS
  <2>3. QED BY <1>1, <2>1, <2>2, ReferRefines
<1>3. ASSUME NEW t \in Articles, SaveArticle(t) PROVE Shelf!Next
  <2>1. PICK A \in SUBSET WikiImages :
          Refer(A, {l \in links : l[2] # t} \cup (A \X {t}), retained \cup (A \X {t}))
    BY <1>3 DEF SaveArticle
  <2>2. PICK L, R : /\ L = {l \in links : l[2] # t} \cup (A \X {t})
                    /\ R = retained \cup (A \X {t})
    OBVIOUS
  <2>3. A \in SUBSET Assets
    BY MediaAssumption
  <2>4. QED BY <1>1, <2>1, <2>2, <2>3, ReferRefines
<1>4. ASSUME NEW t \in Articles, EraseArticle(t) PROVE Shelf!Next
  <2>1. PICK A, L, R :
          /\ A = {} /\ L = {l \in links : l[2] # t} /\ R = {r \in retained : r[2] # t}
          /\ Refer(A, L, R)
    BY <1>4 DEF EraseArticle
  <2>2. A \in SUBSET Assets
    BY <2>1
  <2>3. QED BY <1>1, <2>1, <2>2, ReferRefines
<1>5. QED BY <1>2, <1>3, <1>4

\* What an upload does up to markStaged, and after it died, shows nowhere.
LEMMA WritingRefines ==
  ASSUME MediaInv, MediaInv', NEW u \in Uploads,
         \/ StartWrite(u) \/ WriteDone(u) \/ WriteFails(u) \/ WritesSettle(u)
         \/ UploadFault(u) \/ WriteLost(u)
  PROVE  UNCHANGED shelfState
<1>1. upload \in [Uploads -> UploadState]
  BY DEF MediaInv, TypeOK
<1>2. UNCHANGED <<state, links, retained>>
  BY DEF StartWrite, WriteDone, WriteFails, WritesSettle, UploadFault, WriteLost, rowVars, refVars
<1>3. /\ upload' \in [Uploads -> UploadState]
      /\ \A v \in Uploads : v # u => upload'[v] = upload[v]
      /\ upload'[u].assets = upload[u].assets
      /\ upload'[u].pc = "done" <=> upload[u].pc = "done"
  <2>1. upload' \in [Uploads -> UploadState]
    BY DEF MediaInv, TypeOK
  <2>2. CASE StartWrite(u)
    <3>1. PICK w : upload' = [upload EXCEPT ![u].todo = @ \ {w}, ![u].inflight = @ \cup {w}]
      BY <2>2 DEF StartWrite
    <3>2. QED BY <1>1, <2>1, <3>1 DEF UploadState
  <2>3. CASE WriteDone(u) \/ WriteLost(u)
    <3>1. PICK w : upload' = [upload EXCEPT ![u].inflight = @ \ {w}]
      BY <2>3 DEF WriteDone, WriteLost
    <3>2. QED BY <1>1, <2>1, <3>1 DEF UploadState
  <2>4. CASE WriteFails(u)
    <3>1. PICK w : upload' = [upload EXCEPT ![u].inflight = @ \ {w}, ![u].failed = TRUE]
      BY <2>4 DEF WriteFails
    <3>2. QED BY <1>1, <2>1, <3>1 DEF UploadState
  <2>5. CASE WritesSettle(u)
    BY <1>1, <2>1, <2>5 DEF WritesSettle, UploadState
  <2>6. CASE UploadFault(u)
    BY <1>1, <2>1, <2>6 DEF UploadFault, UploadState
  <2>7. QED BY <2>2, <2>3, <2>4, <2>5, <2>6
<1>4. \A a \in Assets : Known(a)' <=> Known(a)
  BY <1>3 DEF Known
<1>5. Told' = Told
  BY <1>4 DEF Told
<1>6. QED BY <1>2, <1>5, QuietShelf

LEMMA MarkDeletingRefines ==
  ASSUME MediaInv, MediaInv', NEW u \in Uploads, MarkDeleting(u)
  PROVE  [Shelf!Next]_shelfState
<1>1. upload[u] \in UploadState
  BY DEF MediaInv, TypeOK
<1>2. PICK S \in SUBSET Assets : S = {a \in upload[u].assets : state[a] \in Pending}
  BY <1>1 DEF UploadState
<1>3. /\ state' = [a \in Assets |-> IF a \in S THEN "deleting" ELSE state[a]]
      /\ UNCHANGED <<links, retained>>
  BY <1>2 DEF MarkDeleting, Move, refVars
<1>4. Told' = Told
  <2> DEFINE s == [upload[u] EXCEPT !.pc = "failed"]
  <2>1. /\ upload' = [upload EXCEPT ![u] = s] /\ upload[u].pc = "cleanup"
        /\ s.pc = "failed"
    BY <1>1 DEF MarkDeleting, UploadState
  <2> HIDE DEF s
  <2>2. QED BY <2>1, ToldStays
<1>5. QED BY <1>2, <1>3, <1>4, LoseRefines

\* A collector loses what was reserved or staged when it claims it, and nothing else
\* it does shows.
LEMMA CollectorRefines ==
  ASSUME MediaInv, MediaInv', NEW c \in Collectors,
         CollectorStep(c) \/ DeleteFails(c) \/ CollectorFault(c)
  PROVE  [Shelf!Next]_shelfState
<1>1. UNCHANGED <<links, retained, upload>>
  <2>1. CASE SelectGarbage(c) \/ ClaimGarbage(c)
    <3>1. UNCHANGED <<refVars, upload>>
      BY <2>1, Zenon DEF SelectGarbage, ClaimGarbage
    <3>2. QED BY <3>1 DEF refVars
  <2>2. CASE DeleteBlobs(c) \/ Finalize(c)
    BY <2>2 DEF DeleteBlobs, Finalize, refVars
  <2>3. CASE DeleteFails(c) \/ CollectorFault(c)
    BY <2>3 DEF DeleteFails, CollectorFault, refVars
  <2>4. QED BY <2>1, <2>2, <2>3 DEF CollectorStep
<1>2. Told' = Told
  BY <1>1 DEF Told, Known
<1>3. gc[c] \in GcState
  BY DEF MediaInv, TypeOK
<1>4. CASE UNCHANGED state
  BY <1>1, <1>2, <1>4, QuietShelf
<1>5. CASE ClaimGarbage(c)
  <2>1. PICK S \in SUBSET Assets : S = StillGarbage(c)
    BY <1>3 DEF StillGarbage, GcState
  <2>2. state' = [a \in Assets |-> IF a \in S THEN "deleting" ELSE state[a]]
    BY <1>5, <2>1 DEF ClaimGarbage
  <2>3. \A a \in S : state[a] \in Pending \cup {"deleting"}
    BY <2>1 DEF StillGarbage, Garbage
  <2>4. QED BY <1>1, <1>2, <2>2, <2>3, LoseRefines
<1>6. CASE Finalize(c)
  <2>1. PICK S \in SUBSET Assets : S = StillClaimed(c)
    BY <1>3 DEF StillClaimed, GcState
  <2>2. state' = [a \in Assets |-> IF a \in S THEN "gone" ELSE state[a]]
    BY <1>6, <2>1 DEF Finalize, Move
  <2>3. \A a \in S : state[a] \in Pending \cup {"deleting"}
    BY <2>1 DEF StillClaimed
  <2>4. QED BY <1>1, <1>2, <2>2, <2>3, LoseRefines
<1>7. CASE SelectGarbage(c) \/ DeleteBlobs(c)
  <2>1. UNCHANGED rowVars
    BY <1>7, Zenon DEF SelectGarbage, DeleteBlobs
  <2>2. QED BY <1>4, <2>1 DEF rowVars
<1>8. CASE DeleteFails(c) \/ CollectorFault(c)
  BY <1>4, <1>8 DEF DeleteFails, CollectorFault, rowVars
<1>9. QED BY <1>5, <1>6, <1>7, <1>8 DEF CollectorStep

\* The store implements the shelf, with slow uploads, lapsing claims and any number of
\* collectors: nothing is put out before it is whole, and nothing that is referred to,
\* or was never collected, is taken away.
THEOREM ImplementsMediaShelf == Spec => RefinesMediaShelf
<1>1. Init => Shelf!Init
  <2> SUFFICES ASSUME Init PROVE Shelf!Init
    OBVIOUS
  <2>1. \A a \in Assets : Place(a) = "new" /\ ~Known(a)
    BY DEF Init, Place, Known, NoUpload
  <2>2. QED BY <2>1 DEF Init, Shelf!Init
<1>2. MediaInv /\ MediaInv' /\ [Next]_vars => [Shelf!Next]_shelfState
  <2> SUFFICES ASSUME MediaInv, MediaInv', [Next]_vars PROVE [Shelf!Next]_shelfState
    OBVIOUS
  <2>1. ASSUME NEW u \in Uploads, Reserve(u) \/ UploadStep(u) \/ WriteFails(u) \/ UploadFault(u)
        PROVE  [Shelf!Next]_shelfState
    BY <2>1, ReserveRefines, WritingRefines, MarkStagedRefines, MarkDeletingRefines DEF UploadStep
  <2>2. CASE \/ \E t \in Entities : ReplaceLinks(t)
             \/ \E t \in Articles : SaveArticle(t) \/ EraseArticle(t)
    BY <2>2, SaveRefines
  <2>3. CASE UNCHANGED <<state, links, retained, upload>>
    <3>1. Told' = Told
      BY <2>3 DEF Told, Known
    <3>2. QED BY <2>3, <3>1, QuietShelf
  <2>4. CASE UNCHANGED vars \/ \E a \in Assets : Expire(a) \/ Lapse(a)
    BY <2>3, <2>4 DEF vars, rowVars, refVars, Expire, Lapse
  <2>5. ASSUME NEW c \in Collectors, CollectorStep(c) \/ DeleteFails(c) \/ CollectorFault(c)
        PROVE  [Shelf!Next]_shelfState
    BY <2>5, CollectorRefines
  <2>6. QED BY <2>1, <2>2, <2>4, <2>5 DEF Next
<1>3. QED
  BY <1>1, <1>2, MediaInvariant, PTL
  DEF Spec, RefinesMediaShelf, Shelf!Spec, Shelf!shelfVars, shelfState, Places, Told
=============================================================================
