--------------------------- MODULE MediaLifecycle ---------------------------
(***************************************************************************)
(* Media assets from upload to deletion: MediaService and SqliteMediaStore *)
(* over the SQL triggers that move an asset with its references, the blob  *)
(* store that holds its bytes, and the scheduled garbage collector.        *)
(*                                                                         *)
(* SQL batches are atomic; every await between them is a point where the   *)
(* other processes run.  Blob calls may fail after they took effect.       *)
(***************************************************************************)
EXTENDS Integers, FiniteSets

CONSTANTS
  Assets, Variants,  \* media ids; the objects stored for each ("full", "view")
  WikiImages,        \* the assets whose purpose is wiki_image
  Articles,          \* wiki articles: links, and revisions that retain images
  Entities,          \* all other link targets
  Uploads,           \* upload requests, each with ids of its own
  Collectors,        \* media-gc runs; two run at once after a lost job lease
  Tokens, None,      \* random claim tokens; SQL NULL
  Parallel,          \* concurrent blob writes of one upload
  BatchLimit,        \* assets claimed by one collection
  MaxPending,        \* per-owner budget of uploading and staged assets
  SlowUploads,       \* whether an upload may outlive its 24 h reservation
  MaxFaults          \* bound: crashes and failed calls explored

ASSUME MediaAssumption ==
  /\ WikiImages \subseteq Assets
  /\ Articles \cap Entities = {}
  /\ None \notin Tokens
  /\ SlowUploads \in BOOLEAN
  /\ Parallel \in Nat /\ BatchLimit \in Nat /\ MaxPending \in Nat /\ MaxFaults \in Nat

VARIABLES
  state,     \* media_assets.state, with "unborn" and "gone" for no row
  expired,   \* expires_at has passed
  claim,     \* delete_claim_token
  lapsed,    \* delete_claim_until has passed
  blobs,     \* objects in the blob store: <<asset, variant>>
  links,     \* media_links: <<asset, target>>
  retained,  \* wiki_revision_media: <<asset, article>>
  upload,    \* one upload request each
  gc,        \* one collection each
  faults     \* faults so far

vars == <<state, expired, claim, lapsed, blobs, links, retained, upload, gc, faults>>
rowVars == <<state, expired, claim, lapsed>>
refVars == <<links, retained>>

Pending == {"uploading", "staged"}
Targets == Articles \cup Entities
Objects(A) == A \X Variants

NoUpload == [pc |-> "idle", assets |-> {}, todo |-> {}, inflight |-> {}, failed |-> FALSE]
NoRun == [pc |-> "idle", token |-> None, candidates |-> {}, todo |-> {}, deleted |-> {}]

Init ==
  /\ state = [a \in Assets |-> "unborn"]
  /\ expired = [a \in Assets |-> FALSE]
  /\ claim = [a \in Assets |-> None]
  /\ lapsed = [a \in Assets |-> FALSE]
  /\ blobs = {} /\ links = {} /\ retained = {}
  /\ upload = [u \in Uploads |-> NoUpload]
  /\ gc = [c \in Collectors |-> NoRun]
  /\ faults = 0

Fault == faults < MaxFaults /\ faults' = faults + 1

\* The rows of A move to state s; a row that leaves "deleting" or enters it
\* outside a collection has no claim.
Move(A, s) ==
  /\ state' = [a \in Assets |-> IF a \in A THEN s ELSE state[a]]
  /\ claim' = [a \in Assets |-> IF a \in A THEN None ELSE claim[a]]
  /\ lapsed' = [a \in Assets |-> IF a \in A THEN FALSE ELSE lapsed[a]]
  /\ expired' = [a \in Assets |-> IF a \in A THEN FALSE ELSE expired[a]]

------------------------------------------------------------------------------
\* Uploads.

\* reserveUploads: the rows are inserted unless the budget would be exceeded.
Reserve(u) ==
  /\ upload[u].pc = "idle"
  /\ \E A \in SUBSET {a \in Assets : state[a] = "unborn"} :
       /\ A # {}
       /\ Cardinality(A) + Cardinality({a \in Assets : state[a] \in Pending}) <= MaxPending
       /\ Move(A, "uploading")
       /\ upload' = [upload EXCEPT ![u] =
            [NoUpload EXCEPT !.pc = "writing", !.assets = A, !.todo = Objects(A)]]
  /\ UNCHANGED <<blobs, refVars, gc, faults>>

\* writeNext: no new write is started once one failed.
StartWrite(u) ==
  /\ upload[u].pc = "writing" /\ ~upload[u].failed
  /\ Cardinality(upload[u].inflight) < Parallel
  /\ \E w \in upload[u].todo :
       upload' = [upload EXCEPT ![u].todo = @ \ {w}, ![u].inflight = @ \cup {w}]
  /\ UNCHANGED <<rowVars, blobs, refVars, gc, faults>>

\* The object is stored; for a request that died this happens behind its back.
WriteDone(u) ==
  /\ \E w \in upload[u].inflight :
       /\ blobs' = blobs \cup {w}
       /\ upload' = [upload EXCEPT ![u].inflight = @ \ {w}]
  /\ UNCHANGED <<rowVars, refVars, gc, faults>>

\* putIfAbsent throws; the object may have been stored all the same.
WriteFails(u) ==
  /\ Fault
  /\ \E w \in upload[u].inflight, stored \in BOOLEAN :
       /\ blobs' = IF stored THEN blobs \cup {w} ELSE blobs
       /\ upload' = [upload EXCEPT ![u].inflight = @ \ {w}, ![u].failed = TRUE]
  /\ UNCHANGED <<rowVars, refVars, gc>>

\* Promise.all(writers): every started write has ended.
AnyTime(u) == TRUE  \* mutant: the first failure ends the upload at once
Quiet(u) == upload[u].inflight = {}

WritesSettle(u) ==
  /\ upload[u].pc = "writing"
  /\ Quiet(u)
  /\ upload[u].failed \/ upload[u].todo = {}
  /\ upload' = [upload EXCEPT ![u].pc = IF upload[u].failed THEN "cleanup" ELSE "stage"]
  /\ UNCHANGED <<rowVars, blobs, refVars, gc, faults>>

\* markStaged: rows that are not "uploading" any more are left alone, and then
\* the upload fails, although its other rows are staged by now.
NotGone(u) ==  \* mutant: UPDATE without AND state = 'uploading'
  {a \in upload[u].assets : state[a] # "gone"}
StillReserved(u) == {a \in upload[u].assets : state[a] = "uploading"}

MarkStaged(u) ==
  /\ upload[u].pc = "stage"
  /\ LET A == StillReserved(u) IN
     /\ state' = [a \in Assets |-> IF a \in A THEN "staged" ELSE state[a]]
     /\ upload' = [upload EXCEPT ![u].pc = IF A = upload[u].assets THEN "done" ELSE "cleanup"]
  /\ UNCHANGED <<expired, claim, lapsed, blobs, refVars, gc, faults>>

\* markDeleting: what is not attached goes to the collector.
MarkDeleting(u) ==
  /\ upload[u].pc = "cleanup"
  /\ Move({a \in upload[u].assets : state[a] \in Pending}, "deleting")
  /\ upload' = [upload EXCEPT ![u].pc = "failed"]
  /\ UNCHANGED <<blobs, refVars, gc, faults>>

\* The statement fails (a failed markStaged leads to the cleanup, a failed
\* cleanup leaves the rows to their expiry), or the request dies.
UploadFault(u) ==
  /\ Fault
  /\ \/ /\ upload[u].pc = "stage"
        /\ upload' = [upload EXCEPT ![u].pc = "cleanup"]
     \/ /\ upload[u].pc \in {"writing", "stage", "cleanup"}
        /\ upload' = [upload EXCEPT ![u].pc = "failed", ![u].todo = {}]
  /\ UNCHANGED <<rowVars, blobs, refVars, gc>>

\* A write of a dead request never reached the store.
WriteLost(u) ==
  /\ upload[u].pc = "failed"
  /\ \E w \in upload[u].inflight :
       upload' = [upload EXCEPT ![u].inflight = @ \ {w}]
  /\ UNCHANGED <<rowVars, blobs, refVars, gc, faults>>

UploadStep(u) ==
  \/ StartWrite(u) \/ WriteDone(u) \/ WritesSettle(u)
  \/ MarkStaged(u) \/ MarkDeleting(u) \/ WriteLost(u)

------------------------------------------------------------------------------
\* References.  Clients know the ids of successful uploads only.

Known(a) == \E u \in Uploads : upload[u].pc = "done" /\ a \in upload[u].assets

Attachable(a) == state[a] \in {"staged", "attached"}

\* media_links_after_delete and wiki_revision_media_after_delete: the assets that
\* lose their last reference when these references are all that is left.
LastLink(newLinks, newRetained) ==  \* mutant: no trigger on wiki_revision_media
  {r[1] : r \in links} \ {r[1] : r \in newLinks \cup retained}
Dropped(newLinks, newRetained) ==
  {r[1] : r \in links \cup retained} \ {r[1] : r \in newLinks \cup newRetained}

\* One batch that inserts references to A and leaves these references; any
\* insertion that is not allowed aborts all of it.
Refer(A, newLinks, newRetained) ==
  LET D == Dropped(newLinks, newRetained) IN
  /\ \A a \in A : Attachable(a) /\ Known(a)
  /\ links' = newLinks
  /\ retained' = newRetained
  /\ state' = [a \in Assets |-> IF a \in A THEN "attached"
                                ELSE IF a \in D THEN "deleting" ELSE state[a]]
  /\ expired' = [a \in Assets |-> expired[a] /\ a \notin A \cup D]
  /\ claim' = [a \in Assets |-> IF a \in A \cup D THEN None ELSE claim[a]]
  /\ lapsed' = [a \in Assets |-> lapsed[a] /\ a \notin A \cup D]
  /\ UNCHANGED <<blobs, upload, gc, faults>>

\* replaceMediaLinksStatements for a gallery item, profile, event ...; the empty
\* set also stands for the deletion of the target.
ReplaceLinks(t) ==
  \E A \in SUBSET (Assets \ WikiImages) :
    Refer(A, {l \in links : l[2] # t} \cup (A \X {t}), retained)

\* createArticle and mutateArticle: the new revision retains what it shows.
SaveArticle(t) ==
  \E A \in SUBSET WikiImages :
    Refer(A, {l \in links : l[2] # t} \cup (A \X {t}), retained \cup (A \X {t}))

\* Cleanup of a system test's article, the only way to delete revisions.
EraseArticle(t) == Refer({}, {l \in links : l[2] # t}, {r \in retained : r[2] # t})

------------------------------------------------------------------------------
\* Time: a reservation runs 24 h, a deletion claim ten minutes.

Ended(u) == upload[u].pc \in {"done", "failed"} /\ upload[u].inflight = {}

Expire(a) ==
  /\ state[a] \in Pending /\ ~expired[a]
  /\ SlowUploads \/ \A u \in Uploads : a \in upload[u].assets => Ended(u)
  /\ expired' = [expired EXCEPT ![a] = TRUE]
  /\ UNCHANGED <<state, claim, lapsed, blobs, refVars, upload, gc, faults>>

Lapse(a) ==
  /\ claim[a] # None /\ ~lapsed[a]
  /\ lapsed' = [lapsed EXCEPT ![a] = TRUE]
  /\ UNCHANGED <<state, expired, claim, blobs, refVars, upload, gc, faults>>

------------------------------------------------------------------------------
\* Garbage collection.

NoRetry(a) ==  \* mutant: a claimed row is never claimed again
  \/ state[a] \in Pending /\ expired[a]
  \/ state[a] = "deleting" /\ claim[a] = None
Garbage(a) ==
  \/ state[a] \in Pending /\ expired[a]
  \/ state[a] = "deleting" /\ (claim[a] = None \/ lapsed[a])

Selected(c) == gc[c].candidates  \* mutant: UPDATE by id, without the recheck
StillGarbage(c) == {a \in gc[c].candidates : Garbage(a)}

\* selectGarbageCandidates: the oldest BatchLimit rows; here any of them.
SelectGarbage(c) ==
  /\ gc[c].pc = "idle"
  /\ \E S \in SUBSET {a \in Assets : Garbage(a)} :
       /\ S # {} /\ Cardinality(S) <= BatchLimit
       /\ gc' = [gc EXCEPT ![c] = [NoRun EXCEPT !.pc = "claim", !.candidates = S]]
  /\ UNCHANGED <<rowVars, blobs, refVars, upload, faults>>

\* The UPDATE repeats the condition under a token nobody else has.
ClaimGarbage(c) ==
  /\ gc[c].pc = "claim"
  /\ LET S == StillGarbage(c) IN
     \E token \in Tokens \ ({claim[a] : a \in Assets} \cup {gc[d].token : d \in Collectors}) :
       /\ state' = [a \in Assets |-> IF a \in S THEN "deleting" ELSE state[a]]
       /\ claim' = [a \in Assets |-> IF a \in S THEN token ELSE claim[a]]
       /\ lapsed' = [a \in Assets |-> lapsed[a] /\ a \notin S]
       /\ gc' = [gc EXCEPT ![c] =
            IF S = {} THEN NoRun
            ELSE [NoRun EXCEPT !.pc = "delete", !.token = token, !.todo = S]]
  /\ UNCHANGED <<expired, blobs, refVars, upload, faults>>

DeleteBlobs(c) ==
  /\ gc[c].pc = "delete"
  /\ \E a \in gc[c].todo :
       /\ blobs' = blobs \ Objects({a})
       /\ gc' = [gc EXCEPT ![c].todo = @ \ {a}, ![c].deleted = @ \cup {a}]
  /\ UNCHANGED <<rowVars, refVars, upload, faults>>

\* blobs.delete throws, maybe after it deleted some of the objects; the run goes
\* on with the other assets.
DeleteFails(c) ==
  /\ Fault
  /\ gc[c].pc = "delete"
  /\ \E a \in gc[c].todo, lost \in SUBSET Variants :
       /\ blobs' = blobs \ ({a} \X lost)
       /\ gc' = [gc EXCEPT ![c].todo = @ \ {a}]
  /\ UNCHANGED <<rowVars, refVars, upload>>

\* finalizeDeletions: rows this run still holds the claim of.
StillClaimed(c) ==
  {a \in gc[c].deleted : state[a] = "deleting" /\ claim[a] = gc[c].token}

Finalize(c) ==
  /\ gc[c].pc = "delete" /\ gc[c].todo = {}
  /\ Move(StillClaimed(c), "gone")
  /\ gc' = [gc EXCEPT ![c] = NoRun]
  /\ UNCHANGED <<blobs, refVars, upload, faults>>

\* The run dies, or one of its statements fails.
CollectorFault(c) ==
  /\ Fault
  /\ gc[c].pc # "idle"
  /\ gc' = [gc EXCEPT ![c] = NoRun]
  /\ UNCHANGED <<rowVars, blobs, refVars, upload>>

CollectorStep(c) == SelectGarbage(c) \/ ClaimGarbage(c) \/ DeleteBlobs(c) \/ Finalize(c)

Next ==
  \/ \E u \in Uploads : Reserve(u) \/ UploadStep(u) \/ WriteFails(u) \/ UploadFault(u)
  \/ \E t \in Entities : ReplaceLinks(t)
  \/ \E t \in Articles : SaveArticle(t) \/ EraseArticle(t)
  \/ \E a \in Assets : Expire(a) \/ Lapse(a)
  \/ \E c \in Collectors : CollectorStep(c) \/ DeleteFails(c) \/ CollectorFault(c)

Spec == Init /\ [][Next]_vars

\* A request's calls return, time passes, and media-gc is scheduled for ever.
FairSpec ==
  /\ Spec
  /\ \A u \in Uploads : WF_vars(UploadStep(u))
  /\ \A a \in Assets : WF_vars(Expire(a)) /\ WF_vars(Lapse(a))
  /\ \A c \in Collectors : WF_vars(CollectorStep(c))

------------------------------------------------------------------------------
\* Properties.

UploadState ==
  [pc : {"idle", "writing", "stage", "cleanup", "done", "failed"},
   assets : SUBSET Assets, todo : SUBSET Objects(Assets),
   inflight : SUBSET Objects(Assets), failed : BOOLEAN]
GcState ==
  [pc : {"idle", "claim", "delete"}, token : Tokens \cup {None},
   candidates : SUBSET Assets, todo : SUBSET Assets, deleted : SUBSET Assets]

\* Types, and the CHECK media_assets_claim_consistent.
TypeOK ==
  /\ state \in [Assets -> {"unborn", "uploading", "staged", "attached", "deleting", "gone"}]
  /\ expired \in [Assets -> BOOLEAN]
  /\ claim \in [Assets -> Tokens \cup {None}]
  /\ \A a \in Assets : claim[a] # None => state[a] = "deleting"
  /\ lapsed \in [Assets -> BOOLEAN]
  /\ blobs \subseteq Objects(Assets)
  /\ links \subseteq Assets \X Targets
  /\ retained \subseteq Assets \X Articles
  /\ upload \in [Uploads -> UploadState]
  /\ gc \in [Collectors -> GcState]
  /\ faults \in 0..MaxFaults

\* Whatever a page or an old revision refers to is there to be served: the
\* collector, a slow upload or a stale claim never takes its objects away.
ReferencesWork ==
  \A r \in links \cup retained :
    state[r[1]] = "attached" /\ Objects({r[1]}) \subseteq blobs

\* An asset stays attached only as long as something refers to it; the triggers
\* on the two reference tables hand over to each other without a leak.
AttachedIsReferenced ==
  \A a \in Assets : state[a] = "attached" => \E r \in links \cup retained : r[1] = a

\* Rows are deleted after their objects, and nothing is written for a deleted
\* row: no object is ever left that no row names.
NoOrphanBlobs == \A b \in blobs : state[b[1]] \notin {"unborn", "gone"}

\* Whatever is reserved, abandoned or dropped ends up attached or deleted.
NothingLingers ==
  \A a \in Assets :
    state[a] \in {"uploading", "staged", "deleting"} ~> state[a] \in {"attached", "gone"}

\* To whom it does not see objects, claims and collectors, the store is a shelf: an
\* asset that is staged or attached has all its objects until it is lost for good,
\* and it is lost when its last reference goes and not before.
Place(a) ==
  CASE state[a] = "unborn" -> "new"
    [] state[a] = "uploading" -> "reserved"
    [] state[a] \in {"staged", "attached"} ->
         IF Objects({a}) \subseteq blobs THEN "shelf" ELSE "broken"
    [] OTHER -> "lost"
Shelf == INSTANCE MediaShelf
  WITH place <- [a \in Assets |-> Place(a)], told <- {a \in Assets : Known(a)}
RefinesMediaShelf == Shelf!Spec
=============================================================================
