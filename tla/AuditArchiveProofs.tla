------------------------- MODULE AuditArchiveProofs -------------------------
(***************************************************************************)
(* Theorems about AuditArchive, for any number of entries, archives and    *)
(* concurrent runs.                                                        *)
(***************************************************************************)
EXTENDS AuditArchive, FiniteSetTheorems, TLAPS

------------------------------------------------------------------------------
\* The inductive invariant.

\* Only a pending archive has items, never more than it counted.
ArchivesSound ==
  \A a \in Archives :
    /\ items[a] # {} => status[a] = "pending"
    /\ status[a] = "pending" => Cardinality(items[a]) <= count[a] /\ count[a] > 0
    /\ sha[a] # {} \/ expired[a] => status[a] \in {"ready", "dropped"}

ItemsAreOld == \A a \in Archives : \A e \in items[a] : row[e] = "old"

\* A run in state s still has the claim it made.
Owns(s) == status[s.archive] = "pending" /\ token[s.archive] = s.token

\* What a run in state s may rely on: its archive is no more than finished, and
\* as long as it owns it, it has all items in hand and, in the end, in the file.
Sound(s) ==
  /\ s.pc \in {"load", "put", "finalize"} =>
       /\ s.archive \in Archives /\ s.token \in Tokens
       /\ status[s.archive] \in {"pending", "ready"} /\ ~expired[s.archive]
  /\ s.pc \in {"put", "finalize"} => s.entries # {}
  /\ s.pc \in {"put", "finalize"} /\ Owns(s) =>
       items[s.archive] \subseteq s.entries /\ Cardinality(s.entries) <= count[s.archive]
  /\ s.pc = "finalize" /\ Owns(s) => object[s.archive] = s.entries
  /\ s.pc \in {"clean", "drop"} =>
       \A a \in s.todo : expired[a] /\ status[a] \in {"ready", "dropped"}
  /\ s.pc = "drop" => s.archive \in s.todo /\ object[s.archive] = {}

RunsSound == \A r \in Runs : Sound(run[r])

\* Late writes belong to archives that retention has not reached.
LateSound ==
  \A w \in late : status[w[1]] \in {"pending", "ready"} /\ ~expired[w[1]] /\ w[2] # {}

ArchiveInv ==
  /\ TypeOK
  /\ ExactlyOneFile
  /\ ReadyIsServed
  /\ NoOrphanFiles
  /\ ArchivesSound
  /\ ItemsAreOld
  /\ RunsSound
  /\ LateSound

LEMMA NoRunSound == NoRun \in RunState /\ Sound(NoRun)
BY DEF NoRun, RunState, Sound

\* A step of run r that leaves the log and the archives alone.
LEMMA RunOnly ==
  ASSUME ArchiveInv, NEW r \in Runs, NEW s \in RunState, run' = [run EXCEPT ![r] = s],
         Sound(s), faults' \in 0..MaxFaults,
         late' \in SUBSET (Archives \X SUBSET Entries),
         \A w \in late' : w \in late \/ (status[w[1]] \in {"pending", "ready"}
                                        /\ ~expired[w[1]] /\ w[2] # {}),
         UNCHANGED <<row, archiveVars, items, object>>
  PROVE  ArchiveInv'
<1> USE DEF archiveVars
<1>1. TypeOK'
  BY DEF ArchiveInv, TypeOK, Pending
<1>2. ExactlyOneFile' /\ ReadyIsServed' /\ NoOrphanFiles'
  BY DEF ArchiveInv, ExactlyOneFile, ReadyIsServed, NoOrphanFiles
<1>3. ArchivesSound' /\ ItemsAreOld' /\ LateSound'
  BY DEF ArchiveInv, ArchivesSound, ItemsAreOld, LateSound
<1>4. RunsSound'
  <2> SUFFICES ASSUME NEW q \in Runs PROVE Sound(run[q])'
    BY DEF RunsSound
  <2>1. CASE q = r
    <3>1. run'[q] = s
      BY <2>1 DEF ArchiveInv, TypeOK
    <3>2. QED BY <3>1 DEF Sound, Owns
  <2>2. CASE q # r
    <3>1. run'[q] = run[q] /\ Sound(run[q])
      BY <2>2 DEF ArchiveInv, TypeOK, RunsSound
    <3>2. QED BY <3>1 DEF Sound, Owns
  <2>3. QED BY <2>1, <2>2
<1>5. QED BY <1>1, <1>2, <1>3, <1>4 DEF ArchiveInv

\* Run r goes to s while every other run stays sound in its state.
LEMMA OtherRuns ==
  ASSUME ArchiveInv, NEW r \in Runs, NEW s \in RunState, run' = [run EXCEPT ![r] = s],
         Sound(s)',
         \A x \in RunState : (\E q \in Runs \ {r} : run[q] = x) /\ Sound(x) => Sound(x)'
  PROVE  RunsSound' /\ run' \in [Runs -> RunState]
<1>1. run \in [Runs -> RunState]
  BY DEF ArchiveInv, TypeOK
<1>2. run' \in [Runs -> RunState]
  BY <1>1
<1>3. ASSUME NEW q \in Runs PROVE Sound(run[q])'
  <2>1. CASE q = r
    <3>1. run'[q] = s
      BY <1>1, <2>1
    <3>2. QED BY <3>1 DEF Sound, Owns
  <2>2. CASE q # r
    <3>1. run'[q] = run[q] /\ run[q] \in RunState /\ Sound(run[q])
      BY <1>1, <2>2 DEF ArchiveInv, RunsSound
    <3> DEFINE x == run[q]
    <3>2. x \in RunState /\ (\E p \in Runs \ {r} : run[p] = x) /\ Sound(x)
      BY <2>2, <3>1
    <3> HIDE DEF x
    <3>3. \A y \in RunState : (\E p \in Runs \ {r} : run[p] = y) /\ Sound(y) => Sound(y)'
      OBVIOUS
    <3>4. PICK y \in RunState : y = run[q] /\ Sound(y)'
      BY <3>2, <3>3 DEF x
    <3>5. QED BY <3>1, <3>4 DEF Sound, Owns
  <2>3. QED BY <2>1, <2>2
<1>4. QED BY <1>2, <1>3 DEF RunsSound

\* No run moves.
LEMMA SameRuns ==
  ASSUME ArchiveInv, UNCHANGED run,
         \A x \in RunState : (\E q \in Runs : run[q] = x) /\ Sound(x) => Sound(x)'
  PROVE  RunsSound'
<1>1. ASSUME NEW q \in Runs PROVE Sound(run[q])'
  <2>1. run[q] \in RunState /\ Sound(run[q])
    BY DEF ArchiveInv, TypeOK, RunsSound
  <2>2. PICK y \in RunState : y = run[q] /\ Sound(y)'
    BY <2>1
  <2>3. QED BY <2>2 DEF Sound, Owns
<1>2. QED BY <1>1 DEF RunsSound

\* One file is written where there was none, or deleted after its year.
LEMMA ObjectOnly ==
  ASSUME ArchiveInv, NEW a \in Archives, NEW f \in SUBSET Entries,
         object' = [object EXCEPT ![a] = f],
         \/ f = {} /\ expired[a]
         \/ /\ object[a] \in {{}, f} /\ f # {}
            /\ status[a] \in {"pending", "ready"} /\ ~expired[a],
         UNCHANGED <<row, archiveVars, items>>
  PROVE  /\ object' \in [Archives -> SUBSET Entries]
         /\ ExactlyOneFile' /\ ReadyIsServed' /\ NoOrphanFiles'
         /\ ArchivesSound' /\ ItemsAreOld'
         /\ \A x \in RunState : Sound(x) => Sound(x)'
<1> USE DEF archiveVars
<1>1. object \in [Archives -> SUBSET Entries]
  BY DEF ArchiveInv, TypeOK
<1>2. \A b \in Archives : object'[b] = IF b = a THEN f ELSE object[b]
  BY <1>1
<1>3. ExactlyOneFile' /\ ArchivesSound' /\ ItemsAreOld'
  BY DEF ArchiveInv, ExactlyOneFile, ArchivesSound, ItemsAreOld
<1>4. ReadyIsServed'
  <2> SUFFICES ASSUME NEW b \in Archives, status[b] = "ready", ~expired[b]
               PROVE  object'[b] = sha[b]
    BY DEF ReadyIsServed
  <2>1. object[b] = sha[b] /\ sha[b] # {}
    BY DEF ArchiveInv, ReadyIsServed, TypeOK
  <2>2. QED BY <1>2, <2>1
<1>5. NoOrphanFiles'
  BY <1>2 DEF ArchiveInv, NoOrphanFiles
<1>6. ASSUME NEW x \in RunState, Sound(x) PROVE Sound(x)'
  <2>1. x.pc = "finalize" /\ Owns(x) => object'[x.archive] = x.entries
    BY <1>2, <1>6 DEF Sound, Owns
  <2>2. x.pc = "drop" => x.archive \in Archives /\ object'[x.archive] = {}
    <3> SUFFICES ASSUME x.pc = "drop" PROVE x.archive \in Archives /\ object'[x.archive] = {}
      OBVIOUS
    <3>1. x.archive \in x.todo /\ x.todo \subseteq Archives /\ expired[x.archive]
          /\ object[x.archive] = {}
      BY <1>6 DEF Sound, RunState
    <3>2. QED BY <1>2, <3>1
  <2>3. QED BY <1>6, <2>1, <2>2 DEF Sound, Owns
<1>7. QED BY <1>1, <1>3, <1>4, <1>5, <1>6

\* The row of an entry that is not archived changes, and its item, if any, goes.
LEMMA LogStep ==
  ASSUME ArchiveInv, NEW e \in Entries, row[e] \in {"unborn", "recent", "old"},
         NEW v \in {"recent", "old", "erased"}, row' = [row EXCEPT ![e] = v],
         items' = [a \in Archives |-> items[a] \ {e}],
         UNCHANGED <<archiveVars, object, late, run, faults>>
  PROVE  ArchiveInv'
<1> USE DEF archiveVars
<1>1. /\ row \in [Entries -> {"unborn", "recent", "old", "archived", "erased"}]
      /\ items \in [Archives -> SUBSET Entries] /\ count \in [Archives -> Nat]
  BY DEF ArchiveInv, TypeOK
<1>2. TypeOK'
  BY <1>1 DEF ArchiveInv, TypeOK, Pending
<1>3. ExactlyOneFile'
  BY <1>1 DEF ArchiveInv, ExactlyOneFile
<1>4. ReadyIsServed' /\ NoOrphanFiles' /\ LateSound'
  BY DEF ArchiveInv, ReadyIsServed, NoOrphanFiles, LateSound
<1>5. ASSUME NEW a \in Archives
      PROVE  items'[a] \subseteq items[a] /\ Cardinality(items'[a]) <= Cardinality(items[a])
             /\ Cardinality(items[a]) \in Nat /\ Cardinality(items'[a]) \in Nat
  <2>1. items'[a] \in SUBSET items[a] /\ items[a] \in SUBSET Entries
    BY <1>1
  <2>2. IsFiniteSet(items[a]) /\ IsFiniteSet(items'[a])
    BY <2>1, ArchiveAssumption, FS_Subset
  <2>3. QED BY <2>1, <2>2, FS_Subset, FS_CardinalityType
<1>6. ArchivesSound'
  BY <1>1, <1>5 DEF ArchiveInv, ArchivesSound
<1>7. ItemsAreOld'
  BY <1>1 DEF ArchiveInv, ItemsAreOld
<1>8. RunsSound'
  <2>1. ASSUME NEW x \in RunState, Sound(x) PROVE Sound(x)'
    <3>1. x.pc \in {"put", "finalize"} /\ Owns(x) => items'[x.archive] \subseteq x.entries
      BY <1>5, <2>1 DEF Sound
    <3>2. QED BY <2>1, <3>1 DEF Sound, Owns
  <2>2. QED BY <2>1, SameRuns
<1>9. QED BY <1>2, <1>3, <1>4, <1>6, <1>7, <1>8 DEF ArchiveInv

\* Time passes for an archive.
LEMMA ClockStep ==
  ASSUME ArchiveInv, NEW a \in Archives, Lapse(a) \/ Expire(a)
  PROVE  ArchiveInv'
<1> USE DEF archiveVars
<1>1. /\ lapsed' \in [Archives -> BOOLEAN] /\ expired' \in [Archives -> BOOLEAN]
      /\ \A b \in Archives : b # a => expired'[b] = expired[b]
      /\ UNCHANGED <<row, status, token, count, items, sha, object, late, run, faults>>
  BY DEF ArchiveInv, TypeOK, Lapse, Expire
<1>2. TypeOK' /\ ExactlyOneFile' /\ NoOrphanFiles' /\ ItemsAreOld'
  BY <1>1 DEF ArchiveInv, TypeOK, Pending, ExactlyOneFile, NoOrphanFiles, ItemsAreOld
<1>3. CASE Lapse(a)
  <2>1. UNCHANGED expired
    BY <1>3 DEF Lapse
  <2>2. ReadyIsServed' /\ ArchivesSound' /\ LateSound'
    BY <1>1, <2>1 DEF ArchiveInv, ReadyIsServed, ArchivesSound, LateSound
  <2>3. \A x \in RunState : Sound(x) => Sound(x)'
    BY <1>1, <2>1 DEF Sound, Owns
  <2>4. QED BY <1>1, <1>2, <2>2, <2>3, SameRuns DEF ArchiveInv
<1>4. CASE Expire(a)
  <2>1. /\ status[a] = "ready" /\ expired' = [expired EXCEPT ![a] = TRUE]
        /\ \A w \in late : w[1] # a
        /\ \A r \in Runs : run[r].archive # a
    BY <1>4 DEF Expire
  <2>2. \A b \in Archives : expired'[b] = (b = a \/ expired[b])
    BY <2>1, Zenon DEF ArchiveInv, TypeOK
  <2>3. ReadyIsServed' /\ ArchivesSound'
    BY <1>1, <2>1, <2>2 DEF ArchiveInv, ReadyIsServed, ArchivesSound
  <2>4. LateSound'
    BY <1>1, <2>1 DEF ArchiveInv, LateSound, TypeOK
  <2>5. ASSUME NEW x \in RunState, \E q \in Runs : run[q] = x, Sound(x) PROVE Sound(x)'
    <3>1. x.archive # a
      BY <2>1, <2>5
    <3>2. x.todo \subseteq Archives
      BY DEF RunState
    <3>3. \A b \in Archives : expired[b] => expired'[b]
      BY <2>2
    <3>4. x.archive \in Archives => expired'[x.archive] = expired[x.archive]
      BY <1>1, <3>1
    <3>5. QED BY <1>1, <2>5, <3>2, <3>3, <3>4 DEF Sound, Owns
  <2>6. QED BY <1>1, <1>2, <2>3, <2>4, <2>5, SameRuns DEF ArchiveInv
<1>5. QED BY <1>3, <1>4

------------------------------------------------------------------------------
\* The runs.
LEMMA RunType ==
  ASSUME ArchiveInv, NEW r \in Runs
  PROVE  run[r] \in RunState /\ Sound(run[r])
BY DEF ArchiveInv, TypeOK, RunsSound

LEMMA FaultType == ASSUME ArchiveInv, Fault PROVE faults' \in 0..MaxFaults
BY ArchiveAssumption DEF ArchiveInv, TypeOK, Fault

LEMMA QuietEnd ==
  ASSUME ArchiveInv, NEW r \in Runs, EndRun(r), faults' \in 0..MaxFaults,
         UNCHANGED <<row, archiveVars, items, object, late>>
  PROVE  ArchiveInv'
<1>1. late \in SUBSET (Archives \X SUBSET Entries)
  BY DEF ArchiveInv, TypeOK
<1>2. QED BY <1>1, NoRunSound, RunOnly DEF EndRun

LEMMA StartStep == ASSUME ArchiveInv, NEW r \in Runs, Start(r) PROVE ArchiveInv'
<1>1. PICK S \in SUBSET Expired :
        run' = [run EXCEPT ![r] = [NoRun EXCEPT
          !.pc = IF S = {} THEN "claim" ELSE "clean", !.todo = S,
          !.sees = {a \in Archives : status[a] = "pending" /\ lapsed[a]}]]
  BY DEF Start
<1> DEFINE s == [NoRun EXCEPT !.pc = IF S = {} THEN "claim" ELSE "clean", !.todo = S,
                   !.sees = {a \in Archives : status[a] = "pending" /\ lapsed[a]}]
<1>2. s \in RunState /\ s.pc \in {"claim", "clean"} /\ s.todo = S
  BY DEF NoRun, RunState, Expired
<1>3. run' = [run EXCEPT ![r] = s]
  BY <1>1
<1> HIDE DEF s
<1>4. Sound(s)
  BY <1>2 DEF Sound, Expired
<1>5. faults' \in 0..MaxFaults /\ late' \in SUBSET (Archives \X SUBSET Entries)
      /\ UNCHANGED <<row, archiveVars, items, object, late>>
  BY DEF ArchiveInv, TypeOK, Start
<1>6. QED BY <1>2, <1>3, <1>4, <1>5, RunOnly

LEMMA LoadStep == ASSUME ArchiveInv, NEW r \in Runs, Load(r) PROVE ArchiveInv'
<1> DEFINE a == run[r].archive
           rows == IF Holds(r) THEN items[a] ELSE {}
<1>1. UNCHANGED <<row, archiveVars, items, object, late>>
      /\ faults' \in 0..MaxFaults /\ late' \in SUBSET (Archives \X SUBSET Entries)
  BY DEF ArchiveInv, TypeOK, Load
<1>2. CASE rows = {}
  BY <1>1, <1>2, QuietEnd DEF Load
<1>3. CASE rows # {}
  <2> DEFINE s == [run[r] EXCEPT !.pc = "put", !.entries = rows]
  <2>1. run[r].pc = "load" /\ run' = [run EXCEPT ![r] = s] /\ Holds(r) /\ rows = items[a]
    BY <1>3 DEF Load
  <2>2. a \in Archives /\ run[r].token \in Tokens
        /\ status[a] \in {"pending", "ready"} /\ ~expired[a]
    BY <2>1, RunType DEF Sound
  <2>3. Cardinality(rows) <= count[a] /\ rows \in SUBSET Entries
    BY <2>1, <2>2 DEF ArchiveInv, ArchivesSound, TypeOK, Holds
  <2>4. /\ s \in RunState /\ s.pc = "put" /\ s.archive = a /\ s.token = run[r].token
        /\ s.entries = rows
    BY <2>3, RunType DEF RunState
  <2> HIDE DEF s
  <2>5. Sound(s)
    BY <1>3, <2>1, <2>2, <2>3, <2>4 DEF Sound
  <2>6. QED BY <1>1, <2>1, <2>4, <2>5, RunOnly
<1>4. QED BY <1>2, <1>3

LEMMA FaultStep == ASSUME ArchiveInv, NEW r \in Runs, RunFault(r) PROVE ArchiveInv'
<1> DEFINE w == <<run[r].archive, run[r].entries>>
<1>1. late' \in IF run[r].pc = "put" THEN {late, late \cup {w}} ELSE {late}
  BY DEF RunFault
<1>2. run[r].pc = "put" =>
        /\ w \in Archives \X SUBSET Entries
        /\ status[w[1]] \in {"pending", "ready"} /\ ~expired[w[1]] /\ w[2] # {}
  BY RunType DEF Sound, RunState
<1> HIDE DEF w
<1>3. late \in SUBSET (Archives \X SUBSET Entries)
  BY DEF ArchiveInv, TypeOK
<1>4. /\ late' \in SUBSET (Archives \X SUBSET Entries)
      /\ \A v \in late' : v \in late \/ (status[v[1]] \in {"pending", "ready"}
                                     /\ ~expired[v[1]] /\ v[2] # {})
  BY <1>1, <1>2, <1>3
<1>5. run' = [run EXCEPT ![r] = NoRun] /\ faults' \in 0..MaxFaults
      /\ UNCHANGED <<row, archiveVars, items, object>>
  BY FaultType DEF RunFault, EndRun
<1>6. QED BY <1>4, <1>5, NoRunSound, RunOnly

\* A run goes on after one object changed.
LEMMA ObjectStep ==
  ASSUME ArchiveInv, NEW r \in Runs, NEW s \in RunState, run' = [run EXCEPT ![r] = s],
         NEW a \in Archives, NEW f \in SUBSET Entries,
         object' = [object EXCEPT ![a] = f],
         \/ f = {} /\ expired[a]
         \/ /\ object[a] \in {{}, f} /\ f # {}
            /\ status[a] \in {"pending", "ready"} /\ ~expired[a],
         Sound(s)', faults' \in 0..MaxFaults,
         UNCHANGED <<row, archiveVars, items, late>>
  PROVE  ArchiveInv'
<1>1. /\ object' \in [Archives -> SUBSET Entries]
      /\ ExactlyOneFile' /\ ReadyIsServed' /\ NoOrphanFiles'
      /\ ArchivesSound' /\ ItemsAreOld'
      /\ \A x \in RunState : Sound(x) => Sound(x)'
  BY ObjectOnly
<1>2. RunsSound' /\ run' \in [Runs -> RunState]
  BY <1>1, OtherRuns
<1>3. TypeOK' /\ LateSound'
  BY <1>1, <1>2 DEF ArchiveInv, TypeOK, Pending, LateSound, archiveVars
<1>4. QED BY <1>1, <1>2, <1>3 DEF ArchiveInv

LEMMA DeleteStep ==
  ASSUME ArchiveInv, NEW r \in Runs, DeleteObject(r) \/ DeleteFails(r)
  PROVE  ArchiveInv'
<1>1. CASE DeleteObject(r)
  <2>1. PICK a \in run[r].todo :
          /\ object' = [object EXCEPT ![a] = {}]
          /\ run' = [run EXCEPT ![r].pc = "drop", ![r].archive = a]
    BY <1>1 DEF DeleteObject
  <2>2. run[r].pc = "clean" /\ a \in Archives /\ expired[a]
        /\ \A b \in run[r].todo : expired[b] /\ status[b] \in {"ready", "dropped"}
    BY <1>1, RunType DEF DeleteObject, Sound, RunState
  <2>3. PICK s \in RunState : s = [run[r] EXCEPT !.pc = "drop", !.archive = a]
    BY <2>2, RunType DEF RunState
  <2>4. run' = [run EXCEPT ![r] = s]
        /\ s.pc = "drop" /\ s.archive = a /\ s.todo = run[r].todo
    BY <2>1, <2>3, RunType DEF RunState
  <2>5. object'[a] = {} /\ UNCHANGED <<row, archiveVars, items, late>>
        /\ faults' \in 0..MaxFaults
    BY <1>1, <2>1, <2>2 DEF ArchiveInv, TypeOK, DeleteObject
  <2>6. Sound(s)'
    BY <2>1, <2>2, <2>4, <2>5 DEF Sound, archiveVars
  <2>7. QED BY <2>1, <2>2, <2>3, <2>4, <2>5, <2>6, ObjectStep
<1>2. CASE DeleteFails(r)
  <2>1. PICK a \in run[r].todo, gone \in BOOLEAN :
          /\ object' = IF gone THEN [object EXCEPT ![a] = {}] ELSE object
          /\ run' = [run EXCEPT ![r] = NoRun]
    BY <1>2 DEF DeleteFails, GiveUp
  <2>2. run[r].pc = "clean" /\ a \in Archives /\ expired[a]
    BY <1>2, RunType DEF DeleteFails, Sound, RunState
  <2>3. UNCHANGED <<row, archiveVars, items, late>> /\ faults' \in 0..MaxFaults
    BY <1>2, FaultType DEF DeleteFails
  <2>4. CASE gone
    <3>1. NoRun \in RunState /\ Sound(NoRun)'
      BY NoRunSound DEF Sound, NoRun
    <3>2. QED BY <2>1, <2>2, <2>3, <2>4, <3>1, ObjectStep
  <2>5. CASE ~gone
    BY <2>1, <2>3, <2>5, QuietEnd DEF EndRun
  <2>6. QED BY <2>4, <2>5
<1>3. QED BY <1>1, <1>2

LEMMA PutStep == ASSUME ArchiveInv, NEW r \in Runs, PutFile(r) PROVE ArchiveInv'
<1> DEFINE a == run[r].archive
           f == run[r].entries
<1>1. UNCHANGED <<row, archiveVars, items, late>> /\ faults' \in 0..MaxFaults
      /\ run[r].pc = "put"
  BY DEF ArchiveInv, TypeOK, PutFile
<1>2. /\ a \in Archives /\ run[r].token \in Tokens
      /\ status[a] \in {"pending", "ready"} /\ ~expired[a]
      /\ f \in SUBSET Entries /\ f # {}
      /\ Owns(run[r]) => items[a] \subseteq f /\ Cardinality(f) <= count[a]
  BY <1>1, RunType DEF Sound, RunState
<1>3. CASE object[a] \in {{}, f}
  <2>0. PICK s \in RunState : s = [run[r] EXCEPT !.pc = "finalize"]
    BY RunType DEF RunState
  <2>1. object' = [object EXCEPT ![a] = f] /\ run' = [run EXCEPT ![r] = s]
    BY <1>3, <2>0 DEF PutFile
  <2>2. s.pc = "finalize" /\ s.archive = a /\ s.token = run[r].token /\ s.entries = f
    BY <2>0, RunType DEF RunState
  <2>3. object'[a] = f
    BY <1>2, <2>1 DEF ArchiveInv, TypeOK
  <2>4. Owns(s)' => Owns(run[r])
    BY <1>1, <2>2 DEF Owns, archiveVars
  <2>5. Sound(s)'
    BY <1>1, <1>2, <2>2, <2>3, <2>4 DEF Sound, archiveVars
  <2>6. QED BY <1>1, <1>2, <1>3, <2>1, <2>2, <2>5, ObjectStep
<1>4. CASE object[a] \notin {{}, f}
  BY <1>1, <1>4, QuietEnd DEF PutFile
<1>5. QED BY <1>3, <1>4

LEMMA DropStep == ASSUME ArchiveInv, NEW r \in Runs, DropArchive(r) PROVE ArchiveInv'
<1> DEFINE a == run[r].archive
           rest == run[r].todo \ {a}
<1>1. UNCHANGED <<row, token, lapsed, count, items, sha, expired, object, late>>
      /\ faults' \in 0..MaxFaults /\ run[r].pc = "drop"
  BY DEF ArchiveInv, TypeOK, DropArchive
<1>2. /\ object[a] = {} /\ rest \in SUBSET Archives
      /\ \A b \in rest : expired[b] /\ status[b] \in {"ready", "dropped"}
  BY <1>1, RunType DEF Sound, RunState
<1>3. CASE a \in Expired
  <2>1. a \in Archives /\ status[a] = "ready" /\ expired[a]
    BY <1>3 DEF Expired
  <2>2. PICK s \in RunState :
          s = IF rest = {} THEN NoRun ELSE [NoRun EXCEPT !.pc = "clean", !.todo = rest]
    <3>1. [NoRun EXCEPT !.pc = "clean", !.todo = rest] \in RunState
      BY <1>2 DEF NoRun, RunState
    <3>2. QED BY <3>1, NoRunSound
  <2>3. status' = [status EXCEPT ![a] = "dropped"] /\ run' = [run EXCEPT ![r] = s]
    BY <1>3, <2>2 DEF DropArchive
  <2>4. \A b \in Archives : status'[b] = IF b = a THEN "dropped" ELSE status[b]
    BY <2>3 DEF ArchiveInv, TypeOK
  <2>5. s.pc \in {"idle", "clean"} /\ s.todo \subseteq rest
    BY <2>2 DEF NoRun
  <2>6. Sound(s)'
    BY <1>1, <1>2, <2>4, <2>5 DEF Sound
  <2>7. ASSUME NEW x \in RunState, Sound(x) PROVE Sound(x)'
    <3>1. x.todo \subseteq Archives
      BY DEF RunState
    <3>2. x.pc \in {"load", "put", "finalize"} => x.archive \in Archives /\ x.archive # a
      BY <2>1, <2>7 DEF Sound
    <3>3. QED BY <1>1, <2>4, <2>7, <3>1, <3>2 DEF Sound, Owns
  <2>8. RunsSound' /\ run' \in [Runs -> RunState]
    BY <2>3, <2>6, <2>7, OtherRuns
  <2>9. TypeOK'
    <3>1. status' \in [Archives -> {"none", "pending", "ready", "dropped"}]
      BY <2>3 DEF ArchiveInv, TypeOK
    <3>2. \A b \in Archives : /\ status'[b] = "pending" <=> token'[b] # None
                              /\ status'[b] = "ready" => count[b] > 0 /\ sha[b] # {}
      BY <1>1, <2>1, <2>4 DEF ArchiveInv, TypeOK
    <3>3. Pending' \subseteq Pending
      BY <2>4 DEF Pending
    <3>4. QED BY <1>1, <2>8, <3>1, <3>2, <3>3 DEF ArchiveInv, TypeOK
  <2>10. ExactlyOneFile' /\ ItemsAreOld'
    BY <1>1 DEF ArchiveInv, ExactlyOneFile, ItemsAreOld
  <2>11. ReadyIsServed' /\ NoOrphanFiles' /\ ArchivesSound'
    BY <1>1, <1>2, <2>1, <2>4 DEF ArchiveInv, ReadyIsServed, NoOrphanFiles, ArchivesSound
  <2>12. LateSound'
    BY <1>1, <2>1, <2>4 DEF ArchiveInv, LateSound, TypeOK
  <2>13. QED BY <2>8, <2>9, <2>10, <2>11, <2>12 DEF ArchiveInv
<1>4. CASE a \notin Expired
  <2>1. UNCHANGED status /\ EndRun(r)
    BY <1>4 DEF DropArchive
  <2>2. QED BY <1>1, <2>1, QuietEnd DEF archiveVars
<1>5. QED BY <1>3, <1>4

LEMMA ResumeStep == ASSUME ArchiveInv, NEW r \in Runs, Resume(r) PROVE ArchiveInv'
<1>1. PICK a \in Resumable(r), t \in Fresh :
        /\ token' = [token EXCEPT ![a] = t]
        /\ lapsed' = [lapsed EXCEPT ![a] = FALSE]
        /\ run' = [run EXCEPT ![r] = [NoRun EXCEPT !.pc = "load", !.archive = a, !.token = t]]
  BY DEF Resume
<1>2. /\ a \in Archives /\ status[a] = "pending" /\ t \in Tokens
      /\ \A q \in Runs : run[q].token # t
      /\ ~expired[a]
  BY <1>1 DEF Resumable, Pending, Fresh, ArchiveInv, ArchivesSound
<1>3. UNCHANGED <<row, status, count, items, sha, expired, object, late>>
      /\ faults' \in 0..MaxFaults
  BY DEF ArchiveInv, TypeOK, Resume
<1>4. PICK s \in RunState : s = [NoRun EXCEPT !.pc = "load", !.archive = a, !.token = t]
  BY <1>2 DEF NoRun, RunState
<1>5. run' = [run EXCEPT ![r] = s] /\ s.pc = "load" /\ s.archive = a /\ s.token = t
  BY <1>1, <1>4 DEF NoRun
<1>6. Sound(s)'
  BY <1>2, <1>3, <1>5 DEF Sound
<1>7. token' \in [Archives -> Tokens \cup {None}]
      /\ \A b \in Archives : token'[b] = IF b = a THEN t ELSE token[b]
  BY <1>1, <1>2 DEF ArchiveInv, TypeOK
<1>8. ASSUME NEW x \in RunState, \E q \in Runs \ {r} : run[q] = x, Sound(x) PROVE Sound(x)'
  <2>1. x.token # t
    BY <1>2, <1>8
  <2>2. x.archive \in Archives /\ Owns(x)' => Owns(x)
    BY <1>3, <1>7, <2>1 DEF Owns
  <2>3. QED BY <1>3, <1>8, <2>2 DEF Sound
<1>9. RunsSound' /\ run' \in [Runs -> RunState]
  BY <1>5, <1>6, <1>8, OtherRuns
<1>10. TypeOK'
  <2>1. lapsed' \in [Archives -> BOOLEAN]
    BY <1>1 DEF ArchiveInv, TypeOK
  <2>2. \A b \in Archives : status[b] = "pending" <=> token'[b] # None
    BY <1>2, <1>7, ArchiveAssumption DEF ArchiveInv, TypeOK
  <2>3. QED BY <1>3, <1>7, <1>9, <2>1, <2>2 DEF ArchiveInv, TypeOK, Pending
<1>11. ExactlyOneFile' /\ ReadyIsServed' /\ NoOrphanFiles' /\ ArchivesSound'
       /\ ItemsAreOld' /\ LateSound'
  BY <1>3 DEF ArchiveInv, ExactlyOneFile, ReadyIsServed, NoOrphanFiles, ArchivesSound,
              ItemsAreOld, LateSound
<1>12. QED BY <1>9, <1>10, <1>11 DEF ArchiveInv

LEMMA ClaimStep == ASSUME ArchiveInv, NEW r \in Runs, ClaimNew(r) PROVE ArchiveInv'
<1>1. PICK a \in Archives, t \in Fresh, S \in SUBSET Unclaimed :
        /\ status[a] = "none" /\ S # {}
        /\ status' = [status EXCEPT ![a] = "pending"]
        /\ token' = [token EXCEPT ![a] = t]
        /\ count' = [count EXCEPT ![a] = Cardinality(S)]
        /\ items' = [items EXCEPT ![a] = S]
        /\ run' = [run EXCEPT ![r] = [NoRun EXCEPT !.pc = "load", !.archive = a, !.token = t]]
  BY DEF ClaimNew
<1>2. /\ t \in Tokens /\ t # None /\ S \in SUBSET Entries /\ Pending = {}
      /\ \A e \in S : row[e] = "old"
  BY <1>1, ArchiveAssumption DEF Fresh, Unclaimed, ClaimNew
<1>3. UNCHANGED <<row, lapsed, sha, expired, object, late>> /\ faults' \in 0..MaxFaults
  BY DEF ArchiveInv, TypeOK, ClaimNew
<1>4. /\ \A b \in Archives : status'[b] = IF b = a THEN "pending" ELSE status[b]
      /\ \A b \in Archives : token'[b] = IF b = a THEN t ELSE token[b]
      /\ \A b \in Archives : count'[b] = IF b = a THEN Cardinality(S) ELSE count[b]
      /\ \A b \in Archives : items'[b] = IF b = a THEN S ELSE items[b]
  BY <1>1 DEF ArchiveInv, TypeOK
<1>5. Cardinality(S) \in Nat /\ Cardinality(S) > 0
  <2>1. IsFiniteSet(S)
    BY <1>2, ArchiveAssumption, FS_Subset
  <2>2. QED BY <1>1, <2>1, FS_CardinalityType, FS_EmptySet
<1>6. ~expired[a] /\ sha[a] = {} /\ object[a] = {}
  BY <1>1 DEF ArchiveInv, ArchivesSound, NoOrphanFiles
<1>7. PICK s \in RunState : s = [NoRun EXCEPT !.pc = "load", !.archive = a, !.token = t]
  BY <1>2 DEF NoRun, RunState
<1>8. run' = [run EXCEPT ![r] = s] /\ s.pc = "load" /\ s.archive = a /\ s.token = t
  BY <1>1, <1>7 DEF NoRun
<1>9. Sound(s)'
  BY <1>2, <1>3, <1>4, <1>6, <1>8 DEF Sound
<1>10. ASSUME NEW x \in RunState, Sound(x) PROVE Sound(x)'
  <2>1. x.todo \subseteq Archives
    BY DEF RunState
  <2>2. x.pc \in {"load", "put", "finalize"} => x.archive \in Archives /\ x.archive # a
    BY <1>1, <1>10 DEF Sound
  <2>3. QED BY <1>1, <1>3, <1>4, <1>10, <2>1, <2>2 DEF Sound, Owns
<1>11. RunsSound' /\ run' \in [Runs -> RunState]
  BY <1>8, <1>9, <1>10, OtherRuns
<1>12. TypeOK'
  <2>1. /\ status' \in [Archives -> {"none", "pending", "ready", "dropped"}]
        /\ token' \in [Archives -> Tokens \cup {None}]
        /\ count' \in [Archives -> Nat]
        /\ items' \in [Archives -> SUBSET Entries]
    BY <1>1, <1>2, <1>5 DEF ArchiveInv, TypeOK
  <2>2. \A b \in Archives :
          /\ status'[b] = "pending" <=> token'[b] # None
          /\ status'[b] = "ready" => count'[b] > 0 /\ sha[b] # {}
    BY <1>2, <1>4 DEF ArchiveInv, TypeOK
  <2>3. Pending' \subseteq {a}
    BY <1>2, <1>4 DEF Pending
  <2>4. QED BY <1>3, <1>11, <2>1, <2>2, <2>3 DEF ArchiveInv, TypeOK
<1>13. ExactlyOneFile' /\ ReadyIsServed' /\ NoOrphanFiles'
  BY <1>3, <1>4 DEF ArchiveInv, ExactlyOneFile, ReadyIsServed, NoOrphanFiles
<1>14. ArchivesSound' /\ ItemsAreOld'
  BY <1>2, <1>3, <1>4, <1>5, <1>6 DEF ArchiveInv, ArchivesSound, ItemsAreOld, TypeOK
<1>15. LateSound'
  BY <1>1, <1>3, <1>4 DEF ArchiveInv, LateSound, TypeOK
<1>16. QED BY <1>11, <1>12, <1>13, <1>14, <1>15 DEF ArchiveInv

\* The owner of an archive has all its items in hand when the count is right.
LEMMA OwnerHasAll ==
  ASSUME ArchiveInv, NEW r \in Runs, run[r].pc = "finalize", Finalized(r)
  PROVE  LET a == run[r].archive IN
         /\ a \in Archives /\ status[a] = "pending" /\ ~expired[a]
         /\ items[a] = run[r].entries /\ object[a] = run[r].entries
         /\ run[r].entries # {} /\ count[a] > 0
<1> DEFINE a == run[r].archive
           f == run[r].entries
<1>1. Owns(run[r]) /\ count[a] = Cardinality(items[a])
  BY DEF Finalized, Holds, Owns, Counted
<1>2. /\ a \in Archives /\ ~expired[a] /\ f # {} /\ object[a] = f
      /\ items[a] \subseteq f /\ Cardinality(f) <= count[a]
  BY <1>1, RunType DEF Sound
<1>3. IsFiniteSet(f) /\ items[a] \in SUBSET f
  BY <1>2, RunType, ArchiveAssumption, FS_Subset DEF RunState
<1>4. Cardinality(items[a]) <= Cardinality(f) /\ Cardinality(f) \in Nat
      /\ Cardinality(items[a]) \in Nat
  BY <1>3, FS_Subset, FS_CardinalityType
<1>5. items[a] = f
  BY <1>1, <1>2, <1>3, <1>4, FS_Subset
<1>6. count[a] > 0 /\ status[a] = "pending"
  BY <1>1, <1>2 DEF ArchiveInv, ArchivesSound, Owns
<1>7. QED BY <1>2, <1>5, <1>6

LEMMA FinalizeStep == ASSUME ArchiveInv, NEW r \in Runs, Finalize(r) PROVE ArchiveInv'
<1> DEFINE a == run[r].archive
           D == items[a]
<1>1. UNCHANGED <<count, expired, object, late>> /\ faults' \in 0..MaxFaults
      /\ run[r].pc = "finalize" /\ EndRun(r)
  BY DEF ArchiveInv, TypeOK, Finalize
<1>2. CASE ~Finalized(r)
  <2>1. /\ UNCHANGED <<status, token, lapsed, sha>>
        /\ row' = [e \in Entries |-> IF e \in {} THEN "archived" ELSE row[e]]
        /\ items' = [b \in Archives |-> items[b] \ {}]
    BY <1>2 DEF Finalize, Retired
  <2>2. row' = row /\ items' = items
    BY <2>1 DEF ArchiveInv, TypeOK
  <2>3. QED BY <1>1, <2>1, <2>2, QuietEnd DEF archiveVars
<1>3. CASE Finalized(r)
  <2>1. /\ a \in Archives /\ status[a] = "pending" /\ ~expired[a]
        /\ D = run[r].entries /\ object[a] = D /\ D # {} /\ count[a] > 0
    BY <1>1, <1>3, OwnerHasAll
  <2>2. /\ \A b \in Archives : status'[b] = IF b = a THEN "ready" ELSE status[b]
        /\ \A b \in Archives : token'[b] = IF b = a THEN None ELSE token[b]
        /\ \A b \in Archives : sha'[b] = IF b = a THEN D ELSE sha[b]
    BY <1>3, <2>1 DEF Finalize, ArchiveInv, TypeOK
  <2>3. \A e \in Entries : row'[e] = IF e \in D THEN "archived" ELSE row[e]
    BY <1>3 DEF Finalize, Retired
  <2>4. items' = [b \in Archives |-> items[b] \ D]
    BY <1>3 DEF Finalize, Retired
  <2>5. \A b \in Archives : b # a => status[b] # "pending" /\ items[b] = {}
    BY <2>1 DEF ArchiveInv, TypeOK, Pending, ArchivesSound
  <2>6. \A b \in Archives : items'[b] = {}
    BY <2>4, <2>5
  <2>7. D \in SUBSET Entries /\ \A e \in D : row[e] = "old"
    BY <2>1 DEF ArchiveInv, TypeOK, ItemsAreOld
  <2>8. ASSUME NEW x \in RunState, Sound(x) PROVE Sound(x)'
    <3>1. x.todo \subseteq Archives
      BY DEF RunState
    <3>2. x.archive \in Archives /\ Owns(x)' => Owns(x) /\ x.archive # a
      BY <2>2 DEF Owns
    <3>3. QED BY <1>1, <2>1, <2>2, <2>6, <2>8, <3>1, <3>2 DEF Sound
  <2>9. NoRun \in RunState /\ Sound(NoRun)' /\ run' = [run EXCEPT ![r] = NoRun]
    BY <1>1, NoRunSound DEF Sound, NoRun, EndRun
  <2>10. RunsSound' /\ run' \in [Runs -> RunState]
    BY <2>8, <2>9, OtherRuns
  <2>11. TypeOK'
    <3>1. /\ status' \in [Archives -> {"none", "pending", "ready", "dropped"}]
          /\ token' \in [Archives -> Tokens \cup {None}]
          /\ lapsed' \in [Archives -> BOOLEAN]
          /\ sha' \in [Archives -> SUBSET Entries]
      <4>1. /\ status' = [status EXCEPT ![a] = "ready"]
            /\ token' = [token EXCEPT ![a] = None]
            /\ lapsed' = [lapsed EXCEPT ![a] = FALSE]
            /\ sha' = [sha EXCEPT ![a] = D]
        BY <1>3, <2>1 DEF Finalize
      <4>2. QED BY <2>7, <4>1 DEF ArchiveInv, TypeOK
    <3>2. /\ items' \in [Archives -> SUBSET Entries]
          /\ row' \in [Entries -> {"unborn", "recent", "old", "archived", "erased"}]
      BY <1>3, <2>4, <2>7 DEF Finalize, ArchiveInv, TypeOK
    <3>3. \A b \in Archives :
            /\ status'[b] = "pending" <=> token'[b] # None
            /\ status'[b] = "ready" => count[b] > 0 /\ sha'[b] # {}
      BY <2>1, <2>2 DEF ArchiveInv, TypeOK
    <3>4. Pending' = {}
      BY <2>2, <2>5 DEF Pending
    <3>5. QED BY <1>1, <2>10, <3>1, <3>2, <3>3, <3>4 DEF ArchiveInv, TypeOK
  <2>12. ExactlyOneFile'
    <3> SUFFICES ASSUME NEW e \in Entries
                 PROVE  LET files == {b \in Archives : e \in sha'[b]} IN
                        IF row'[e] = "archived" THEN \E b \in Archives : files = {b}
                        ELSE files = {}
      BY DEF ExactlyOneFile
    <3>1. sha[a] = {}
      BY <2>1 DEF ArchiveInv, ArchivesSound
    <3>2. CASE e \in D
      <4>1. {b \in Archives : e \in sha[b]} = {}
        BY <2>7, <3>2 DEF ArchiveInv, ExactlyOneFile
      <4>2. {b \in Archives : e \in sha'[b]} = {a}
        BY <2>1, <2>2, <3>2, <4>1
      <4>3. QED BY <2>1, <2>3, <3>2, <4>2
    <3>3. CASE e \notin D
      <4>1. {b \in Archives : e \in sha'[b]} = {b \in Archives : e \in sha[b]}
        BY <2>2, <3>1, <3>3
      <4>2. row'[e] = row[e]
        BY <2>3, <3>3
      <4>3. QED BY <4>1, <4>2 DEF ArchiveInv, ExactlyOneFile
    <3>4. QED BY <3>2, <3>3
  <2>13. ReadyIsServed' /\ NoOrphanFiles'
    BY <1>1, <2>1, <2>2 DEF ArchiveInv, ReadyIsServed, NoOrphanFiles
  <2>14. ArchivesSound' /\ ItemsAreOld'
    BY <1>1, <2>1, <2>2, <2>5, <2>6 DEF ArchiveInv, ArchivesSound, ItemsAreOld
  <2>15. LateSound'
    BY <1>1, <2>2 DEF ArchiveInv, LateSound, TypeOK
  <2>16. QED BY <2>10, <2>11, <2>12, <2>13, <2>14, <2>15 DEF ArchiveInv
<1>4. QED BY <1>2, <1>3

LEMMA LateStep == ASSUME ArchiveInv, LateWrite PROVE ArchiveInv'
<1>1. PICK w \in late :
        /\ late' = late \ {w}
        /\ \/ object' = [object EXCEPT ![w[1]] = IF @ = {} THEN w[2] ELSE @]
           \/ UNCHANGED object
  BY DEF LateWrite
<1>2. UNCHANGED <<row, archiveVars, items, run, faults>>
  BY DEF LateWrite
<1>3. /\ w[1] \in Archives /\ w[2] \in SUBSET Entries /\ w[2] # {}
      /\ status[w[1]] \in {"pending", "ready"} /\ ~expired[w[1]]
      /\ late' \in SUBSET (Archives \X SUBSET Entries)
  BY <1>1 DEF ArchiveInv, TypeOK, LateSound
<1>4. LateSound'
  BY <1>1, <1>2 DEF ArchiveInv, LateSound, archiveVars
<1>5. CASE UNCHANGED object
  <2>1. TypeOK' /\ ExactlyOneFile' /\ ReadyIsServed' /\ NoOrphanFiles'
        /\ ArchivesSound' /\ ItemsAreOld'
    BY <1>2, <1>3, <1>5 DEF ArchiveInv, TypeOK, Pending, ExactlyOneFile, ReadyIsServed,
                            NoOrphanFiles, ArchivesSound, ItemsAreOld, archiveVars
  <2>2. \A x \in RunState : Sound(x) => Sound(x)'
    BY <1>2, <1>5 DEF Sound, Owns, archiveVars
  <2>3. QED BY <1>2, <1>4, <2>1, <2>2, SameRuns DEF ArchiveInv
<1>6. CASE object[w[1]] = {} /\ object' = [object EXCEPT ![w[1]] = w[2]]
  <2>1. /\ object' \in [Archives -> SUBSET Entries]
        /\ ExactlyOneFile' /\ ReadyIsServed' /\ NoOrphanFiles'
        /\ ArchivesSound' /\ ItemsAreOld'
        /\ \A x \in RunState : Sound(x) => Sound(x)'
    BY <1>2, <1>3, <1>6, ObjectOnly
  <2>2. RunsSound'
    BY <1>2, <2>1, SameRuns
  <2>3. TypeOK'
    BY <1>2, <1>3, <2>1 DEF ArchiveInv, TypeOK, Pending, archiveVars
  <2>4. QED BY <1>4, <2>1, <2>2, <2>3 DEF ArchiveInv
<1>7. UNCHANGED object \/ (object[w[1]] = {} /\ object' = [object EXCEPT ![w[1]] = w[2]])
  BY <1>1, <1>3 DEF ArchiveInv, TypeOK
<1>8. QED BY <1>5, <1>6, <1>7

------------------------------------------------------------------------------
LEMMA ArchiveInit == Init => ArchiveInv
<1> SUFFICES ASSUME Init PROVE ArchiveInv
  OBVIOUS
<1> USE DEF Init
<1>1. TypeOK
  BY NoRunSound, ArchiveAssumption DEF TypeOK, Pending
<1>2. ExactlyOneFile /\ ReadyIsServed /\ NoOrphanFiles
  BY DEF ExactlyOneFile, ReadyIsServed, NoOrphanFiles
<1>3. ArchivesSound /\ ItemsAreOld /\ LateSound
  BY DEF ArchivesSound, ItemsAreOld, LateSound
<1>4. RunsSound
  BY NoRunSound DEF RunsSound
<1>5. QED BY <1>1, <1>2, <1>3, <1>4 DEF ArchiveInv

LEMMA ArchiveNext == ArchiveInv /\ [Next]_vars => ArchiveInv'
<1> SUFFICES ASSUME ArchiveInv, [Next]_vars PROVE ArchiveInv'
  OBVIOUS
<1>1. ASSUME NEW e \in Entries, Record(e) \/ Age(e) PROVE ArchiveInv'
  <2>1. PICK v \in {"recent", "old", "erased"} : row' = [row EXCEPT ![e] = v]
    BY <1>1 DEF Record, Age
  <2>2. row[e] \in {"unborn", "recent"} /\ UNCHANGED <<archiveVars, items, object, late, run, faults>>
    BY <1>1 DEF Record, Age
  <2>3. \A a \in Archives : e \notin items[a]
    BY <2>2 DEF ArchiveInv, ItemsAreOld
  <2>4. items' = [a \in Archives |-> items[a] \ {e}]
    BY <2>2, <2>3 DEF ArchiveInv, TypeOK
  <2>5. QED BY <2>1, <2>2, <2>4, LogStep
<1>2. ASSUME NEW e \in Entries, Erase(e) PROVE ArchiveInv'
  BY <1>2, LogStep DEF Erase
<1>3. ASSUME NEW a \in Archives, Lapse(a) \/ Expire(a) PROVE ArchiveInv'
  BY <1>3, ClockStep
<1>4. ASSUME NEW r \in Runs, JobStep(r) PROVE ArchiveInv'
  <2>1. CASE Start(r)
    BY <2>1, StartStep
  <2>2. CASE DeleteObject(r)
    BY <2>2, DeleteStep
  <2>3. CASE DropArchive(r)
    BY <2>3, DropStep
  <2>4. CASE Resume(r)
    BY <2>4, ResumeStep
  <2>5. CASE ClaimNew(r)
    BY <2>5, ClaimStep
  <2>6. CASE ClaimNothing(r)
    <3>1. EndRun(r) /\ UNCHANGED <<row, archiveVars, items, object, late, faults>>
      BY <2>6 DEF ClaimNothing
    <3>2. faults' \in 0..MaxFaults
      BY <3>1 DEF ArchiveInv, TypeOK
    <3>3. QED BY <3>1, <3>2, QuietEnd
  <2>7. CASE Load(r)
    BY <2>7, LoadStep
  <2>8. CASE PutFile(r)
    BY <2>8, PutStep
  <2>9. CASE Finalize(r)
    BY <2>9, FinalizeStep
  <2>10. QED BY <1>4, <2>1, <2>2, <2>3, <2>4, <2>5, <2>6, <2>7, <2>8, <2>9 DEF JobStep
<1>5. ASSUME NEW r \in Runs, DeleteFails(r) \/ RunFault(r) PROVE ArchiveInv'
  BY <1>5, DeleteStep, FaultStep
<1>6. CASE LateWrite
  BY <1>6, LateStep
<1>7. CASE UNCHANGED vars
  <2> USE <1>7 DEF vars, archiveVars
  <2>1. TypeOK' /\ ExactlyOneFile' /\ ReadyIsServed' /\ NoOrphanFiles'
    BY DEF ArchiveInv, TypeOK, Pending, ExactlyOneFile, ReadyIsServed, NoOrphanFiles
  <2>2. ArchivesSound' /\ ItemsAreOld' /\ LateSound'
    BY DEF ArchiveInv, ArchivesSound, ItemsAreOld, LateSound
  <2>3. \A x \in RunState : Sound(x) => Sound(x)'
    BY DEF Sound, Owns
  <2>4. QED BY <2>1, <2>2, <2>3, SameRuns DEF ArchiveInv
<1>8. QED BY <1>1, <1>2, <1>3, <1>4, <1>5, <1>6, <1>7 DEF Next

\* The inductive invariant holds in every reachable state.
THEOREM ArchiveInvariant == Spec => []ArchiveInv
BY ArchiveInit, ArchiveNext, PTL DEF Spec

\* Types and the constraints of audit_archives hold, among them that at most one
\* archive is pending.
THEOREM ArchiveTypes == Spec => []TypeOK
<1>1. ArchiveInv => TypeOK
  BY DEF ArchiveInv
<1>2. QED BY <1>1, ArchiveInvariant, PTL

\* No audit entry is lost or exported twice, however the runs of the job overlap.
THEOREM NothingLostOrRepeated == Spec => []ExactlyOneFile
<1>1. ArchiveInv => ExactlyOneFile
  BY DEF ArchiveInv
<1>2. QED BY <1>1, ArchiveInvariant, PTL

\* Every finished archive keeps, for a year, the very file its digest describes.
THEOREM ArchivesAreServed == Spec => []ReadyIsServed
<1>1. ArchiveInv => ReadyIsServed
  BY DEF ArchiveInv
<1>2. QED BY <1>1, ArchiveInvariant, PTL

\* Retention leaves no file behind, whatever fails on the way.
THEOREM RetentionForgetsNothing == Spec => []NoOrphanFiles
<1>1. ArchiveInv => NoOrphanFiles
  BY DEF ArchiveInv
<1>2. QED BY <1>1, ArchiveInvariant, PTL
------------------------------------------------------------------------------
\* Refinement of the abstract log.

InLog == {e \in Entries : row[e] \in {"recent", "old"}}
Known == {e \in Entries : row[e] # "unborn"}
Files == [a \in Archives |-> Download(a)]
Kept == {a \in Archives : status[a] = "ready" /\ ~expired[a]}
logState == <<InLog, Known, sha, Files, Kept>>

\* Steps that move no entry and change no file that can be downloaded.
LEMMA QuietFiles ==
  ASSUME UNCHANGED <<row, sha>>,
         \A a \in Archives : Download(a)' = Download(a) /\ (a \in Kept)' = (a \in Kept)
  PROVE  UNCHANGED logState
BY DEF logState, InLog, Known, Files, Kept

LEMMA RecordRefines ==
  ASSUME ArchiveInv, NEW e \in Entries, Record(e) \/ Age(e) \/ Erase(e)
  PROVE  [Log!Next]_logState
<1>1. UNCHANGED <<status, expired, sha, object>>
  BY DEF Record, Age, Erase, archiveVars
<1>2. Files' = Files /\ Kept' = Kept
  BY <1>1 DEF Files, Download, Kept
<1>3. CASE Record(e)
  <2>1. row[e] = "unborn" /\ \A d \in Entries : row'[d] = IF d = e THEN "recent" ELSE row[d]
    BY <1>3 DEF Record, ArchiveInv, TypeOK
  <2>2. e \notin Known /\ InLog' = InLog \cup {e} /\ Known' = Known \cup {e}
    BY <2>1 DEF InLog, Known
  <2>3. Log!Record(e)
    BY <1>1, <1>2, <2>2 DEF Log!Record, InLog, Known, Files, Kept
  <2>4. QED BY <2>3 DEF Log!Next
<1>4. CASE Age(e)
  <2>1. row[e] = "recent" /\ \A d \in Entries : row'[d] = IF d = e THEN "old" ELSE row[d]
    BY <1>4 DEF Age, ArchiveInv, TypeOK
  <2>2. InLog' = InLog /\ Known' = Known
    BY <2>1 DEF InLog, Known
  <2>3. QED BY <1>1, <1>2, <2>2 DEF logState
<1>5. CASE Erase(e)
  <2>1. /\ row[e] \in {"recent", "old"} /\ e \in TestEntries
        /\ \A d \in Entries : row'[d] = IF d = e THEN "erased" ELSE row[d]
    BY <1>5 DEF Erase, ArchiveInv, TypeOK
  <2>2. e \in InLog \cap TestEntries /\ InLog' = InLog \ {e} /\ Known' = Known
    BY <2>1 DEF InLog, Known
  <2>3. Log!Withdraw(e)
    BY <1>1, <1>2, <2>2 DEF Log!Withdraw, InLog, Known, Files, Kept
  <2>4. QED BY <2>3 DEF Log!Next
<1>6. QED BY <1>3, <1>4, <1>5

\* A year ends for an archive, and nothing else.
LEMMA ExpireRefines ==
  ASSUME ArchiveInv, NEW a \in Archives, Expire(a)
  PROVE  Log!Next
<1>1. /\ status[a] = "ready" /\ ~expired[a] /\ UNCHANGED <<row, status, sha, object>>
      /\ \A b \in Archives : expired'[b] = IF b = a THEN TRUE ELSE expired[b]
  BY DEF Expire, ArchiveInv, TypeOK
<1>2. a \in Kept /\ Kept' = Kept \ {a} /\ Files' = Files
  BY <1>1 DEF Files, Download, Kept
<1>3. Log!YearEnds(a)
  BY <1>1, <1>2 DEF Log!YearEnds, InLog, Known, Files, Kept
<1>4. QED BY <1>3 DEF Log!Next

\* Finishing an archive is an export of the entries in its file.
LEMMA FinalizeRefines ==
  ASSUME ArchiveInv, NEW r \in Runs, Finalize(r)
  PROVE  [Log!Next]_logState
<1>1. UNCHANGED <<expired, object>> /\ run[r].pc = "finalize"
  BY DEF Finalize
<1>2. CASE Finalized(r)
  <2>1. PICK a \in Archives :
          /\ a = run[r].archive /\ status[a] = "pending" /\ ~expired[a]
          /\ items[a] = run[r].entries /\ object[a] = items[a] /\ items[a] # {}
    BY <1>1, <1>2, OwnerHasAll
  <2>2. PICK S : S = items[a]
    OBVIOUS
  <2>3. /\ \A b \in Archives : status'[b] = IF b = a THEN "ready" ELSE status[b]
        /\ sha' = [sha EXCEPT ![a] = S] /\ sha[a] = {}
        /\ \A e \in Entries : row'[e] = IF e \in S THEN "archived" ELSE row[e]
    BY <1>2, <2>1, <2>2 DEF Finalize, Retired, ArchiveInv, TypeOK, ArchivesSound
  <2>4. S \in SUBSET Entries /\ \A e \in S : row[e] = "old"
    BY <2>1, <2>2 DEF ArchiveInv, TypeOK, ItemsAreOld
  <2>5. S \in SUBSET InLog /\ InLog' = InLog \ S /\ Known' = Known
    BY <2>3, <2>4 DEF InLog, Known
  <2>6. Files' = [Files EXCEPT ![a] = S] /\ Kept' = Kept \cup {a}
    <3>1. \A b \in Archives : sha'[b] = IF b = a THEN S ELSE sha[b]
      BY <2>3 DEF ArchiveInv, TypeOK
    <3>2. \A b \in Archives : Download(b)' = IF b = a THEN S ELSE Download(b)
      BY <1>1, <2>1, <2>2, <2>3, <3>1 DEF Download
    <3>3. Kept' = Kept \cup {a}
      BY <1>1, <2>1, <2>2, <2>3 DEF Kept
    <3>4. QED BY <3>2, <3>3 DEF Files
  <2>7. Log!Export(a, S)
    BY <2>1, <2>2, <2>3, <2>5, <2>6 DEF Log!Export, InLog, Known, Files, Kept
  <2>8. QED BY <2>1, <2>5, <2>7 DEF Log!Next, InLog
<1>3. CASE ~Finalized(r)
  <2>1. UNCHANGED <<status, sha>> /\ row' = row
    BY <1>3 DEF Finalize, Retired, ArchiveInv, TypeOK
  <2>2. QED BY <1>1, <2>1, QuietFiles DEF Download, Kept
<1>4. QED BY <1>2, <1>3

\* Retention deletes files of archives whose year is over, and each but once.
LEMMA DeleteRefines ==
  ASSUME ArchiveInv, NEW r \in Runs, DeleteObject(r) \/ DeleteFails(r)
  PROVE  [Log!Next]_logState
<1>1. UNCHANGED <<row, status, expired, sha>>
  BY DEF DeleteObject, DeleteFails, archiveVars
<1>2. PICK a \in run[r].todo : object' = [object EXCEPT ![a] = {}] \/ UNCHANGED object
  BY DEF DeleteObject, DeleteFails
<1>3. a \in Archives /\ expired[a] /\ status[a] \in {"ready", "dropped"}
  BY RunType DEF DeleteObject, DeleteFails, Sound, RunState
<1>4. CASE Download(a)' = Download(a) \/ UNCHANGED object
  <2>1. \A b \in Archives : Download(b)' = Download(b)
    BY <1>1, <1>2, <1>4 DEF Download, ArchiveInv, TypeOK
  <2>2. QED BY <1>1, <2>1, QuietFiles DEF Kept
<1>5. CASE Download(a)' # Download(a) /\ object' = [object EXCEPT ![a] = {}]
  <2>1. \A b \in Archives : object'[b] = IF b = a THEN {} ELSE object[b]
    BY <1>5 DEF ArchiveInv, TypeOK
  <2>2. Files[a] # {} /\ Files' = [Files EXCEPT ![a] = {}]
    BY <1>1, <1>3, <1>5, <2>1 DEF Files, Download
  <2>3. a \notin Kept /\ Kept' = Kept
    BY <1>1, <1>3 DEF Kept
  <2>4. Log!Retire(a)
    BY <1>1, <2>2, <2>3 DEF Log!Retire, InLog, Known, Files, Kept
  <2>5. QED BY <1>3, <2>4 DEF Log!Next
<1>6. QED BY <1>2, <1>4, <1>5

\* A write changes no file of an archive that is finished, and none that retention
\* has deleted comes back.
LEMMA WritesRefine ==
  ASSUME ArchiveInv, LateWrite \/ \E r \in Runs : PutFile(r)
  PROVE  UNCHANGED logState
<1>1. UNCHANGED <<row, status, expired, sha>>
  BY DEF PutFile, LateWrite, archiveVars
<1>2. CASE UNCHANGED object
  BY <1>1, <1>2, QuietFiles DEF Download, Kept
<1>3. ASSUME NEW a \in Archives, NEW f, ~expired[a],
             object[a] \in {{}, f} \/ object[a] = f, object' = [object EXCEPT ![a] = f]
      PROVE  UNCHANGED logState
  <2>1. \A b \in Archives : object'[b] = IF b = a THEN f ELSE object[b]
    BY <1>3 DEF ArchiveInv, TypeOK
  <2>2. status[a] = "ready" => object[a] # {}
    BY <1>3 DEF ArchiveInv, TypeOK, ReadyIsServed
  <2>3. \A b \in Archives : Download(b)' = Download(b)
    BY <1>1, <1>3, <2>1, <2>2 DEF Download
  <2>4. QED BY <1>1, <2>3, QuietFiles DEF Kept
<1>4. ASSUME NEW r \in Runs, PutFile(r) PROVE UNCHANGED logState
  <2>1. run[r].archive \in Archives /\ ~expired[run[r].archive]
    BY <1>4, RunType DEF PutFile, Sound
  <2>2. \/ UNCHANGED object
        \/ /\ object[run[r].archive] \in {{}, run[r].entries}
           /\ object' = [object EXCEPT ![run[r].archive] = run[r].entries]
    BY <1>4 DEF PutFile
  <2>3. QED BY <1>2, <1>3, <2>1, <2>2
<1>5. CASE LateWrite
  <2>1. PICK w \in late :
          \/ UNCHANGED object
          \/ object' = [object EXCEPT ![w[1]] = IF @ = {} THEN w[2] ELSE @]
    BY <1>5 DEF LateWrite
  <2>2. w[1] \in Archives /\ ~expired[w[1]]
    BY DEF ArchiveInv, TypeOK, LateSound
  <2>3. QED BY <1>2, <1>3, <2>1, <2>2
<1>6. QED BY <1>4, <1>5

\* Steps of the job that only change claims and their own state.
LEMMA ClaimsRefine ==
  ASSUME ArchiveInv, NEW r \in Runs,
         \/ Start(r) \/ DropArchive(r) \/ Resume(r) \/ ClaimNew(r)
         \/ ClaimNothing(r) \/ Load(r) \/ RunFault(r)
  PROVE  UNCHANGED logState
<1>1. UNCHANGED <<row, expired, sha, object>>
  BY DEF Start, DropArchive, Resume, ClaimNew, ClaimNothing, Load, RunFault, archiveVars
<1>2. CASE UNCHANGED status
  BY <1>1, <1>2, QuietFiles DEF Download, Kept
<1>3. ASSUME NEW a \in Archives, NEW s \in {"pending", "dropped"},
             status[a] = "none" \/ (expired[a] /\ object[a] = {}),
             status' = [status EXCEPT ![a] = s]
      PROVE  UNCHANGED logState
  <2>1. \A b \in Archives : status'[b] = IF b = a THEN s ELSE status[b]
    BY <1>3 DEF ArchiveInv, TypeOK
  <2>2. \A b \in Archives : Download(b)' = Download(b) /\ (b \in Kept)' = (b \in Kept)
    BY <1>1, <1>3, <2>1 DEF Download, Kept
  <2>3. QED BY <1>1, <2>2, QuietFiles
<1>4. CASE DropArchive(r)
  <2>1. object[run[r].archive] = {}
    BY <1>4, RunType DEF DropArchive, Sound
  <2>2. QED BY <1>2, <1>3, <1>4, <2>1 DEF DropArchive, Expired
<1>5. CASE ClaimNew(r)
  BY <1>3, <1>5 DEF ClaimNew
<1>6. CASE Start(r) \/ Resume(r) \/ ClaimNothing(r) \/ Load(r) \/ RunFault(r)
  BY <1>2, <1>6 DEF Start, Resume, ClaimNothing, Load, RunFault, archiveVars
<1>7. QED BY <1>4, <1>5, <1>6

\* Archiving implements the abstract log: finishing an archive is one export of its
\* entries, deleting its file the one retirement, which comes after its year, and no
\* other step of any run, alive, dead or late, shows in the log or in a download.
THEOREM ImplementsAuditLog == Spec => RefinesAuditLog
<1>1. Init => Log!Init
  BY DEF Init, Log!Init, Download
<1>2. ArchiveInv /\ [Next]_vars => [Log!Next]_logState
  <2> SUFFICES ASSUME ArchiveInv, [Next]_vars PROVE [Log!Next]_logState
    OBVIOUS
  <2>1. ASSUME NEW a \in Archives, Lapse(a) PROVE UNCHANGED logState
    BY <2>1, QuietFiles DEF Lapse, Download, Kept
  <2>2. CASE UNCHANGED vars
    BY <2>2, QuietFiles DEF vars, archiveVars, Download, Kept
  <2>3. CASE \E e \in Entries : Record(e) \/ Age(e) \/ Erase(e)
    BY <2>3, RecordRefines
  <2>4. CASE \E a \in Archives : Lapse(a) \/ Expire(a)
    BY <2>1, <2>4, ExpireRefines
  <2>5. ASSUME NEW r \in Runs, JobStep(r) \/ DeleteFails(r) \/ RunFault(r)
        PROVE  [Log!Next]_logState
    BY <2>5, FinalizeRefines, DeleteRefines, WritesRefine, ClaimsRefine DEF JobStep
  <2>6. CASE LateWrite
    BY <2>6, WritesRefine
  <2>7. QED BY <2>2, <2>3, <2>4, <2>5, <2>6 DEF Next
<1>3. QED
  BY <1>1, <1>2, ArchiveInvariant, PTL
  DEF Spec, RefinesAuditLog, Log!Spec, Log!logVars, logState, InLog, Known, Files, Kept
=============================================================================
