------------------------------- MODULE AuditLog -------------------------------
(***************************************************************************)
(* What archiving promises of the audit log, without jobs, claims, leases  *)
(* or files under way: entries leave the log together, in one step, for an *)
(* archive that was never used before, which serves just these entries for *)
(* a year at least, until it is retired, and then never again.             *)
(***************************************************************************)
CONSTANTS
  Entries, Archives,  \* audit ids; archive ids
  TestEntries         \* entries that a system test may withdraw

VARIABLES
  log,      \* the entries in the log
  known,    \* the entries that were ever recorded
  written,  \* the entries each archive was finished with
  served,   \* the entries a download of each archive has; {} if it is refused
  kept      \* the archives in their year

logVars == <<log, known, written, served, kept>>

Init ==
  /\ log = {} /\ known = {} /\ kept = {}
  /\ written = [a \in Archives |-> {}]
  /\ served = [a \in Archives |-> {}]

Record(e) ==
  /\ e \notin known
  /\ log' = log \cup {e} /\ known' = known \cup {e}
  /\ UNCHANGED <<written, served, kept>>

Withdraw(e) ==
  /\ e \in log \cap TestEntries
  /\ log' = log \ {e}
  /\ UNCHANGED <<known, written, served, kept>>

Export(a, S) ==
  /\ S # {} /\ written[a] = {}
  /\ log' = log \ S
  /\ written' = [written EXCEPT ![a] = S]
  /\ served' = [served EXCEPT ![a] = S]
  /\ kept' = kept \cup {a}
  /\ UNCHANGED known

YearEnds(a) ==
  /\ a \in kept
  /\ kept' = kept \ {a}
  /\ UNCHANGED <<log, known, written, served>>

Retire(a) ==
  /\ served[a] # {} /\ a \notin kept
  /\ served' = [served EXCEPT ![a] = {}]
  /\ UNCHANGED <<log, known, written, kept>>

Next ==
  \/ \E e \in Entries : Record(e) \/ Withdraw(e)
  \/ \E a \in Archives : YearEnds(a) \/ Retire(a) \/ \E S \in SUBSET log : Export(a, S)

Spec == Init /\ [][Next]_logVars
==============================================================================
