---------------------------- MODULE SnapshotStore ----------------------------
(***************************************************************************)
(* The router's store and the snapshots it keeps of itself, in a file      *)
(* (persistedStore.ts) or in one row of Postgres (postgresStore.ts).       *)
(*                                                                         *)
(* The store lives in memory.  A write through a tracked Map, Set or array *)
(* arms a timer unless one is armed; the timer calls persist, and so does  *)
(* the first signal of each kind.  A persist that finds another under way  *)
(* returns at once; otherwise it exports the store in one synchronous step *)
(* and writes the copy: to a temporary file that is renamed over the       *)
(* snapshot, or as the upsert of a row.  Its errors are logged and         *)
(* forgotten.  A restart reads the snapshot back; a snapshot it cannot     *)
(* read leaves it with an empty store.                                     *)
(*                                                                         *)
(* The signal's handler does not end the process, which goes on serving;   *)
(* but with Postgres it ends the pool once its persist has returned, and   *)
(* the pool refuses every later persist until the process is started again.*)
(*                                                                         *)
(* A crash is one of the process, not of the machine: what the operating   *)
(* system or the database has accepted stays.  An upsert that fails may    *)
(* have been applied; none is applied after its process has died.          *)
(***************************************************************************)
EXTENDS Naturals

CONSTANTS
  Facts,         \* what may be written to the store, each once
  InPlace,       \* the facts that are written by changing a record in place
  Writers,       \* calls of persist that may be past its guard at one time
  Backends,      \* a subset of {"file", "database"}
  Signals,       \* the signals with a handler
  RestoreFails,  \* the snapshot may be unreadable at a restart
  MaxFailures,   \* bound on persists that fail
  Garbage        \* not a fact: what a half-written file holds

ASSUME StoreConstants ==
  /\ InPlace \subseteq Facts
  /\ Backends \subseteq {"file", "database"}
  /\ RestoreFails \in BOOLEAN
  /\ MaxFailures \in Nat
  /\ Garbage \notin Facts

VARIABLES
  backend,          \* where the snapshot is kept, fixed by the configuration
  up,               \* the process is running
  memory,           \* the store
  states,           \* every state it was in since the last restart (history)
  persistScheduled, \* the timer is armed
  persistInFlight,  \* the guard of persist
  pool,             \* the connections: open, ending after the flush under way, ended
  pc,               \* each persist under way: its await
  snapshot,         \* what it has exported
  tmp,              \* the temporary file
  disk,             \* the snapshot a restart would read
  handled,          \* the signals whose handler has run, and is gone
  failures          \* how many persists have failed (history)

\* The content of a file that was opened for writing and not written yet.
Torn == {Garbage}

process == <<up, memory, states, handled>>
guards == <<persistScheduled, persistInFlight, pool>>
persists == <<pc, snapshot>>
vars == <<backend, process, guards, persists, tmp, disk, failures>>

Init ==
  /\ backend \in Backends
  /\ up = TRUE /\ memory = {} /\ states = {{}} /\ handled = {}
  /\ persistScheduled = FALSE /\ persistInFlight = FALSE /\ pool = "open"
  /\ pc = [w \in Writers |-> "idle"]
  /\ snapshot = [w \in Writers |-> {}]
  /\ tmp = {} /\ disk = {}
  /\ failures = 0

-----------------------------------------------------------------------------
(* The store in memory. *)

\* A tracked write: the change handler arms the timer.
set(fact) ==
  /\ up
  /\ fact \notin memory
  /\ memory' = memory \cup {fact}
  /\ states' = states \cup {memory'}
  /\ persistScheduled' = TRUE
  /\ UNCHANGED <<backend, up, handled, persistInFlight, pool, persists, tmp, disk, failures>>

\* A record is changed in place and not set again: nobody is told.
mutate(fact) ==
  /\ up
  /\ fact \notin memory
  /\ memory' = memory \cup {fact}
  /\ states' = states \cup {memory'}
  /\ UNCHANGED <<backend, up, handled, guards, persists, tmp, disk, failures>>

-----------------------------------------------------------------------------
(* persist. *)

\* Up to its first await: the file's persist awaits mkdir, the database's
\* exports the store and sends it.
Starts(w) ==
  /\ pc[w] = "idle"
  /\ persistInFlight' = TRUE
  /\ \/ /\ backend = "file"
        /\ pc' = [pc EXCEPT ![w] = "mkdir"]
        /\ UNCHANGED snapshot
     \/ /\ backend = "database"
        /\ pc' = [pc EXCEPT ![w] = "upsert"]
        /\ snapshot' = [snapshot EXCEPT ![w] = memory]

\* Faulty variant of persist: a second persist does not wait for the first.
PersistsAnyway == \E w \in Writers : Starts(w)

\* A pool that has ended refuses the query before anything else runs: the
\* flag is set and cleared again.
persist ==
  \/ /\ persistInFlight \/ pool = "ended"
     /\ UNCHANGED <<persistInFlight, persists>>
  \/ /\ ~persistInFlight
     /\ pool # "ended"
     /\ \E w \in Writers : Starts(w)

TimerFires ==
  /\ up
  /\ persistScheduled
  /\ persistScheduled' = FALSE
  /\ persist
  /\ UNCHANGED <<backend, process, pool, tmp, disk, failures>>

\* flushAndClose ends the pool after its persist, at once if that returns at once.
EndsPool ==
  pool' = CASE backend = "file" -> pool
            [] backend = "database" /\ ~persistInFlight /\ pool # "ended" -> "flushing"
            [] OTHER -> "ended"

\* process.once: the first signal of a kind persists, the second ends the process.
Signal(s) ==
  /\ up
  /\ s \notin handled
  /\ handled' = handled \cup {s}
  /\ persist
  /\ EndsPool
  /\ UNCHANGED <<backend, up, memory, states, persistScheduled, tmp, disk, failures>>

\* The directory exists: export, and open the temporary file.
Export(w) ==
  /\ pc[w] = "mkdir"
  /\ pc' = [pc EXCEPT ![w] = "writing"]
  /\ snapshot' = [snapshot EXCEPT ![w] = memory]
  /\ tmp' = Torn
  /\ UNCHANGED <<backend, process, guards, disk, failures>>

Written(w) ==
  /\ pc[w] = "writing"
  /\ pc' = [pc EXCEPT ![w] = "renaming"]
  /\ tmp' = snapshot[w]
  /\ UNCHANGED <<backend, process, guards, snapshot, disk, failures>>

\* Faulty variant of Finishes: the flag is cleared only by a persist that fails.
StaysInFlight(w) ==
  /\ pc' = [pc EXCEPT ![w] = "idle"]
  /\ snapshot' = [snapshot EXCEPT ![w] = {}]
  /\ UNCHANGED <<persistInFlight, pool>>

\* The finally block, and the end of the pool if the persist was a signal's.
Finishes(w) ==
  /\ pc' = [pc EXCEPT ![w] = "idle"]
  /\ snapshot' = [snapshot EXCEPT ![w] = {}]
  /\ persistInFlight' = FALSE
  /\ pool' = IF pool = "flushing" THEN "ended" ELSE pool

Renamed(w) ==
  /\ pc[w] = "renaming"
  /\ disk' = tmp
  /\ Finishes(w)
  /\ UNCHANGED <<backend, process, persistScheduled, tmp, failures>>

Upserted(w) ==
  /\ pc[w] = "upsert"
  /\ disk' = snapshot[w]
  /\ Finishes(w)
  /\ UNCHANGED <<backend, process, persistScheduled, tmp, failures>>

\* The operation throws (a full disk, a lost connection); nobody tries again.
\* The database may have applied the upsert whose answer was lost.
Fails(w) ==
  /\ pc[w] # "idle"
  /\ failures < MaxFailures
  /\ failures' = failures + 1
  /\ \/ UNCHANGED disk
     \/ pc[w] = "upsert" /\ disk' = snapshot[w]
  /\ Finishes(w)
  /\ UNCHANGED <<backend, process, persistScheduled, tmp>>

Advance(w) == Export(w) \/ Written(w) \/ Renamed(w) \/ Upserted(w)

-----------------------------------------------------------------------------
(* The process. *)

\* It dies, by an exception, a second signal or the platform: whatever was
\* not handed over is gone.
Crash ==
  /\ up
  /\ up' = FALSE
  /\ memory' = {}
  /\ states' = {}
  /\ handled' = {}
  /\ persistScheduled' = FALSE /\ persistInFlight' = FALSE /\ pool' = "open"
  /\ pc' = [w \in Writers |-> "idle"]
  /\ snapshot' = [w \in Writers |-> {}]
  /\ UNCHANGED <<backend, tmp, disk, failures>>

\* Faulty variant of Restored: what the temporary file holds is taken as it is.
RestoredFromTmp == memory' = tmp

\* A snapshot that cannot be read or parsed is logged and ignored.
Readable == IF RestoreFails THEN BOOLEAN ELSE {TRUE}

Restored ==
  \E readable \in Readable :
    memory' = IF readable /\ disk # Torn THEN disk ELSE {}

\* importSnapshot notifies nobody: no timer is armed.
Restart ==
  /\ ~up
  /\ up' = TRUE
  /\ Restored
  /\ states' = {memory'}
  /\ UNCHANGED <<backend, handled, guards, persists, tmp, disk, failures>>

Next ==
  \/ \E fact \in Facts : set(fact)
  \/ \E fact \in InPlace : mutate(fact)
  \/ TimerFires
  \/ \E s \in Signals : Signal(s)
  \/ \E w \in Writers : Advance(w) \/ Fails(w)
  \/ Crash
  \/ Restart

\* A timer fires and a file operation or a query is answered, as long as the
\* process lives; nobody is obliged to write, to send a signal or to restart.
Spec ==
  /\ Init /\ [][Next]_vars
  /\ WF_vars(TimerFires) /\ \A w \in Writers : WF_vars(Advance(w))

-----------------------------------------------------------------------------
(* Properties. *)

Snapshots == SUBSET Facts

\* Every variable has its type.
TypeOK ==
  /\ backend \in Backends
  /\ up \in BOOLEAN
  /\ memory \in Snapshots
  /\ states \in SUBSET Snapshots
  /\ persistScheduled \in BOOLEAN /\ persistInFlight \in BOOLEAN
  /\ pool \in {"open", "flushing", "ended"}
  /\ pc \in [Writers -> {"idle", "mkdir", "writing", "renaming", "upsert"}]
  /\ snapshot \in [Writers -> Snapshots]
  /\ tmp \in Snapshots \cup {Torn}
  /\ disk \in Snapshots \cup {Torn}
  /\ handled \in SUBSET Signals
  /\ failures \in 0 .. MaxFailures

\* One persist at a time: the flag that is set before the first await and
\* cleared after the last covers timers, signals, failures and restarts.
OnePersist ==
  \A w \in Writers :
    pc[w] # "idle" => /\ persistInFlight
                      /\ \A v \in Writers : pc[v] # "idle" => v = w

\* What a restart would read is a whole snapshot, at every moment: writing to
\* a temporary file and renaming it leaves no other.
DiskIsWhole == disk # Torn

\* What has been saved stays saved: no persist that is late, and no restart,
\* replaces the snapshot by an older one.
SavedStays == [][disk \subseteq disk']_disk

\* If no persist has exported the store yet, a change for which the timer is
\* armed reaches the disk, unless the process dies, a persist fails or a signal
\* has had the pool of connections ended.
Exported(w) == pc[w] \notin {"idle", "mkdir"}

Awaited(fact) ==
  up /\ persistScheduled /\ fact \in memory /\ \A w \in Writers : ~Exported(w)

ScheduledIsSaved ==
  \A fact \in Facts, n \in 0 .. MaxFailures :
    (Awaited(fact) /\ failures = n) ~> (fact \in disk \/ ~up \/ failures > n \/ pool = "ended")

\* A change for which the timer is armed reaches the disk whatever signals were
\* handled, unless the process dies or a persist fails.  The database's flush
\* refutes it: the process serves on with a pool that has ended.
SavedAfterSignals ==
  \A fact \in Facts, n \in 0 .. MaxFailures :
    (Awaited(fact) /\ failures = n) ~> (fact \in disk \/ ~up \/ failures > n)

\* A store that is at rest has saved what was written to it: no write is left
\* behind that only a later write would save.
RestIsSaved ==
  up /\ ~persistScheduled /\ (\A w \in Writers : pc[w] = "idle") => memory \subseteq disk

\* The store keeps the promise of DurableStore; a process that is down is seen
\* as one that will restart.
Durable == INSTANCE DurableStore WITH
  memory <- IF up THEN memory ELSE disk,
  states <- IF up THEN states ELSE {disk},
  saved <- disk

ImplementsDurable == Durable!Spec

\* The inductive invariant.  A snapshot under way was exported from a state
\* the store was in, and a store only grows while it is up; a temporary file
\* about to be renamed is the snapshot of its writer.  As long as restarts can
\* read the snapshot, the store and what is exported of it cover what is saved.
StoreInv ==
  /\ TypeOK
  /\ OnePersist
  /\ DiskIsWhole
  /\ up => memory \in states /\ \A s \in states : s \subseteq memory
  /\ ~up => ~persistInFlight
  /\ \A w \in Writers : Exported(w) => snapshot[w] \in states
  /\ \A w \in Writers : pc[w] = "renaming" => tmp = snapshot[w]
  /\ ~RestoreFails =>
       /\ up => disk \subseteq memory
       /\ \A w \in Writers : Exported(w) => disk \subseteq snapshot[w]
=============================================================================
