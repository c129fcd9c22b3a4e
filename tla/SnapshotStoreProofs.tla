------------------------ MODULE SnapshotStoreProofs ------------------------
(***************************************************************************)
(* Proofs about SnapshotStore for every set of facts, writers and signals  *)
(* and every number of failures: one persist at a time, a snapshot that is *)
(* always whole, and, when the snapshot can be read at every restart, that *)
(* what was saved stays and that the store implements DurableStore.        *)
(***************************************************************************)
EXTENDS SnapshotStore, TLAPS

\* A file that is half written is no snapshot.
LEMMA TornIsNoSnapshot == Torn \notin Snapshots
BY StoreConstants DEF Torn, Snapshots

\* persist either finds the flag set and changes nothing, or is the only one.
LEMMA PersistEffect ==
  ASSUME StoreInv, persist
  PROVE  \/ UNCHANGED <<persistInFlight, pc, snapshot>>
         \/ /\ ~persistInFlight /\ persistInFlight'
            /\ \A v \in Writers : pc[v] = "idle"
            /\ \E w \in Writers :
                 \/ /\ pc' = [pc EXCEPT ![w] = "mkdir"]
                    /\ UNCHANGED snapshot
                 \/ /\ pc' = [pc EXCEPT ![w] = "upsert"]
                    /\ snapshot' = [snapshot EXCEPT ![w] = memory]
<1>1. CASE UNCHANGED <<persistInFlight, persists>>
  BY <1>1 DEF persists
<1>2. ASSUME ~persistInFlight, NEW w \in Writers, Starts(w)
      PROVE /\ ~persistInFlight /\ persistInFlight'
            /\ \A v \in Writers : pc[v] = "idle"
            /\ \/ /\ pc' = [pc EXCEPT ![w] = "mkdir"]
                  /\ UNCHANGED snapshot
               \/ /\ pc' = [pc EXCEPT ![w] = "upsert"]
                  /\ snapshot' = [snapshot EXCEPT ![w] = memory]
  BY <1>2 DEF Starts, StoreInv, OnePersist
<1> QED
  BY <1>1, <1>2 DEF persist

LEMMA InvInit == Init => StoreInv
<1> SUFFICES ASSUME Init PROVE StoreInv
  OBVIOUS
<1>1. TypeOK
  <2>1. 0 \in 0 .. MaxFailures
    BY StoreConstants
  <2>2. {} \in Snapshots /\ {{}} \in SUBSET Snapshots /\ {} \in SUBSET Signals
    BY DEF Snapshots
  <2> QED
    BY <2>1, <2>2 DEF Init, TypeOK
<1>2. OnePersist
  BY DEF Init, OnePersist
<1>3. disk = {} /\ Torn # {}
  BY DEF Init, Torn
<1> QED
  BY <1>1, <1>2, <1>3 DEF Init, StoreInv, DiskIsWhole, Exported

\* A write to the store, tracked or not: a snapshot under way stays a state the
\* store was in.
LEMMA InvWrite ==
  ASSUME StoreInv, NEW fact \in Facts, set(fact) \/ mutate(fact)
  PROVE  StoreInv'
<1>1. /\ up /\ up' /\ memory' = memory \cup {fact} /\ states' = states \cup {memory'}
      /\ UNCHANGED <<backend, handled, persistInFlight, pool, pc, snapshot, tmp, disk, failures>>
      /\ persistScheduled' \in BOOLEAN
  BY DEF set, mutate, guards, persists, StoreInv, TypeOK
<1>2. TypeOK'
  BY <1>1 DEF StoreInv, TypeOK, Snapshots
<1> QED
  BY <1>1, <1>2 DEF StoreInv, OnePersist, DiskIsWhole, Exported

\* The timer and the signals, which call persist.
LEMMA InvPersist ==
  ASSUME StoreInv, TimerFires \/ \E s \in Signals : Signal(s)
  PROVE  StoreInv'
<1>1. /\ up /\ persist
      /\ UNCHANGED <<backend, up, memory, states, tmp, disk, failures>>
      /\ persistScheduled' \in BOOLEAN /\ handled' \in SUBSET Signals
      /\ pool' \in {"open", "flushing", "ended"}
  BY DEF TimerFires, Signal, EndsPool, process, StoreInv, TypeOK
<1>2. CASE UNCHANGED <<persistInFlight, pc, snapshot>>
  BY <1>1, <1>2 DEF StoreInv, TypeOK, OnePersist, DiskIsWhole, Exported
<1>3. ASSUME NEW w \in Writers,
             \A v \in Writers : pc[v] = "idle",
             persistInFlight',
             \/ /\ pc' = [pc EXCEPT ![w] = "mkdir"]
                /\ UNCHANGED snapshot
             \/ /\ pc' = [pc EXCEPT ![w] = "upsert"]
                /\ snapshot' = [snapshot EXCEPT ![w] = memory]
      PROVE StoreInv'
  <2> USE <1>1, <1>3
  <2>1. TypeOK'
    BY DEF StoreInv, TypeOK
  <2>2. OnePersist'
    BY DEF StoreInv, TypeOK, OnePersist
  <2>3. DiskIsWhole'
    BY DEF StoreInv, DiskIsWhole
  <2>4. ASSUME NEW v \in Writers, Exported(v)'
        PROVE snapshot'[v] = memory
    BY <2>4 DEF Exported, StoreInv, TypeOK
  <2>5. \A v \in Writers : pc'[v] # "renaming"
    BY DEF StoreInv, TypeOK
  <2> QED
    BY <2>1, <2>2, <2>3, <2>4, <2>5 DEF StoreInv
<1> QED
  BY <1>1, <1>2, <1>3, PersistEffect

\* The steps of the one persist that is under way.
LEMMA InvAdvance ==
  ASSUME StoreInv, NEW w \in Writers, Advance(w) \/ Fails(w)
  PROVE  StoreInv'
<1>1. /\ pc[w] # "idle"
      /\ UNCHANGED <<backend, up, memory, states, handled, persistScheduled>>
  BY DEF Advance, Export, Written, Renamed, Upserted, Fails, process, guards
<1>2. up /\ persistInFlight /\ \A v \in Writers : v # w => pc[v] = "idle"
  BY <1>1 DEF StoreInv, OnePersist
<1>3. TypeOK'
  <2>1. tmp \in Snapshots \cup {Torn} /\ snapshot[w] \in Snapshots
    BY DEF StoreInv, TypeOK
  <2>2. failures \in 0 .. MaxFailures /\ failures < MaxFailures => failures + 1 \in 0 .. MaxFailures
    BY StoreConstants
  <2>3. {} \in Snapshots
    BY DEF Snapshots
  <2> QED
    BY <1>1, <2>1, <2>2, <2>3 DEF StoreInv, TypeOK, Advance, Export, Written, Renamed,
       Upserted, Fails, Finishes, process, guards
<1>4. OnePersist'
  <2>1. \A v \in Writers : v # w => pc'[v] = "idle"
    BY <1>2 DEF StoreInv, TypeOK, Advance, Export, Written, Renamed, Upserted, Fails, Finishes
  <2>2. pc'[w] # "idle" => persistInFlight'
    BY <1>2 DEF StoreInv, TypeOK, Advance, Export, Written, Renamed, Upserted, Fails, Finishes,
       guards
  <2> QED
    BY <2>1, <2>2 DEF OnePersist
<1>5. CASE Export(w)
  <2>1. /\ pc'[w] = "writing" /\ snapshot'[w] = memory /\ disk' = disk
        /\ \A v \in Writers : v # w => pc'[v] = "idle"
    BY <1>2, <1>5 DEF Export, StoreInv, TypeOK
  <2> QED
    BY <1>1, <1>2, <1>3, <1>4, <1>5, <2>1 DEF StoreInv, DiskIsWhole, Exported, Export, guards
<1>6. CASE Written(w)
  <2>1. /\ pc'[w] = "renaming" /\ tmp' = snapshot[w] /\ disk' = disk /\ snapshot' = snapshot
        /\ \A v \in Writers : v # w => pc'[v] = "idle"
    BY <1>2, <1>6 DEF Written, StoreInv, TypeOK
  <2>2. Exported(w)
    BY <1>6 DEF Written, Exported
  <2> QED
    BY <1>1, <1>2, <1>3, <1>4, <1>6, <2>1, <2>2 DEF StoreInv, DiskIsWhole, Exported, Written, guards
<1>7. CASE Renamed(w) \/ Upserted(w) \/ Fails(w)
  <2>1. \A v \in Writers : pc'[v] = "idle"
    BY <1>2, <1>7 DEF Renamed, Upserted, Fails, Finishes, StoreInv, TypeOK
  <2>2. DiskIsWhole' /\ (~RestoreFails => disk' \subseteq memory)
    <3>1. CASE UNCHANGED disk
      BY <1>2, <3>1 DEF StoreInv, DiskIsWhole
    <3>2. CASE disk' # disk
      <4>1. disk' = snapshot[w] /\ Exported(w)
        BY <1>7, <3>2 DEF Upserted, Renamed, Fails, StoreInv, Exported
      <4>2. snapshot[w] # Torn
        <5>1. snapshot[w] \in Snapshots
          BY DEF StoreInv, TypeOK
        <5> QED
          BY <5>1, TornIsNoSnapshot
      <4>3. snapshot[w] \subseteq memory
        BY <4>1, <1>2 DEF StoreInv
      <4> QED
        BY <4>1, <4>2, <4>3 DEF DiskIsWhole
    <3> QED
      BY <3>1, <3>2
  <2> QED
    BY <1>1, <1>2, <1>3, <1>4, <2>1, <2>2 DEF StoreInv, Exported
<1> QED
  BY <1>5, <1>6, <1>7 DEF Advance

\* A process that dies or starts: nothing is under way.
LEMMA InvProcess ==
  ASSUME StoreInv, Crash \/ Restart
  PROVE  StoreInv'
<1>1. CASE Crash
  <2>1. \A w \in Writers : pc'[w] = "idle"
    BY <1>1 DEF Crash
  <2>2. TypeOK'
    BY <1>1 DEF Crash, StoreInv, TypeOK, Snapshots
  <2> QED
    BY <1>1, <2>1, <2>2 DEF Crash, StoreInv, OnePersist, DiskIsWhole, Exported
<1>2. CASE Restart
  <2>1. /\ up' = TRUE /\ states' = {memory'}
        /\ UNCHANGED <<backend, handled, persistScheduled, persistInFlight, pool, pc, snapshot,
                       tmp, disk, failures>>
    BY <1>2 DEF Restart, guards, persists
  <2>2. memory' = disk \/ (RestoreFails /\ memory' = {})
    BY <1>2 DEF Restart, Restored, Readable, StoreInv, DiskIsWhole
  <2>3. disk \in Snapshots /\ {} \in Snapshots
    BY DEF StoreInv, TypeOK, DiskIsWhole, Snapshots
  <2>4. TypeOK'
    BY <2>1, <2>2, <2>3 DEF StoreInv, TypeOK
  <2>5. \A w \in Writers : pc[w] = "idle"
    BY <1>2 DEF Restart, StoreInv, OnePersist
  <2> QED
    BY <2>1, <2>2, <2>4, <2>5, StoreConstants DEF StoreInv, OnePersist, DiskIsWhole, Exported
<1> QED
  BY <1>1, <1>2

\* The inductive invariant holds in every reachable state.
THEOREM StoreInvariant == Spec => []StoreInv
<1>1. StoreInv /\ [Next]_vars => StoreInv'
  <2>1. ASSUME StoreInv, UNCHANGED vars PROVE StoreInv'
    BY <2>1 DEF vars, process, guards, persists, StoreInv, TypeOK, OnePersist, DiskIsWhole,
       Exported
  <2>2. ASSUME StoreInv, Next PROVE StoreInv'
    <3> USE <2>2
    <3>1. ASSUME NEW fact \in Facts, set(fact) \/ mutate(fact) PROVE StoreInv'
      BY <3>1, InvWrite
    <3>2. CASE TimerFires \/ \E s \in Signals : Signal(s)
      BY <3>2, InvPersist
    <3>3. ASSUME NEW w \in Writers, Advance(w) \/ Fails(w) PROVE StoreInv'
      BY <3>3, InvAdvance
    <3>4. CASE Crash \/ Restart
      BY <3>4, InvProcess
    <3> QED
      BY <3>1, <3>2, <3>3, <3>4, StoreConstants DEF Next
  <2> QED
    BY <2>1, <2>2
<1> QED
  BY InvInit, <1>1, PTL DEF Spec

\* Every reachable state of the store has its types.
THEOREM StoreTypeCorrect == Spec => []TypeOK
BY StoreInvariant, PTL DEF StoreInv

\* Whatever fails and whenever the process dies, a restart finds a whole
\* snapshot: the file that is renamed over it was written to the end by the one
\* persist under way.
THEOREM WholeSnapshots == Spec => []DiskIsWhole
BY StoreInvariant, PTL DEF StoreInv

\* The only steps that change the snapshot save a state the store was in.
LEMMA DiskEffect ==
  ASSUME StoreInv, [Next]_vars, disk' # disk
  PROVE  /\ up /\ UNCHANGED <<up, memory, states>>
         /\ \E w \in Writers : Exported(w) /\ disk' = snapshot[w]
<1>1. PICK w \in Writers : Renamed(w) \/ Upserted(w) \/ Fails(w)
  BY DEF Next, vars, set, mutate, TimerFires, Signal, Advance, Export, Written,
     Crash, Restart
<1>2. disk' = snapshot[w] /\ Exported(w)
  BY <1>1 DEF Renamed, Upserted, Fails, Exported, StoreInv
<1>3. UNCHANGED <<up, memory, states>>
  BY <1>1 DEF Renamed, Upserted, Fails, process
<1>4. up
  BY <1>2 DEF StoreInv, OnePersist, Exported
<1> QED
  BY <1>2, <1>3, <1>4

\* With readable snapshots, what was saved stays saved.
THEOREM SavedForGood == ASSUME ~RestoreFails PROVE Spec => SavedStays
<1>1. StoreInv /\ [Next]_vars => [disk \subseteq disk']_disk
  BY DiskEffect DEF StoreInv
<1> QED
  BY StoreInvariant, <1>1, PTL DEF Spec, SavedStays

\* With readable snapshots the store implements DurableStore: a write is a
\* write, the end of a persist is a save, and what happens to a process that
\* dies and comes back is the restart, at the moment it dies.
THEOREM StoreRefinement == ASSUME ~RestoreFails PROVE Spec => ImplementsDurable
<1>1. Init => Durable!Init
  BY DEF Init, Durable!Init
<1>2. StoreInv /\ [Next]_vars => [Durable!Next]_(Durable!vars)
  <2> SUFFICES ASSUME StoreInv, [Next]_vars PROVE Durable!Next \/ UNCHANGED Durable!vars
    OBVIOUS
  <2>1. CASE disk' # disk
    BY <2>1, DiskEffect DEF StoreInv, Durable!Next, Durable!Save
  <2>2. CASE disk' = disk /\ \E fact \in Facts : set(fact) \/ mutate(fact)
    <3>1. PICK fact \in Facts : set(fact) \/ mutate(fact)
      BY <2>2
    <3>2. Durable!Write(fact)
      BY <2>2, <3>1 DEF set, mutate, Durable!Write
    <3> QED
      BY <3>2 DEF Durable!Next
  <2>3. CASE disk' = disk /\ Crash
    BY <2>3 DEF Crash, Durable!Next, Durable!Restart
  <2>4. CASE disk' = disk /\ Restart
    BY <2>4 DEF Restart, Restored, Readable, StoreInv, DiskIsWhole, Durable!vars
  <2>5. CASE disk' = disk /\ UNCHANGED <<up, memory, states>>
    BY <2>5 DEF Durable!vars
  <2> QED
    BY <2>1, <2>2, <2>3, <2>4, <2>5, StoreConstants DEF Next, vars, process, TimerFires, Signal,
       Advance, Export, Written, Renamed, Upserted, Fails
<1> QED
  BY StoreInvariant, <1>1, <1>2, PTL DEF Spec, ImplementsDurable, Durable!Spec
=============================================================================
