-------------------------- MODULE RestartingMarket --------------------------
(***************************************************************************)
(* TaskMarket with the faults its process meets: a wait for a receipt that *)
(* times out, and an end of the process at any moment, with a restart from *)
(* its last snapshot.  The store is the one DurableStore promises: a       *)
(* snapshot is the whole store as it was at one instant, and how old it is *)
(* at the crash nobody knows.  What survives besides it is the chain, with *)
(* the transactions that were sent; requests, reports of the engine and    *)
(* the dispatch of a run under way are gone.                               *)
(*                                                                         *)
(* The task's creation is taken as saved: a task that is in no snapshot is *)
(* unknown to the router, whose recovery from the chain is not modelled.   *)
(***************************************************************************)
EXTENDS TaskMarket

VARIABLE saved   \* the snapshot a restart reads: the task, its pause, its run

restartVars == <<vars, saved>>

\* Who waits for a transaction after a timeout or a restart.
ASSUME RestartConstants == "nobody" \notin Procs

Stored == [task |-> task, paused |-> paused, run |-> run]

RestartInit == Init /\ saved = Stored

\* The wait for the receipt times out and the handler throws; the transaction
\* stays pending.
GiveUp(p) ==
  /\ req[p].pc = "sent"
  /\ pending' = [i \in DOMAIN pending |->
                   IF pending[i].by = p THEN [pending[i] EXCEPT !.by = "nobody"]
                   ELSE pending[i]]
  /\ Finish(p)
  /\ UNCHANGED <<task, paused, run, chain, saved>>

\* A persist of the store succeeds.
Persist ==
  /\ saved' = Stored
  /\ UNCHANGED vars

\* The process ends, between any two awaits, and a new one imports the
\* snapshot.  The wallet's transactions are mined all the same; nobody waits
\* for them any more.
Restart ==
  /\ task' = saved.task
  /\ paused' = saved.paused
  /\ run' = saved.run
  /\ req' = [p \in Procs |-> Idle]
  /\ pending' = [i \in DOMAIN pending |-> [pending[i] EXCEPT !.by = "nobody"]]
  /\ UNCHANGED <<chain, saved>>

TimeoutNext ==
  \/ Next /\ UNCHANGED saved
  \/ \E p \in Procs : GiveUp(p)

RestartNext ==
  \/ TimeoutNext
  \/ Persist
  \/ Restart

\* The process that does not end.
TimeoutSpec == RestartInit /\ [][TimeoutNext]_restartVars

RestartSpec == RestartInit /\ [][RestartNext]_restartVars

-----------------------------------------------------------------------------
(* Properties, besides those of TaskMarket. *)

\* A task that is shown as executing has had a run: whoever reads the status
\* may wait for a result or a failure.
ExecutingHasRun == Quiet /\ task.status = "EXECUTING" => run # "none"
=============================================================================
