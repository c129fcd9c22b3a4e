--------------------------- MODULE ExecutionEngine ---------------------------
(***************************************************************************)
(* The router's execution engine for one task and the agents that take     *)
(* part in it, each with an HTTP endpoint: dispatch, poll, callback, retry *)
(* and timeout of their runs, interleaved at their awaits                  *)
(* (executionEngine.ts and the services it drives).                        *)
(*                                                                         *)
(* Two timers tick every two seconds.  A polling pass awaits each answer   *)
(* for up to twelve seconds, so passes overlap: a poller is one pass at    *)
(* one run.  Between the pass's filter and its visit to the run it awaits  *)
(* the runs before it, of other tasks.  Nothing locks a run: everyone      *)
(* holds a reference to the same object and writes its state when its own  *)
(* answer arrives.  An exception nobody catches, in a timer or in the      *)
(* promise of a pass, ends the process (Node 22, no handler installed).    *)
(*                                                                         *)
(* The task is TaskRecord's, with chain writes reduced to whether they     *)
(* throw: TaskMarket interleaves those.  Left out: built-in agents (no     *)
(* await but the model's), logs, hashes, payloads.                         *)
(***************************************************************************)
EXTENDS TaskRecord

CONSTANTS
  MaxRuns,      \* bound on the runs created for the task
  MaxRetries,   \* DispatchConfig.maxRetries
  MaxAttempts,  \* bound: an acceptance dispatches no run more often than this
  Acceptors,    \* concurrent acceptTask requests
  Pollers,      \* overlapping polling passes
  Callbacks,    \* agents post callbacks
  Cancels       \* the creator may cancel

ASSUME EngineConstants ==
  /\ MaxRuns \in Nat \ {0} /\ MaxRetries \in Nat /\ MaxAttempts \in Nat
  /\ Callbacks \in BOOLEAN /\ Cancels \in BOOLEAN
  /\ Acceptors \cap Pollers = {}

VARIABLES
  task,       \* the task object
  run,        \* store.executionRuns, in the order of creation
  req,        \* the continuations: accepting requests and polling passes
  nonceUsed,  \* executionCallbackNonces is not empty
  up,         \* the process is alive
  denied,     \* history: a callback of this run failed verification
  posted      \* the agent's side: it has posted its result for this run

vars == <<task, run, req, nonceUsed, up, denied, posted>>

Runs == 1 .. MaxRuns
Procs == Acceptors \cup Pollers

TerminalRunStates == {"completed", "failed", "timed_out"}
ActiveRunStates == {"queued", "dispatching", "running", "awaiting_callback", "polling"}
RunStates == {"absent"} \cup ActiveRunStates \cup TerminalRunStates
ErrorCodes ==
  {"none", "UNAUTHORIZED", "VALIDATION_ERROR", "CHAIN_WRITE_FAILED", "CHAIN_READ_FAILED",
   "SETTLEMENT_BLOCKED"}

\* agent: the participant whose run it is.  remote: remoteRunId is known.
\* result: resultHash is set.  late: timeoutAt has passed.
NoRun ==
  [state |-> "absent", agent |-> 0, attempt |-> 0, errorCode |-> "none",
   remote |-> FALSE, result |-> FALSE, late |-> FALSE]
Idle == [pc |-> "idle", run |-> 0]

Active(r) == run[r].state \in ActiveRunStates
Wait(p, pc, r) == req' = [req EXCEPT ![p] = [pc |-> pc, run |-> r]]
Finish(p) == req' = [req EXCEPT ![p] = Idle]
Put(r, x) == run' = [run EXCEPT ![r] = x]

-----------------------------------------------------------------------------
(* What the engine tells the task market: an effect, or an exception. *)

StartThrows(chainFails) ==
  task.status # "EXECUTING" /\ (~MayStart(task) \/ chainFails)

SubmitThrows(chainFails) ==
  MaySubmit(task) /\ (chainFails \/ ~Passes(task.status, "SUBMITTED"))

Delivered == IF MaySubmit(task) THEN SubmissionReceived(task, NoSubmission) ELSE task

Rollback == IF HiringMode = "open_market" THEN "OPEN" ELSE "ASSIGNED"
FailThrows == ~PassesAsRecovery(task.status, Rollback)

-----------------------------------------------------------------------------
(* Retry policy. *)

\* INVALID_STATE_TRANSITION and FORBIDDEN are never assigned to a run.
TERMINAL_FAILURE_CODES == {"UNAUTHORIZED", "FORBIDDEN", "INVALID_STATE_TRANSITION"}

\* Faulty variant: one attempt too many.
RetriesOnceMore(x) == x.attempt <= MaxRetries /\ x.errorCode \notin TERMINAL_FAILURE_CODES

canRetry(x) == x.attempt < MaxRetries /\ x.errorCode \notin TERMINAL_FAILURE_CODES
scheduleRetry(x) == [x EXCEPT !.state = "queued"]

-----------------------------------------------------------------------------
(* Dispatch. *)

\* ExecutionDispatcher.dispatch up to its fetch.
dispatch(p, r, k) ==
  /\ Put(r, [run[r] EXCEPT !.state = "dispatching", !.agent = k, !.attempt = @ + 1])
  /\ Wait(p, "dispatch", r)

\* dispatchTask takes the first active run of the task and agent, or creates one.
Existing(k) == {r \in Runs : Active(r) /\ run[r].agent = k}
DispatchedRun(k, r) ==
  IF Existing(k) # {}
  THEN r \in Existing(k) /\ \A s \in Existing(k) : r <= s
  ELSE run[r].state = "absent" /\ \A earlier \in 1 .. r - 1 : run[earlier].state # "absent"

\* acceptTask, by the owner of the k-th participant.
Accept(a) ==
  /\ up
  /\ req[a].pc = "idle"
  /\ MayAccept(task)
  /\ \E k \in Candidates(task), r \in Runs :
       /\ task' = Accepted(Joined(task, k), task.status = "OPEN")
       /\ DispatchedRun(k, r)
       /\ run[r].attempt < MaxAttempts
       /\ dispatch(a, r, k)
  /\ UNCHANGED <<nonceUsed, up, denied, posted>>

\* The catch of dispatchExistingRun, and of its callers: accepting rolls the
\* task back, a polling pass swallows the exception.
Catch(p, r, x) ==
  /\ Put(r, IF canRetry(x) THEN scheduleRetry(x) ELSE x)
  /\ task' = IF ~canRetry(x) /\ p \in Acceptors THEN ExecutionFailed(task) ELSE task

\* The endpoint refuses, is unreachable or answers nonsense.
DispatchFails(p) ==
  LET r == req[p].run
  IN  /\ up /\ req[p].pc = "dispatch"
      /\ \E code \in {"VALIDATION_ERROR", "CHAIN_WRITE_FAILED"} :
           Catch(p, r, [run[r] EXCEPT !.state = "failed", !.errorCode = code])
      /\ Finish(p)
      /\ UNCHANGED <<nonceUsed, up, denied, posted>>

\* It returns the result at once.
DispatchReturnsResult(p) ==
  LET r == req[p].run
      x == [run[r] EXCEPT !.state = "completed", !.remote = TRUE, !.result = TRUE]
  IN  /\ up /\ req[p].pc = "dispatch"
      /\ \E chainFails \in BOOLEAN :
           IF SubmitThrows(chainFails) THEN Catch(p, r, x)
           ELSE Put(r, x) /\ task' = Delivered
      /\ Finish(p)
      /\ UNCHANGED <<nonceUsed, up, denied, posted>>

\* It accepts the work and answers later.
DispatchAccepted(p) ==
  LET r == req[p].run
  IN  /\ up /\ req[p].pc = "dispatch"
      /\ \E state \in {"awaiting_callback", "running"}, chainFails \in BOOLEAN :
           LET x == [run[r] EXCEPT !.state = state, !.remote = TRUE]
           IN  IF StartThrows(chainFails) THEN Catch(p, r, x)
               ELSE /\ Put(r, x)
                    /\ task' = IF task.status = "EXECUTING" THEN task
                               ELSE ExecutionStarted(task)
      /\ Finish(p)
      /\ UNCHANGED <<nonceUsed, up, denied, posted>>

-----------------------------------------------------------------------------
(* Polling. *)

\* The filter of pollAsyncRuns; whether a backoff is over is left open.
List(c, r) ==
  /\ up
  /\ req[c].pc = "idle"
  /\ run[r].state \in {"awaiting_callback", "polling", "queued"}
  /\ Wait(c, "listed", r)
  /\ UNCHANGED <<task, run, nonceUsed, up, denied, posted>>

\* The loop reaches the run, whatever became of it meanwhile.
Visit(c) ==
  LET r == req[c].run
  IN  /\ up
      /\ req[c].pc = "listed"
      /\ \/ run[r].state = "queued" /\ dispatch(c, r, run[r].agent)
         \/ run[r].state # "queued" /\ run[r].remote /\ Wait(c, "status", r) /\ UNCHANGED run
         \/ run[r].state # "queued" /\ ~run[r].remote /\ Finish(c) /\ UNCHANGED run
      /\ UNCHANGED <<task, nonceUsed, up, denied, posted>>

\* Faulty variant: the run fails and the task is not told.
FailsSilently(r, x) ==
  LET y == [x EXCEPT !.errorCode = "CHAIN_READ_FAILED"]
  IN  /\ Put(r, IF canRetry(y) THEN scheduleRetry(y) ELSE [y EXCEPT !.state = "failed"])
      /\ UNCHANGED <<task, up>>

\* The catch of the polling pass.  Its own markExecutionFailed is not caught.
PollError(r, x) ==
  LET y == [x EXCEPT !.errorCode = "CHAIN_READ_FAILED"]
  IN  IF canRetry(y)
      THEN Put(r, scheduleRetry(y)) /\ UNCHANGED <<task, up>>
      ELSE /\ Put(r, [y EXCEPT !.state = "failed"])
           /\ task' = ExecutionFailed(task)
           /\ up' = ~FailThrows

PollFails(c) ==
  LET r == req[c].run
  IN  /\ up /\ req[c].pc \in {"status", "result"}
      /\ PollError(r, run[r])
      /\ Finish(c)
      /\ UNCHANGED <<nonceUsed, denied, posted>>

pollStatus(c) ==
  LET r == req[c].run
  IN  /\ up /\ req[c].pc = "status"
      /\ \/ /\ Put(r, [run[r] EXCEPT !.state = "polling"])
            /\ Finish(c)
            /\ UNCHANGED <<task, up>>
         \/ /\ LET x == [run[r] EXCEPT !.state = "failed"]
               IN  IF FailThrows THEN PollError(r, x)
                   ELSE Put(r, x) /\ task' = ExecutionFailed(task) /\ UNCHANGED up
            /\ Finish(c)
         \/ /\ Put(r, [run[r] EXCEPT !.state = "running"])
            /\ Wait(c, "result", r)
            /\ UNCHANGED <<task, up>>
      /\ UNCHANGED <<nonceUsed, denied, posted>>

fetchResult(c) ==
  LET r == req[c].run
      x == [run[r] EXCEPT !.state = "completed", !.result = TRUE]
  IN  /\ up /\ req[c].pc = "result"
      /\ \E chainFails \in BOOLEAN :
           IF SubmitThrows(chainFails) THEN PollError(r, x)
           ELSE Put(r, x) /\ task' = Delivered /\ UNCHANGED up
      /\ Finish(c)
      /\ UNCHANGED <<nonceUsed, denied, posted>>

-----------------------------------------------------------------------------
(* Callbacks.  A payload names a run of the router's by its own id. *)

RejectedCallback(r) ==
  /\ up /\ Callbacks
  /\ run[r].state # "absent"
  /\ \E code \in {"UNAUTHORIZED", "VALIDATION_ERROR"} :
       /\ Put(r, [run[r] EXCEPT !.errorCode = code])
       /\ denied' = IF code = "UNAUTHORIZED" THEN denied \cup {r} ELSE denied
  /\ UNCHANGED <<task, req, nonceUsed, up, posted>>

\* A result with a fresh nonce, or a repetition for a completed run: both go
\* on to markSubmissionReceived, whose exception is the caller's.
handleCallback(r) ==
  /\ up /\ Callbacks
  /\ run[r].state # "absent"
  /\ \/ nonceUsed' = TRUE
     \/ nonceUsed /\ run[r].state = "completed" /\ run[r].result /\ UNCHANGED nonceUsed
  /\ Put(r, [run[r] EXCEPT !.state = "completed", !.result = TRUE])
  /\ \E chainFails \in BOOLEAN :
       task' = IF SubmitThrows(chainFails) THEN task ELSE Delivered
  /\ UNCHANGED <<req, up, denied, posted>>

\* The repository's adapter names the run by the id it answered the dispatch
\* with; the router looks it up among its own: "Callback mismatch".
AdapterCallback(r) ==
  /\ up /\ Callbacks
  /\ run[r].remote
  /\ r \notin posted
  /\ posted' = posted \cup {r}
  /\ UNCHANGED <<task, run, req, nonceUsed, up, denied>>

-----------------------------------------------------------------------------
(* Time, and the creator. *)

\* Two minutes after its creation a run is overdue.
Overdue(r) ==
  /\ run[r].state # "absent" /\ ~run[r].late
  /\ \A earlier \in 1 .. r - 1 : run[earlier].late
  /\ Put(r, [run[r] EXCEPT !.late = TRUE])
  /\ UNCHANGED <<task, req, nonceUsed, up, denied, posted>>

\* Faulty variant: a state the other filters do not know.
Expired(x) == [x EXCEPT !.state = "expired", !.errorCode = "SETTLEMENT_BLOCKED"]

TimedOut(x) == [x EXCEPT !.state = "timed_out", !.errorCode = "SETTLEMENT_BLOCKED"]

\* Faulty variant of checkTimeouts: only runs that are polled time out.
PolledRunsTimeOut ==
  LET due == {r \in Runs : run[r].late /\ run[r].state \in {"awaiting_callback", "polling"}}
  IN  /\ up
      /\ due # {}
      /\ run' = [r \in Runs |-> IF r \in due THEN TimedOut(run[r]) ELSE run[r]]
      /\ task' = ExecutionFailed(task)
      /\ up' = ~FailThrows
      /\ UNCHANGED <<req, nonceUsed, denied, posted>>

\* The loop ends at the first run whose task cannot be rolled back: the
\* exception leaves the timer.  After a first rollback the others pass.
checkTimeouts ==
  LET due == {r \in Runs : Active(r) /\ run[r].late}
      first == CHOOSE r \in due : \A s \in due : r <= s
  IN  /\ up
      /\ due # {}
      /\ run' = [r \in Runs |-> IF r \in due /\ (FailThrows => r = first)
                                THEN TimedOut(run[r]) ELSE run[r]]
      /\ task' = ExecutionFailed(task)
      /\ up' = ~FailThrows
      /\ UNCHANGED <<req, nonceUsed, denied, posted>>

\* cancelTask and the review of a submission, as far as the engine sees them.
Creator ==
  /\ up
  /\ \/ Cancels /\ MayCancel(task) /\ task' = Cancelled(task)
     \/ MayDecide(task) /\ task' \in {Approved(task), Rejected(task)}
  /\ UNCHANGED <<run, req, nonceUsed, up, denied, posted>>

-----------------------------------------------------------------------------

\* A funded task that waits for its agent.
Init ==
  /\ task = [buildTaskDetail EXCEPT
               !.status = IF HiringMode = "open_market" THEN "OPEN" ELSE "ASSIGNED",
               !.funded = TRUE]
  /\ run = [r \in Runs |-> NoRun]
  /\ req = [p \in Procs |-> Idle]
  /\ nonceUsed = FALSE
  /\ up = TRUE
  /\ denied = {} /\ posted = {}

DispatchAnswers(p) == DispatchFails(p) \/ DispatchReturnsResult(p) \/ DispatchAccepted(p)
Poll(c) == Visit(c) \/ PollFails(c) \/ pollStatus(c) \/ fetchResult(c)

Next ==
  \/ \E a \in Acceptors : Accept(a)
  \/ \E p \in Procs : DispatchAnswers(p)
  \/ \E c \in Pollers : Poll(c) \/ \E r \in Runs : List(c, r)
  \/ \E r \in Runs :
       RejectedCallback(r) \/ handleCallback(r) \/ AdapterCallback(r) \/ Overdue(r)
  \/ checkTimeouts
  \/ Creator

\* Requests are answered or time out, both timers tick, and time passes.
Spec ==
  /\ Init /\ [][Next]_vars
  /\ \A p \in Procs : WF_vars(DispatchAnswers(p))
  /\ \A c \in Pollers : WF_vars(Poll(c)) /\ WF_vars(\E r \in Runs : List(c, r))
  /\ \A r \in Runs : WF_vars(Overdue(r))
  /\ WF_vars(checkTimeouts)

-----------------------------------------------------------------------------
(* Properties. *)

\* Every variable has its type.
TypeOK ==
  /\ task \in TaskRecords({})
  /\ run \in [Runs -> [state : RunStates, agent : Nat, attempt : Nat,
                       errorCode : ErrorCodes, remote : BOOLEAN, result : BOOLEAN,
                       late : BOOLEAN]]
  /\ req \in [Procs -> [pc : {"idle", "dispatch", "listed", "status", "result"},
                        run : Runs \cup {0}]]
  /\ nonceUsed \in BOOLEAN /\ up \in BOOLEAN
  /\ denied \subseteq Runs /\ posted \subseteq Runs

\* However acceptances, overlapping polling passes, callbacks, cancellation and
\* late answers interleave, only an owner who accepts (again) takes a run past
\* the retry limit; the engine by itself dispatches it within the limit.
DispatchedByOwner(r) ==
  \E a \in Acceptors : req[a].pc = "idle" /\ req'[a] = [pc |-> "dispatch", run |-> r]
RetriesBounded ==
  [][\A r \in Runs :
       run'[r].attempt # run[r].attempt =>
         run'[r].attempt <= MaxRetries \/ DispatchedByOwner(r)]_vars

\* What one might expect of maxRetries: a run is dispatched no more often (and
\* once if it allows nothing).
AttemptsBounded == \A r \in Runs : run[r].attempt <= IF MaxRetries > 1 THEN MaxRetries ELSE 1

\* Someone works on a task that shows EXECUTING: an active run, or an answer
\* under way.
Working == \E p \in Procs : req[p].pc \in {"dispatch", "status", "result"}
NoStrandedTask == up /\ task.status = "EXECUTING" => Working \/ \E r \in Runs : Active(r)

\* Whatever retries, callbacks and participants there are, only two things leave
\* a task EXECUTING with nobody working on it: a retry's dispatch that is given
\* up in a polling pass, where nobody tells the task, and a callback whose
\* submission throws after it completed the run.
RetryGivenUp(c) ==
  req[c].pc = "dispatch" /\ req'[c].pc = "idle" /\ ~canRetry(run'[req[c].run])
SubmissionRefused(r) ==
  Active(r) /\ run'[r].state = "completed" /\ UNCHANGED <<task, req>>
StrandedOnlyUntold ==
  [][NoStrandedTask =>
       \/ NoStrandedTask'
       \/ \E c \in Pollers : RetryGivenUp(c)
       \/ \E r \in Runs : SubmissionRefused(r)]_vars

\* No exception of a timer or of a polling pass ends the process.
RouterStaysUp == up

\* After an unauthorized callback a run is not dispatched again.
UnauthorizedStops == [][\A r \in denied : run'[r].attempt = run[r].attempt]_vars

\* A result the adapter has posted to the callback address has been received.
PostedIsReceived == \A r \in posted : run[r].result

\* Every run ends, whoever revives it: retries are bounded and time runs out
\* (or the process has ended).
RunEnds == \A r \in Runs : Active(r) ~> (~Active(r) \/ ~up)
=============================================================================
