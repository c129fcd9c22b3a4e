------------------------ MODULE ExecutionEngineProofs ------------------------
(***************************************************************************)
(* Proofs about ExecutionEngine for any number of runs, of acceptances and *)
(* of overlapping polling passes, any retry limit and both hiring modes.   *)
(***************************************************************************)
EXTENDS ExecutionEngine, TaskRecordProofs

RunRecords ==
  [state : RunStates, agent : Nat, attempt : Nat, errorCode : ErrorCodes,
   remote : BOOLEAN, result : BOOLEAN, late : BOOLEAN]

\* What every interleaving keeps beside the types: a run exists from its first
\* dispatch on and never disappears, a continuation names a run that exists,
\* and the task stays funded.
RunsExist ==
  /\ task.funded
  /\ \A r \in Runs : run[r].state = "absent" <=> run[r].attempt = 0
  /\ \A p \in Procs : req[p].pc # "idle" => req[p].run \in Runs
  /\ \A p \in Procs : req[p].pc # "idle" => run[req[p].run].state # "absent"

EngineInv == TypeOK /\ RunsExist

\* How a step that is not a dispatch rewrites a run: its attempts are kept, it
\* stays in existence, and it is queued again only within the retry limit.
Revised(y, x) ==
  /\ y \in RunRecords
  /\ y.attempt = x.attempt
  /\ x.state # "absent" /\ y.state # "absent"
  /\ y.state = "queued" => x.state = "queued" \/ x.attempt < MaxRetries

Kept(m) == m \in TaskRecords({}) /\ SameStanding(m, task)

\* What the task market makes of a report of the engine keeps the task's
\* standing; a result is taken by every task that executes.
LEMMA ReportEffect ==
  ASSUME EngineInv
  PROVE  /\ Kept(task) /\ Kept(ExecutionFailed(task)) /\ Kept(ExecutionStarted(task))
         /\ Kept(Delivered)
         /\ ExecutionFailed(task).status # "EXECUTING"
         /\ Delivered.status # "EXECUTING"
<1>1. task \in TaskRecords({}) /\ task.funded /\ NoSubmission \in {} \cup {NoSubmission}
  BY DEF EngineInv, TypeOK, RunsExist
<1>2. /\ Kept(ExecutionFailed(task)) /\ Kept(ExecutionStarted(task))
      /\ Kept(SubmissionReceived(task, NoSubmission))
      /\ ExecutionFailed(task).status # "EXECUTING"
      /\ SubmissionReceived(task, NoSubmission).status # "EXECUTING"
  BY <1>1, EngineEffect DEF Kept
<1>3. Kept(task)
  BY <1>1 DEF Kept, SameStanding
<1> QED
  BY <1>1, <1>2, <1>3 DEF Delivered, MaySubmit

\* The catch of a dispatch: the run is revised, the task kept or rolled back.
LEMMA CatchEffect ==
  ASSUME EngineInv, NEW p \in Procs, NEW r \in Runs, NEW x, Revised(x, run[r]),
         x.state # "queued", Catch(p, r, x)
  PROVE  /\ \E y : Revised(y, run[r]) /\ y.state \in {x.state, "queued"} /\ Put(r, y)
         /\ Kept(task')
         /\ task' = task \/ task' = ExecutionFailed(task)
<1>2. Kept(task) /\ Kept(ExecutionFailed(task))
  BY ReportEffect
<1>3. task' = task \/ task' = ExecutionFailed(task)
  BY DEF Catch
<1>4. CASE canRetry(x)
  <2>1. Revised(scheduleRetry(x), run[r]) /\ scheduleRetry(x).state = "queued"
    BY <1>4 DEF Revised, scheduleRetry, canRetry, RunRecords, RunStates, ActiveRunStates
  <2>2. Put(r, scheduleRetry(x))
    BY <1>4 DEF Catch
  <2> QED
    BY <1>2, <1>3, <2>1, <2>2
<1>5. CASE ~canRetry(x)
  <2>1. Put(r, x)
    BY <1>5 DEF Catch
  <2> QED
    BY <1>2, <1>3, <2>1
<1> QED
  BY <1>4, <1>5

\* The catch of a polling pass.
LEMMA PollErrorEffect ==
  ASSUME EngineInv, NEW r \in Runs, NEW x, Revised(x, run[r]), PollError(r, x)
  PROVE  /\ \E y : Revised(y, run[r]) /\ y.state \in {"failed", "queued"} /\ Put(r, y)
         /\ Kept(task') /\ up' \in BOOLEAN
         /\ task' = task \/ task' = ExecutionFailed(task)
<1> DEFINE y == [x EXCEPT !.errorCode = "CHAIN_READ_FAILED"]
<1>1. up \in BOOLEAN
  BY DEF EngineInv, TypeOK
<1>2. Kept(task) /\ Kept(ExecutionFailed(task))
  BY ReportEffect
<1>3. task' = task \/ task' = ExecutionFailed(task)
  BY DEF PollError
<1>4. up' \in BOOLEAN
  BY <1>1 DEF PollError, FailThrows, PassesAsRecovery, canRecoverTaskStatus
<1>5. CASE canRetry(y)
  <2>1. Revised(scheduleRetry(y), run[r]) /\ scheduleRetry(y).state = "queued"
    BY <1>5 DEF Revised, scheduleRetry, canRetry, RunRecords, RunStates, ActiveRunStates,
                ErrorCodes
  <2>2. Put(r, scheduleRetry(y))
    BY <1>5 DEF PollError
  <2> QED
    BY <1>2, <1>3, <1>4, <2>1, <2>2
<1>6. CASE ~canRetry(y)
  <2>1. /\ Revised([y EXCEPT !.state = "failed"], run[r])
        /\ [y EXCEPT !.state = "failed"].state = "failed"
    BY DEF Revised, RunRecords, RunStates, TerminalRunStates, ErrorCodes
  <2>2. Put(r, [y EXCEPT !.state = "failed"])
    BY <1>6 DEF PollError
  <2> QED
    BY <1>2, <1>3, <1>4, <2>1, <2>2
<1> QED
  BY <1>5, <1>6

\* A step that dispatches nothing: runs are revised, the task's standing kept.
Revising ==
  /\ Kept(task')
  /\ run' \in [Runs -> RunRecords]
  /\ \A r \in Runs : run'[r] = run[r] \/ Revised(run'[r], run[r])

\* The continuations after a step: as before, or of one process that is done
\* or goes on with a run that exists.
RequestsAdvance ==
  \/ req' = req
  \/ \E p \in Procs : Finish(p)
  \/ \E p \in Procs, r \in Runs, pc \in {"listed", "status", "result"} :
       Wait(p, pc, r) /\ run[r].state # "absent"

FlagsTyped ==
  /\ nonceUsed' \in BOOLEAN /\ up' \in BOOLEAN
  /\ denied' \subseteq Runs /\ posted' \subseteq Runs

\* Revising one run is revising runs.
LEMMA PutRevises ==
  ASSUME EngineInv, Kept(task'), NEW r \in Runs, NEW y, Revised(y, run[r]), Put(r, y)
  PROVE  Revising
BY DEF EngineInv, TypeOK, Revising, Revised, Put, RunRecords

\* Such a step keeps the invariant.
LEMMA RevisingKeeps ==
  ASSUME EngineInv, Revising, RequestsAdvance, FlagsTyped
  PROVE  EngineInv'
<1>1. task' \in TaskRecords({}) /\ task'.funded
  BY DEF Revising, Kept, SameStanding, EngineInv, RunsExist
<1>2. \A r \in Runs : /\ run'[r] \in RunRecords /\ run[r] \in RunRecords
                      /\ run[r].state # "absent" => run'[r].state # "absent"
                      /\ run'[r].state = "absent" <=> run'[r].attempt = 0
  BY DEF EngineInv, TypeOK, RunsExist, Revising, Revised, RunRecords
<1>3. /\ req' \in [Procs -> [pc : {"idle", "dispatch", "listed", "status", "result"},
                             run : Runs \cup {0}]]
      /\ \A p \in Procs : req'[p].pc # "idle" =>
           req'[p].run \in Runs /\ run[req'[p].run].state # "absent"
  BY DEF EngineInv, TypeOK, RunsExist, RequestsAdvance, Finish, Wait, Idle
<1>4. TypeOK'
  BY <1>1, <1>3 DEF Revising, FlagsTyped, TypeOK, RunRecords
<1>5. RunsExist'
  BY <1>1, <1>2, <1>3 DEF RunsExist
<1> QED
  BY <1>4, <1>5 DEF EngineInv

\* A dispatch keeps the invariant: the run exists with one attempt more.
LEMMA DispatchKeeps ==
  ASSUME EngineInv, NEW p \in Procs, NEW r \in Runs, NEW k \in Nat, dispatch(p, r, k),
         task' \in TaskRecords({}), task'.funded,
         UNCHANGED <<nonceUsed, up, denied, posted>>
  PROVE  /\ EngineInv'
         /\ run' = [run EXCEPT ![r] = run'[r]]
         /\ run'[r].state = "dispatching" /\ run'[r].attempt = run[r].attempt + 1
<1> DEFINE x == [run[r] EXCEPT !.state = "dispatching", !.agent = k,
                            !.attempt = run[r].attempt + 1]
<1>1. /\ run \in [Runs -> RunRecords] /\ run[r] \in RunRecords
      /\ run' = [run EXCEPT ![r] = x]
  BY DEF EngineInv, TypeOK, RunRecords, dispatch, Put
<1>2. run[r].attempt \in Nat /\ run[r].attempt + 1 \in Nat
  BY <1>1 DEF RunRecords
<1>3. x \in RunRecords /\ x.state = "dispatching" /\ x.attempt = run[r].attempt + 1
  <2>1. "dispatching" \in RunStates
    BY DEF RunStates, ActiveRunStates
  <2> QED
    BY <1>1, <1>2, <2>1 DEF RunRecords
<1> HIDE DEF x
<1>4. run' \in [Runs -> RunRecords] /\ run'[r] = x
  BY <1>1, <1>3
<1>5. \A s \in Runs : /\ run[s].state # "absent" => run'[s].state # "absent"
                      /\ run'[s].state = "absent" <=> run'[s].attempt = 0
  BY <1>1, <1>2, <1>3, <1>4 DEF EngineInv, RunsExist
<1>6. /\ req' \in [Procs -> [pc : {"idle", "dispatch", "listed", "status", "result"},
                             run : Runs \cup {0}]]
      /\ \A q \in Procs : q # p => req'[q] = req[q]
      /\ req'[p].run = r
  BY DEF EngineInv, TypeOK, dispatch, Wait
<1>7. \A q \in Procs : req'[q].pc # "idle" =>
        req'[q].run \in Runs /\ run'[req'[q].run].state # "absent"
  BY <1>3, <1>4, <1>5, <1>6 DEF EngineInv, RunsExist
<1>8. TypeOK'
  BY <1>4, <1>6 DEF EngineInv, TypeOK, RunRecords
<1>9. RunsExist'
  BY <1>5, <1>7 DEF RunsExist
<1> QED
  BY <1>1, <1>3, <1>4, <1>8, <1>9 DEF EngineInv

-----------------------------------------------------------------------------
(* One lemma per group of actions. *)

\* The answer to a dispatch.
LEMMA AnswerKeeps ==
  ASSUME EngineInv, NEW p \in Procs, DispatchAnswers(p)
  PROVE  EngineInv' /\ Revising
<1> DEFINE r == req[p].run
<1>1. /\ r \in Runs /\ run[r] \in RunRecords /\ run[r].state # "absent"
      /\ task \in TaskRecords({})
  BY DEF EngineInv, TypeOK, RunsExist, RunRecords, DispatchAnswers, DispatchFails,
         DispatchReturnsResult, DispatchAccepted
<1>2. /\ RequestsAdvance
      /\ UNCHANGED <<nonceUsed, up, denied, posted>>
  BY DEF DispatchAnswers, DispatchFails, DispatchReturnsResult, DispatchAccepted,
         RequestsAdvance
<1>3. FlagsTyped
  BY <1>2 DEF FlagsTyped, EngineInv, TypeOK
<1> HIDE DEF r
<1>4. SUFFICES Revising
  BY <1>2, <1>3, RevisingKeeps
<1>5. \A x : Revised(x, run[r]) /\ x.state # "queued" /\ Catch(p, r, x) => Revising
  BY <1>1, CatchEffect, PutRevises
<1>6. CASE DispatchFails(p)
  <2>1. PICK code \in {"VALIDATION_ERROR", "CHAIN_WRITE_FAILED"} :
          Catch(p, r, [run[r] EXCEPT !.state = "failed", !.errorCode = code])
    BY <1>6 DEF DispatchFails, r
  <2> DEFINE x == [run[r] EXCEPT !.state = "failed", !.errorCode = code]
  <2>2. Revised(x, run[r]) /\ x.state # "queued"
    BY <1>1 DEF Revised, RunRecords, RunStates, TerminalRunStates, ErrorCodes
  <2> HIDE DEF x
  <2> QED
    BY <1>5, <2>1, <2>2 DEF x
<1>7. CASE DispatchReturnsResult(p)
  <2> DEFINE x == [run[r] EXCEPT !.state = "completed", !.remote = TRUE, !.result = TRUE]
  <2>1. Revised(x, run[r]) /\ x.state # "queued"
    BY <1>1 DEF Revised, RunRecords, RunStates, TerminalRunStates
  <2>2. Kept(Delivered)
    BY ReportEffect
  <2>3. Catch(p, r, x) \/ (Put(r, x) /\ task' = Delivered)
    BY <1>7 DEF DispatchReturnsResult, r
  <2> HIDE DEF x
  <2> QED
    BY <1>1, <1>5, <2>1, <2>2, <2>3, PutRevises
<1>8. CASE DispatchAccepted(p)
  <2> DEFINE x(state) == [run[r] EXCEPT !.state = state, !.remote = TRUE]
  <2>1. PICK state \in {"awaiting_callback", "running"} :
          \/ Catch(p, r, x(state))
          \/ /\ Put(r, x(state))
             /\ task' = IF task.status = "EXECUTING" THEN task ELSE ExecutionStarted(task)
    BY <1>8 DEF DispatchAccepted, r
  <2>2. Revised(x(state), run[r]) /\ x(state).state # "queued"
    BY <1>1 DEF Revised, RunRecords, RunStates, ActiveRunStates
  <2>3. Kept(task) /\ Kept(ExecutionStarted(task))
    BY ReportEffect
  <2> HIDE DEF x
  <2> QED
    BY <1>1, <1>5, <2>1, <2>2, <2>3, PutRevises
<1> QED
  BY <1>6, <1>7, <1>8 DEF DispatchAnswers

\* The status request and the result request of a polling pass.
LEMMA PollKeeps ==
  ASSUME EngineInv, NEW c \in Pollers, PollFails(c) \/ pollStatus(c) \/ fetchResult(c)
  PROVE  EngineInv' /\ Revising
<1> DEFINE r == req[c].run
<1>1. /\ c \in Procs /\ r \in Runs /\ run[r] \in RunRecords /\ run[r].state # "absent"
      /\ up \in BOOLEAN
  BY DEF EngineInv, TypeOK, RunsExist, RunRecords, PollFails, pollStatus, fetchResult, Procs
<1>2. RequestsAdvance /\ UNCHANGED <<nonceUsed, denied, posted>>
  BY <1>1 DEF PollFails, pollStatus, fetchResult, RequestsAdvance
<1> HIDE DEF r
<1>3. SUFFICES Revising /\ up' \in BOOLEAN
  BY <1>2, RevisingKeeps DEF FlagsTyped, EngineInv, TypeOK
<1>4. \A x : Revised(x, run[r]) /\ PollError(r, x) => Revising /\ up' \in BOOLEAN
  BY <1>1, PollErrorEffect, PutRevises
<1>5. \A x : Revised(x, run[r]) /\ Put(r, x) /\ Kept(task') => Revising
  BY <1>1, PutRevises
<1>6. Kept(task) /\ Kept(ExecutionFailed(task)) /\ Kept(Delivered)
  BY ReportEffect
<1>7. /\ Revised([run[r] EXCEPT !.state = "polling"], run[r])
      /\ Revised([run[r] EXCEPT !.state = "failed"], run[r])
      /\ Revised([run[r] EXCEPT !.state = "running"], run[r])
      /\ Revised([run[r] EXCEPT !.state = "completed", !.result = TRUE], run[r])
  BY <1>1 DEF Revised, RunRecords, RunStates, ActiveRunStates, TerminalRunStates
<1>8. CASE PollFails(c)
  <2>1. Revised(run[r], run[r])
    BY <1>1 DEF Revised
  <2>2. PollError(r, run[r])
    BY <1>8 DEF PollFails, r
  <2> QED
    BY <1>4, <2>1, <2>2
<1>9. CASE pollStatus(c)
  <2>1. \/ Put(r, [run[r] EXCEPT !.state = "polling"]) /\ UNCHANGED <<task, up>>
        \/ PollError(r, [run[r] EXCEPT !.state = "failed"])
        \/ /\ Put(r, [run[r] EXCEPT !.state = "failed"])
           /\ task' = ExecutionFailed(task) /\ UNCHANGED up
        \/ Put(r, [run[r] EXCEPT !.state = "running"]) /\ UNCHANGED <<task, up>>
    BY <1>9 DEF pollStatus, r
  <2> QED
    BY <1>1, <1>4, <1>5, <1>6, <1>7, <2>1
<1>10. CASE fetchResult(c)
  <2>1. \/ PollError(r, [run[r] EXCEPT !.state = "completed", !.result = TRUE])
        \/ /\ Put(r, [run[r] EXCEPT !.state = "completed", !.result = TRUE])
           /\ task' = Delivered /\ UNCHANGED up
    BY <1>10 DEF fetchResult, r
  <2> QED
    BY <1>1, <1>4, <1>5, <1>6, <1>7, <2>1
<1> QED
  BY <1>8, <1>9, <1>10

\* The filter of a polling pass, and its visit to a run that is not queued.
LEMMA VisitKeeps ==
  ASSUME EngineInv, NEW c \in Pollers,
         \/ \E r \in Runs : List(c, r)
         \/ Visit(c) /\ run[req[c].run].state # "queued"
  PROVE  EngineInv' /\ Revising
<1>1. UNCHANGED <<task, run, nonceUsed, up, denied, posted>>
  BY DEF List, Visit
<1>2. Revising /\ FlagsTyped
  BY <1>1, ReportEffect DEF Revising, FlagsTyped, EngineInv, TypeOK, RunRecords
<1>3. RequestsAdvance
  BY DEF List, Visit, RequestsAdvance, EngineInv, RunsExist, Procs
<1> QED
  BY <1>2, <1>3, RevisingKeeps

\* Callbacks, the deadline of a run, and the creator.
LEMMA OutsideKeeps ==
  ASSUME EngineInv,
         \/ \E r \in Runs :
              RejectedCallback(r) \/ handleCallback(r) \/ AdapterCallback(r) \/ Overdue(r)
         \/ Creator
  PROVE  EngineInv' /\ Revising
<1> SUFFICES Revising /\ RequestsAdvance /\ FlagsTyped
  BY RevisingKeeps
<1>1. RequestsAdvance
  BY DEF RequestsAdvance, RejectedCallback, handleCallback, AdapterCallback, Overdue, Creator
<1>2. FlagsTyped
  BY DEF FlagsTyped, EngineInv, TypeOK, RejectedCallback, handleCallback, AdapterCallback,
         Overdue, Creator
<1>3. Kept(task) /\ Kept(Delivered)
  BY ReportEffect
<1>4. ASSUME NEW r \in Runs, RejectedCallback(r) \/ handleCallback(r) \/ Overdue(r)
      PROVE  Revising
  <2>1. run[r] \in RunRecords /\ run[r].state # "absent"
    BY <1>4 DEF EngineInv, TypeOK, RunRecords, RejectedCallback, handleCallback, Overdue
  <2>2. PICK y : Revised(y, run[r]) /\ Put(r, y)
    <3>1. ASSUME NEW code \in {"UNAUTHORIZED", "VALIDATION_ERROR"}
          PROVE  Revised([run[r] EXCEPT !.errorCode = code], run[r])
      BY <2>1 DEF Revised, RunRecords, ErrorCodes
    <3>2. /\ Revised([run[r] EXCEPT !.state = "completed", !.result = TRUE], run[r])
          /\ Revised([run[r] EXCEPT !.late = TRUE], run[r])
      BY <2>1 DEF Revised, RunRecords, RunStates, TerminalRunStates
    <3> QED
      BY <1>4, <3>1, <3>2 DEF RejectedCallback, handleCallback, Overdue
  <2>3. Kept(task')
    BY <1>3, <1>4 DEF RejectedCallback, handleCallback, Overdue
  <2> QED
    BY <2>2, <2>3, PutRevises
<1>5. ASSUME UNCHANGED run, Kept(task')
      PROVE  Revising
  BY <1>5 DEF Revising, EngineInv, TypeOK, RunRecords
<1>6. ASSUME NEW r \in Runs, AdapterCallback(r)
      PROVE  Revising
  BY <1>3, <1>5, <1>6 DEF AdapterCallback
<1>7. ASSUME Creator PROVE Revising
  <2>1. task' \in {Approved(task), Rejected(task), Cancelled(task)} /\ UNCHANGED run
    BY <1>7 DEF Creator
  <2>2. Kept(task')
    BY <2>1, DecisionEffect DEF Kept, EngineInv, TypeOK
  <2> QED
    BY <1>5, <2>1, <2>2
<1> QED
  BY <1>1, <1>2, <1>4, <1>6, <1>7

\* The timeout check revises every run it is due for.
LEMMA TimeoutsKeep ==
  ASSUME EngineInv, checkTimeouts
  PROVE  EngineInv' /\ Revising
<1>1. RequestsAdvance /\ UNCHANGED <<nonceUsed, denied, posted>> /\ up' \in BOOLEAN
  BY DEF checkTimeouts, RequestsAdvance, FailThrows, PassesAsRecovery, canRecoverTaskStatus
<1>2. FlagsTyped
  BY <1>1 DEF FlagsTyped, EngineInv, TypeOK
<1>3. Kept(task')
  BY ReportEffect DEF checkTimeouts
<1>4. /\ DOMAIN run' = Runs /\ run' = [r \in Runs |-> run'[r]]
      /\ \A r \in Runs : run'[r] = run[r] \/ (Active(r) /\ run'[r] = TimedOut(run[r]))
  BY DEF checkTimeouts
<1>5. ASSUME NEW r \in Runs, Active(r)
      PROVE  Revised(TimedOut(run[r]), run[r])
  <2>1. run[r] \in RunRecords /\ run[r].state \in ActiveRunStates
    BY <1>5 DEF EngineInv, TypeOK, Active, RunRecords
  <2>2. TimedOut(run[r]) \in RunRecords
    BY <2>1 DEF TimedOut, RunRecords, RunStates, TerminalRunStates, ErrorCodes
  <2> QED
    BY <2>1, <2>2 DEF Revised, TimedOut, RunRecords, ActiveRunStates
<1>6. \A r \in Runs : run'[r] = run[r] \/ Revised(run'[r], run[r])
  BY <1>4, <1>5
<1>7. \A r \in Runs : run'[r] \in RunRecords
  BY <1>6 DEF EngineInv, TypeOK, RunRecords, Revised
<1>8. Revising
  BY <1>3, <1>4, <1>6, <1>7 DEF Revising
<1> QED
  BY <1>1, <1>2, <1>8, RevisingKeeps

\* A run is dispatched by an acceptance, or by the visit of a polling pass to
\* a run that is queued; every other step revises runs.
LEMMA StepKeeps ==
  ASSUME EngineInv, [Next]_vars
  PROVE  /\ EngineInv'
         /\ \/ Revising
            \/ \E a \in Acceptors : Accept(a)
            \/ \E c \in Pollers : Visit(c) /\ run[req[c].run].state = "queued"
<1>1. CASE UNCHANGED vars
  <2>1. Revising /\ RequestsAdvance /\ FlagsTyped
    BY <1>1, ReportEffect
    DEF vars, Revising, RequestsAdvance, FlagsTyped, EngineInv, TypeOK, RunRecords
  <2> QED
    BY <2>1, RevisingKeeps
<1>2. ASSUME NEW a \in Acceptors, Accept(a)
      PROVE  EngineInv'
  <2>1. PICK k \in Candidates(task), r \in Runs :
          dispatch(a, r, k) /\ task' = Accepted(Joined(task, k), task.status = "OPEN")
    BY <1>2 DEF Accept
  <2>2. task \in TaskRecords({}) /\ task.funded /\ (task.status = "OPEN") \in BOOLEAN
    BY DEF EngineInv, TypeOK, RunsExist
  <2>3. k \in Nat
    BY <2>2 DEF Candidates, TaskRecords
  <2>4. Joined(task, k) \in TaskRecords({}) /\ Joined(task, k).funded
    BY <2>2, <2>3, JoinEffect
  <2>5. ASSUME NEW m \in TaskRecords({}), m.funded, NEW wasOpen \in BOOLEAN
        PROVE  Accepted(m, wasOpen) \in TaskRecords({}) /\ Accepted(m, wasOpen).funded
    BY <2>5, AcceptEffect DEF SameStanding
  <2>6. task' \in TaskRecords({}) /\ task'.funded
    <3> DEFINE joined == Joined(task, k)
               wasOpen == task.status = "OPEN"
    <3>1. joined \in TaskRecords({}) /\ joined.funded /\ wasOpen \in BOOLEAN
      BY <2>2, <2>4
    <3>2. task' = Accepted(joined, wasOpen)
      BY <2>1
    <3> HIDE DEF joined, wasOpen
    <3> QED
      BY <2>5, <3>1, <3>2
  <2>7. a \in Procs /\ UNCHANGED <<nonceUsed, up, denied, posted>>
    BY <1>2 DEF Accept, Procs
  <2> QED
    BY <2>1, <2>3, <2>6, <2>7, DispatchKeeps
<1>3. ASSUME NEW c \in Pollers, Visit(c), run[req[c].run].state = "queued"
      PROVE  EngineInv'
  <2>1. /\ c \in Procs /\ req[c].run \in Runs
        /\ dispatch(c, req[c].run, run[req[c].run].agent)
        /\ run[req[c].run].agent \in Nat
        /\ UNCHANGED <<task, nonceUsed, up, denied, posted>>
    BY <1>3 DEF Visit, Procs, EngineInv, RunsExist, TypeOK
  <2>2. task' \in TaskRecords({}) /\ task'.funded
    BY <2>1 DEF EngineInv, TypeOK, RunsExist
  <2> QED
    BY <2>1, <2>2, DispatchKeeps
<1>4. ASSUME NEW c \in Pollers, Poll(c) \/ \E r \in Runs : List(c, r)
      PROVE  \/ EngineInv' /\ Revising
             \/ Visit(c) /\ run[req[c].run].state = "queued"
  BY <1>4, VisitKeeps, PollKeeps DEF Poll
<1>5. ASSUME NEW p \in Procs, DispatchAnswers(p)
      PROVE  EngineInv' /\ Revising
  BY <1>5, AnswerKeeps
<1> QED
  BY <1>1, <1>2, <1>3, <1>4, <1>5, OutsideKeeps, TimeoutsKeep DEF Next

\* Every variable keeps its type, every run that exists has been dispatched,
\* and every continuation names a run that exists.
THEOREM EngineInvariant == Spec => []EngineInv
<1>1. Init => EngineInv
  <2> SUFFICES ASSUME Init PROVE EngineInv
    OBVIOUS
  <2>1. task \in TaskRecords({}) /\ task.funded
    <3>1. /\ "OPEN" \in TaskStatuses /\ "ASSIGNED" \in TaskStatuses
          /\ "not_started" \in ResultStatuses /\ "reward_funded" \in SettlementStates
          /\ "none" \in {"none", "open", "resolved"}
          /\ NoReceipts \in [Receipts -> 0 .. Several]
      BY DEF TaskStatuses, ResultStatuses, SettlementStates, NoReceipts, Several
    <3>2. task = [status |-> IF HiringMode = "open_market" THEN "OPEN" ELSE "ASSIGNED",
                  resultStatus |-> "not_started", settlementState |-> "reward_funded",
                  dispute |-> "none", submission |-> NoSubmission, funded |-> TRUE,
                  participants |-> IF HiringMode = "direct_hire" THEN 1 ELSE 0,
                  history |-> NoReceipts]
      BY DEF Init, buildTaskDetail
    <3> QED
      BY <3>1, <3>2 DEF TaskRecords
  <2>2. NoRun \in RunRecords /\ NoRun.state = "absent" /\ NoRun.attempt = 0
    BY DEF NoRun, RunRecords, RunStates, ErrorCodes
  <2>3. TypeOK
    BY <2>1, <2>2 DEF Init, TypeOK, RunRecords, Idle
  <2>4. RunsExist
    BY <2>1, <2>2 DEF Init, RunsExist, Idle
  <2> QED
    BY <2>3, <2>4 DEF EngineInv
<1>2. EngineInv /\ [Next]_vars => EngineInv'
  BY StepKeeps
<1> QED
  BY <1>1, <1>2, PTL DEF Spec

\* Every variable has its type.
COROLLARY TypeCorrect == Spec => []TypeOK
<1>1. EngineInv => TypeOK
  BY DEF EngineInv
<1> QED
  BY <1>1, EngineInvariant, PTL

-----------------------------------------------------------------------------
(* The retry limit. *)

\* A queued run has an attempt left, whoever dispatched it before.
RetriesInv == \A r \in Runs : run[r].state = "queued" => run[r].attempt < MaxRetries

\* What RetriesBounded says of one step.
WithinLimit ==
  \A r \in Runs :
    run'[r].attempt # run[r].attempt =>
      run'[r].attempt <= MaxRetries \/ DispatchedByOwner(r)

\* A dispatch adds an attempt to one run and takes it out of the queue.
LEMMA DispatchAdds ==
  ASSUME EngineInv, RetriesInv, NEW p \in Procs, NEW r \in Runs, NEW k, dispatch(p, r, k)
  PROVE  /\ RetriesInv'
         /\ \A s \in Runs : s # r => run'[s] = run[s]
         /\ run[r].attempt \in Nat /\ run'[r].attempt = run[r].attempt + 1
         /\ req'[p] = [pc |-> "dispatch", run |-> r]
<1>1. /\ run' = [run EXCEPT ![r] = [run[r] EXCEPT !.state = "dispatching", !.agent = k,
                                                  !.attempt = @ + 1]]
      /\ run[r] \in RunRecords /\ DOMAIN run = Runs /\ DOMAIN req = Procs
  BY DEF dispatch, Put, EngineInv, TypeOK, RunRecords
<1>2. /\ run'[r].state = "dispatching" /\ run'[r].attempt = run[r].attempt + 1
      /\ \A s \in Runs : s # r => run'[s] = run[s]
      /\ run[r].attempt \in Nat
  BY <1>1 DEF RunRecords
<1>3. req'[p] = [pc |-> "dispatch", run |-> r]
  BY <1>1 DEF dispatch, Wait
<1> QED
  BY <1>2, <1>3 DEF RetriesInv

\* Every step keeps to the limit, and leaves an attempt to what it queues.
LEMMA StepIsWithinLimit ==
  ASSUME EngineInv, RetriesInv, [Next]_vars
  PROVE  RetriesInv' /\ WithinLimit
<1>1. CASE Revising
  BY <1>1 DEF Revising, Revised, RetriesInv, WithinLimit
<1>2. ASSUME NEW a \in Acceptors, Accept(a)
      PROVE  RetriesInv' /\ WithinLimit
  <2>1. PICK k \in Candidates(task), r \in Runs : dispatch(a, r, k)
    BY <1>2 DEF Accept
  <2>2. a \in Procs /\ req[a].pc = "idle"
    BY <1>2 DEF Accept, Procs
  <2>3. /\ RetriesInv' /\ req'[a] = [pc |-> "dispatch", run |-> r]
        /\ \A s \in Runs : s # r => run'[s] = run[s]
    BY <2>1, <2>2, DispatchAdds
  <2>4. DispatchedByOwner(r)
    BY <2>2, <2>3 DEF DispatchedByOwner
  <2> QED
    BY <2>3, <2>4 DEF WithinLimit
<1>3. ASSUME NEW c \in Pollers, Visit(c), run[req[c].run].state = "queued"
      PROVE  RetriesInv' /\ WithinLimit
  <2> DEFINE r == req[c].run
  <2>1. c \in Procs /\ r \in Runs /\ dispatch(c, r, run[r].agent)
    BY <1>3 DEF Visit, EngineInv, RunsExist, Procs
  <2>2. run[r].attempt < MaxRetries
    BY <1>3, <2>1 DEF RetriesInv
  <2> HIDE DEF r
  <2>3. /\ RetriesInv' /\ run[r].attempt \in Nat /\ run'[r].attempt = run[r].attempt + 1
        /\ \A s \in Runs : s # r => run'[s] = run[s]
    BY <2>1, DispatchAdds
  <2>4. run'[r].attempt <= MaxRetries
    BY <2>2, <2>3, EngineConstants
  <2> QED
    BY <2>3, <2>4 DEF WithinLimit
<1> QED
  BY <1>1, <1>2, <1>3, StepKeeps

\* Whatever the participants, the acceptances, the overlap of polling passes,
\* the callbacks and the creator do: only an owner who accepts again takes a run
\* past the retry limit.
THEOREM RetriesAreBounded == Spec => RetriesBounded
<1>1. Init => RetriesInv
  BY DEF Init, NoRun, RetriesInv
<1>2. EngineInv /\ RetriesInv /\ [Next]_vars => RetriesInv'
  BY StepIsWithinLimit
<1>3. EngineInv /\ RetriesInv /\ [Next]_vars =>
        [\A r \in Runs :
           run'[r].attempt # run[r].attempt =>
             run'[r].attempt <= MaxRetries \/ DispatchedByOwner(r)]_vars
  BY StepIsWithinLimit DEF WithinLimit
<1> QED
  BY <1>1, <1>2, <1>3, EngineInvariant, PTL DEF Spec, RetriesBounded

-----------------------------------------------------------------------------
(* Who leaves a task EXECUTING with nobody working on it. *)

\* The two ways in which the end of a run goes untold.
Untold == (\E c \in Pollers : RetryGivenUp(c)) \/ \E r \in Runs : SubmissionRefused(r)

\* A task that was told, or that has an active run or an answer under way, is
\* not stranded.
LEMMA ToldIsNotStranded ==
  ASSUME \/ task'.status # "EXECUTING" \/ ~up'
         \/ \E r \in Runs : run'[r].state \in ActiveRunStates
         \/ \E p \in Procs : req'[p].pc \in {"dispatch", "status", "result"}
  PROVE  NoStrandedTask'
BY DEF NoStrandedTask, Working, Active

\* A run that is active after the step is worked on.
LEMMA PutActive ==
  ASSUME EngineInv, NEW r \in Runs, NEW y, Put(r, y), y.state \in ActiveRunStates
  PROVE  NoStrandedTask'
<1>1. run'[r] = y
  BY DEF EngineInv, TypeOK, Put
<1> QED
  BY <1>1, ToldIsNotStranded

\* The catch of a dispatch: whoever accepted tells the task of a failure, a
\* polling pass retries or gives up.
LEMMA CatchIsTold ==
  ASSUME EngineInv, NEW p \in Procs, req[p].pc = "dispatch", req'[p].pc = "idle",
         NEW x \in RunRecords, req[p].run \in Runs, Catch(p, req[p].run, x)
  PROVE  NoStrandedTask' \/ Untold
<1>1. CASE canRetry(x)
  <2>1. Put(req[p].run, scheduleRetry(x))
    BY <1>1 DEF Catch
  <2>2. scheduleRetry(x).state \in ActiveRunStates
    BY DEF scheduleRetry, ActiveRunStates, RunRecords
  <2> QED
    BY <2>1, <2>2, PutActive
<1>2. CASE ~canRetry(x) /\ p \in Acceptors
  <2>1. task' = ExecutionFailed(task)
    BY <1>2 DEF Catch
  <2> QED
    BY <2>1, ReportEffect, ToldIsNotStranded
<1>3. CASE ~canRetry(x) /\ p \in Pollers
  <2>1. run'[req[p].run] = x
    BY <1>3 DEF Catch, Put, EngineInv, TypeOK
  <2>2. RetryGivenUp(p)
    BY <1>3, <2>1 DEF RetryGivenUp
  <2> QED
    BY <1>3, <2>2 DEF Untold
<1> QED
  BY <1>1, <1>2, <1>3 DEF Procs

\* An answer to a dispatch.
LEMMA AnswerIsTold ==
  ASSUME EngineInv, NEW p \in Procs, DispatchAnswers(p)
  PROVE  NoStrandedTask' \/ Untold
<1> DEFINE r == req[p].run
<1>1. /\ r \in Runs /\ run[r] \in RunRecords
      /\ req[p].pc = "dispatch" /\ req'[p].pc = "idle"
  BY DEF EngineInv, TypeOK, RunsExist, RunRecords, DispatchAnswers, DispatchFails,
         DispatchReturnsResult, DispatchAccepted, Finish, Idle
<1>2. \A x \in RunRecords : Catch(p, r, x) => NoStrandedTask' \/ Untold
  BY <1>1, CatchIsTold
<1> HIDE DEF r
<1>3. CASE DispatchFails(p)
  <2>1. PICK code \in {"VALIDATION_ERROR", "CHAIN_WRITE_FAILED"} :
          Catch(p, r, [run[r] EXCEPT !.state = "failed", !.errorCode = code])
    BY <1>3 DEF DispatchFails, r
  <2>2. [run[r] EXCEPT !.state = "failed", !.errorCode = code] \in RunRecords
    BY <1>1 DEF RunRecords, RunStates, TerminalRunStates, ErrorCodes
  <2> QED
    BY <1>2, <2>1, <2>2
<1>4. CASE DispatchReturnsResult(p)
  <2> DEFINE x == [run[r] EXCEPT !.state = "completed", !.remote = TRUE, !.result = TRUE]
  <2>1. x \in RunRecords
    BY <1>1 DEF RunRecords, RunStates, TerminalRunStates
  <2>2. Catch(p, r, x) \/ task' = Delivered
    BY <1>4 DEF DispatchReturnsResult, r
  <2> HIDE DEF x
  <2> QED
    BY <1>2, <2>1, <2>2, ReportEffect, ToldIsNotStranded
<1>5. CASE DispatchAccepted(p)
  <2> DEFINE x(state) == [run[r] EXCEPT !.state = state, !.remote = TRUE]
  <2>1. PICK state \in {"awaiting_callback", "running"} :
          Catch(p, r, x(state)) \/ Put(r, x(state))
    BY <1>5 DEF DispatchAccepted, r
  <2>2. x(state) \in RunRecords /\ x(state).state \in ActiveRunStates
    BY <1>1 DEF RunRecords, RunStates, ActiveRunStates
  <2> HIDE DEF x
  <2> QED
    BY <1>1, <1>2, <2>1, <2>2, PutActive
<1> QED
  BY <1>3, <1>4, <1>5 DEF DispatchAnswers

\* The other answers a polling pass waits for: it retries, or tells the task.
LEMMA PollIsTold ==
  ASSUME EngineInv, NEW c \in Pollers, PollFails(c) \/ pollStatus(c) \/ fetchResult(c)
  PROVE  NoStrandedTask'
<1> DEFINE r == req[c].run
<1>1. r \in Runs /\ run[r] \in RunRecords
  BY DEF EngineInv, TypeOK, RunsExist, RunRecords, PollFails, pollStatus, fetchResult, Procs
<1> HIDE DEF r
<1>2. ASSUME NEW x \in RunRecords, PollError(r, x)
      PROVE  NoStrandedTask'
  <2> DEFINE y == [x EXCEPT !.errorCode = "CHAIN_READ_FAILED"]
  <2>1. CASE canRetry(y)
    <3>1. Put(r, scheduleRetry(y))
      BY <1>2, <2>1 DEF PollError
    <3>2. scheduleRetry(y).state \in ActiveRunStates
      BY DEF scheduleRetry, ActiveRunStates, RunRecords
    <3> QED
      BY <1>1, <3>1, <3>2, PutActive
  <2>2. CASE ~canRetry(y)
    <3>1. task' = ExecutionFailed(task)
      BY <1>2, <2>2 DEF PollError
    <3> QED
      BY <3>1, ReportEffect, ToldIsNotStranded
  <2> QED
    BY <2>1, <2>2
<1>3. /\ [run[r] EXCEPT !.state = "polling"].state \in ActiveRunStates
      /\ [run[r] EXCEPT !.state = "running"].state \in ActiveRunStates
      /\ [run[r] EXCEPT !.state = "failed"] \in RunRecords
      /\ [run[r] EXCEPT !.state = "completed", !.result = TRUE] \in RunRecords
  BY <1>1 DEF RunRecords, RunStates, ActiveRunStates, TerminalRunStates
<1>4. \/ PollError(r, run[r])
      \/ PollError(r, [run[r] EXCEPT !.state = "failed"])
      \/ PollError(r, [run[r] EXCEPT !.state = "completed", !.result = TRUE])
      \/ Put(r, [run[r] EXCEPT !.state = "polling"])
      \/ Put(r, [run[r] EXCEPT !.state = "running"])
      \/ task' \in {ExecutionFailed(task), Delivered}
  BY DEF PollFails, pollStatus, fetchResult, r
<1> QED
  BY <1>1, <1>2, <1>3, <1>4, ReportEffect, PutActive, ToldIsNotStranded

\* The filter of a polling pass and its visit: a visit dispatches, or leaves
\* every run and every other answer as they were.
LEMMA VisitStrandsNothing ==
  ASSUME EngineInv, NoStrandedTask, NEW c \in Pollers,
         Visit(c) \/ \E r \in Runs : List(c, r)
  PROVE  NoStrandedTask'
<1>1. c \in Procs /\ DOMAIN req = Procs /\ (req[c].pc = "listed" => req[c].run \in Runs)
  BY DEF EngineInv, TypeOK, RunsExist, Procs
<1>2. CASE \E k : dispatch(c, req[c].run, k)
  BY <1>1, <1>2, ToldIsNotStranded DEF dispatch, Wait
<1>3. CASE /\ UNCHANGED <<task, run, up>> /\ req[c].pc \in {"idle", "listed"}
           /\ \A p \in Procs : p # c => req'[p] = req[p]
  BY <1>3 DEF NoStrandedTask, Working, Active
<1>4. ASSUME NEW r \in Runs, List(c, r)
      PROVE  NoStrandedTask'
  BY <1>1, <1>3, <1>4 DEF List, Wait
<1>5. CASE Visit(c)
  BY <1>1, <1>2, <1>3, <1>5 DEF Visit, Wait, Finish
<1> QED
  BY <1>4, <1>5

\* Callbacks: one that completes an active run tells the task of its result,
\* or is refused.
LEMMA CallbackIsTold ==
  ASSUME EngineInv, NoStrandedTask, NEW r \in Runs,
         RejectedCallback(r) \/ handleCallback(r) \/ AdapterCallback(r) \/ Overdue(r)
  PROVE  NoStrandedTask' \/ Untold
<1>1. run[r] \in RunRecords /\ DOMAIN run = Runs
  BY DEF EngineInv, TypeOK, RunRecords
<1>2. ASSUME UNCHANGED <<task, req, up>>, \A s \in Runs : Active(s) => run'[s].state = run[s].state
      PROVE  NoStrandedTask'
  BY <1>2 DEF NoStrandedTask, Working, Active
<1>3. CASE RejectedCallback(r)
  <2>1. PICK code \in {"UNAUTHORIZED", "VALIDATION_ERROR"} :
          run' = [run EXCEPT ![r] = [run[r] EXCEPT !.errorCode = code]]
    BY <1>3 DEF RejectedCallback, Put
  <2>2. \A s \in Runs : run'[s].state = run[s].state
    BY <1>1, <2>1 DEF RunRecords
  <2> QED
    BY <1>2, <1>3, <2>2 DEF RejectedCallback
<1>4. CASE Overdue(r)
  <2>1. run' = [run EXCEPT ![r] = [run[r] EXCEPT !.late = TRUE]]
    BY <1>4 DEF Overdue, Put
  <2>2. \A s \in Runs : run'[s].state = run[s].state
    BY <1>1, <2>1 DEF RunRecords
  <2> QED
    BY <1>2, <1>4, <2>2 DEF Overdue
<1>5. CASE AdapterCallback(r)
  BY <1>2, <1>5 DEF AdapterCallback
<1>6. CASE handleCallback(r)
  <2>1. /\ run' = [run EXCEPT ![r] = [run[r] EXCEPT !.state = "completed", !.result = TRUE]]
        /\ task' \in {task, Delivered} /\ UNCHANGED <<req, up>>
    BY <1>6 DEF handleCallback, Put
  <2>2. run'[r].state = "completed" /\ \A s \in Runs : s # r => run'[s] = run[s]
    BY <1>1, <2>1 DEF RunRecords
  <2>3. CASE task' = Delivered
    BY <2>3, ReportEffect, ToldIsNotStranded
  <2>4. CASE task' = task /\ Active(r)
    BY <2>1, <2>2, <2>4 DEF SubmissionRefused, Untold
  <2>5. CASE task' = task /\ ~Active(r)
    BY <1>2, <2>1, <2>2, <2>5
  <2> QED
    BY <2>1, <2>3, <2>4, <2>5
<1> QED
  BY <1>3, <1>4, <1>5, <1>6

\* Whatever the retry limit, the participants, the callbacks, the overlap of
\* polling passes and the creator do: a task that shows EXECUTING is worked on,
\* until a polling pass gives a retry up or a callback's submission is refused.
\* (MCExecutionEnginePolling and MCExecutionEngineCallbacks show that each of
\* the two leaves a task that executes for ever.)
THEOREM StrandedOnlyByUntold == Spec => StrandedOnlyUntold
<1>1. EngineInv /\ NoStrandedTask /\ [Next]_vars => NoStrandedTask' \/ Untold
  <2> SUFFICES ASSUME EngineInv, NoStrandedTask, [Next]_vars
               PROVE  NoStrandedTask' \/ Untold
    OBVIOUS
  <2>1. CASE UNCHANGED vars
    BY <2>1 DEF vars, NoStrandedTask, Working, Active
  <2>2. ASSUME NEW a \in Acceptors, Accept(a)
        PROVE  NoStrandedTask'
    <3>1. PICK k \in Candidates(task), r \in Runs : dispatch(a, r, k)
      BY <2>2 DEF Accept
    <3>2. a \in Procs /\ req'[a].pc = "dispatch"
      BY <3>1 DEF dispatch, Wait, EngineInv, TypeOK, Procs
    <3> QED
      BY <3>2, ToldIsNotStranded
  <2>3. CASE checkTimeouts
    <3>1. task' = ExecutionFailed(task)
      BY <2>3 DEF checkTimeouts
    <3> QED
      BY <3>1, ReportEffect, ToldIsNotStranded
  <2>4. CASE Creator
    <3>1. /\ task.status # "EXECUTING"
          /\ task' \in {Approved(task), Rejected(task), Cancelled(task)}
      BY <2>4 DEF Creator, MayCancel, MayDecide, IsReviewable
    <3>2. task'.status # "EXECUTING"
      BY <3>1, DecisionEffect DEF EngineInv, TypeOK
    <3> QED
      BY <3>2, ToldIsNotStranded
  <2>5. ASSUME NEW c \in Pollers, Poll(c) \/ \E r \in Runs : List(c, r)
        PROVE  NoStrandedTask'
    BY <2>5, PollIsTold, VisitStrandsNothing DEF Poll
  <2> QED
    BY <2>1, <2>2, <2>3, <2>4, <2>5, AnswerIsTold, CallbackIsTold DEF Next
<1>2. EngineInv /\ [Next]_vars =>
        [NoStrandedTask => \/ NoStrandedTask'
                           \/ \E c \in Pollers : RetryGivenUp(c)
                           \/ \E r \in Runs : SubmissionRefused(r)]_vars
  BY <1>1 DEF Untold
<1> QED
  BY <1>2, EngineInvariant, PTL DEF Spec, StrandedOnlyUntold
=============================================================================
