----------------------------- MODULE RunnerRuns -----------------------------
(***************************************************************************)
(* The runner manager (internal/runners/manager.go) over the runner_runs   *)
(* table (internal/db/runner_run_store.go) and the job registry            *)
(* (internal/jobs/registry.go).                                            *)
(*                                                                         *)
(* The processes are goroutines: the callers of Enqueue (one per run), the *)
(* manager's workers, the executions they start, the continuations that    *)
(* follow an approval, the callers of Abort and AbortJob, the recovery     *)
(* ticker, and Start's reconciliation after a crash. A step is one SQL     *)
(* statement or transaction, one critical section of the registry, or one  *)
(* of m.mu; anything else a goroutine does is invisible to the others.     *)
(*                                                                         *)
(* A registry entry keeps what the manager depends on: presence, status,   *)
(* the terminal flag, which cancel function is attached, and how often it  *)
(* was reopened. Its event log is the subject of JobRegistry.              *)
(***************************************************************************)
EXTENDS Naturals, FiniteSets

CONSTANTS Runs,        \* run ids (each with its job id), enqueued once each
          Workers,     \* the manager's MaxConcurrent worker goroutines
          Aborters,    \* callers of Manager.Abort, one call each
          AppAborters, \* callers of ServiceApp.AbortJob, one call each
          Resumers,    \* approvals of a paused turn, one resumption each
          MaxQueued,   \* m.MaxQueued
          MaxPauses,   \* bound: approval requests per run
          MaxCrashes,  \* bound: crashes of the service
          MaxFaults    \* bound: failed statements and preparations

ASSUME RunnerAssumption ==
  /\ IsFiniteSet(Runs) /\ Runs # {}
  /\ IsFiniteSet(Workers) /\ Workers # {}
  /\ IsFiniteSet(Resumers)
  /\ Aborters \cap AppAborters = {}
  /\ Resumers \cap (Aborters \cup AppAborters) = {}
  /\ MaxQueued \in Nat \ {0}
  /\ MaxPauses \in Nat
  /\ MaxCrashes \in Nat
  /\ MaxFaults \in Nat

MaxConcurrent == Cardinality(Workers)

\* A failed resumption calls Manager.Abort from its own goroutine.
AbortCalls == Aborters \cup AppAborters \cup Resumers

VARIABLES row,         \* runner_runs.status, "none" before the insert
          requestedAt, \* runner_runs.requested_at
          clock,       \* the wall clock, in ticks
          job,         \* the registry's entries
          enq,         \* where the Enqueue call of a run is
          worker,      \* the worker goroutines
          ex,          \* executions: a worker's executeRun, a continuation
          ab,          \* Abort and AbortJob calls
          re,          \* resumeTurnAfterNativeApproval goroutines
          pauses,      \* approval requests a run made so far
          notify,      \* tokens in m.notifyCh
          mgr,         \* the process: down, starting, started or stopping
          todo,        \* what Start still has to do: rows, and how many were queued
          crashes,     \* crashes so far
          faults       \* failed statements and preparations so far

vars == <<row, requestedAt, clock, job, enq, worker, ex, ab, re, pauses,
          notify, mgr, todo, crashes, faults>>

-----------------------------------------------------------------------------
(* Values.                                                                   *)

FinishedRows == {"succeeded", "failed", "aborted", "timed_out"}
RowStatuses  == FinishedRows \cup {"none", "queued", "running",
                                   "approval_required"}
OpenRows     == {"running", "approval_required"}

Slots == {"worker", "cont"}

\* The registry's view of a job. cancel is the number of the execution whose
\* context the attached function cancels, 0 for none.
JobRecs == [present : BOOLEAN, status : RowStatuses, terminal : BOOLEAN,
            cancel : Nat, reopened : Nat]
NoJob   == [present |-> FALSE, status |-> "none", terminal |-> FALSE,
            cancel |-> 0, reopened |-> 0]
NewJob  == [NoJob EXCEPT !.present = TRUE, !.status = "queued"]

EnqPcs == {"idle", "insert", "register", "publish", "signal", "done"}

WorkerPcs  == {"scan", "wait", "exec", "exit"}
WorkerRecs == [pc : WorkerPcs, run : Runs]

\* An execution runs the agent in the pcs of Live; afterwards it carries out
\* what it decided (st): a pause, or a completion and its finalization.
LivePcs    == {"resume", "attach", "started", "running"}
PausePcs   == {"pause", "pauseEmit", "pausePublish", "pauseMark"}
FinishPcs  == {"emit", "finalize", "publish", "mark"}
ExecPcs    == LivePcs \cup PausePcs \cup FinishPcs \cup {"off"}
Contexts   == {"live", "canceled", "deadline"}
ExecRecs   == [pc : ExecPcs, ctx : Contexts, gen : Nat,
               st : FinishedRows \cup {"none"}]
NoExec     == [pc |-> "off", ctx |-> "live", gen |-> 0, st |-> "none"]

AbortPcs  == {"idle", "app", "cancelCont", "waitCont", "cancel", "read",
              "reopen", "finalize", "publish", "mark",
              "abortQueued", "queuedPublish", "queuedMark", "returned"}
AbortRecs == [pc : AbortPcs, run : Runs, cancelled : BOOLEAN, ok : BOOLEAN]

ResumePcs  == {"idle", "check", "reopen", "publish", "begin", "cont", "done"}
ResumeRecs == [pc : ResumePcs, run : Runs]

StartWork   == [rows : SUBSET Runs, queued : Nat]
NothingToDo == [rows |-> {}, queued |-> 0]

AnyRun == CHOOSE r \in Runs : TRUE
IdleAbort  == [pc |-> "idle", run |-> AnyRun, cancelled |-> FALSE, ok |-> FALSE]
IdleResume == [pc |-> "idle", run |-> AnyRun]
IdleWorker == [pc |-> "scan", run |-> AnyRun]

Init ==
  /\ row = [r \in Runs |-> "none"]
  /\ requestedAt = [r \in Runs |-> 0]
  /\ clock = 0
  /\ job = [r \in Runs |-> NoJob]
  /\ enq = [r \in Runs |-> "idle"]
  /\ worker = [w \in Workers |-> IdleWorker]
  /\ ex = [s \in Slots |-> [r \in Runs |-> NoExec]]
  /\ ab = [a \in AbortCalls |-> IdleAbort]
  /\ re = [p \in Resumers |-> IdleResume]
  /\ pauses = [r \in Runs |-> 0]
  /\ notify = 0
  /\ mgr = "started"
  /\ todo = NothingToDo
  /\ crashes = 0
  /\ faults = 0

-----------------------------------------------------------------------------
(* The registry's methods, on one entry (see JobRegistry).                   *)

Accepts(j) == j.present /\ ~j.terminal

JobPublish(j, st) == IF Accepts(j) THEN [j EXCEPT !.status = st] ELSE j

JobMarkTerminal(j, st) ==
  IF Accepts(j) THEN [j EXCEPT !.status = st, !.terminal = TRUE] ELSE j

JobReopen(j) ==
  IF j.present THEN [j EXCEPT !.terminal = FALSE, !.status = "running",
                              !.reopened = @ + 1] ELSE j

JobAttachCancel(j, g) == IF j.present THEN [j EXCEPT !.cancel = g] ELSE j

\* The status Complete and Fail leave for a finished row.
JobStatusOf(st) == IF st = "timed_out" THEN "failed" ELSE st

\* Cancelling the context of execution number g of run r, if it is still on.
CancelContext(e, g) ==
  IF e.pc # "off" /\ e.gen = g /\ e.ctx = "live"
  THEN [e EXCEPT !.ctx = "canceled"] ELSE e

CancelExecution(r, g) ==
  [s \in Slots |-> [ex[s] EXCEPT ![r] = CancelContext(@, g)]]

ExecTo(s, r, e) == ex' = [ex EXCEPT ![s][r] = e]

Goto(s, r, pc) == ExecTo(s, r, [ex[s][r] EXCEPT !.pc = pc])

\* The execution has decided that the run ends with status st.
Decide(s, r, pc, st) == ExecTo(s, r, [ex[s][r] EXCEPT !.pc = pc, !.st = st])

Cancellable(r) == job[r].present /\ job[r].cancel # 0

-----------------------------------------------------------------------------
(* Manager.Enqueue.                                                          *)

Up == mgr # "down"
Queued == {r \in Runs : row[r] = "queued"}

Lesser(a, b) == IF a < b THEN a ELSE b

\* signalN under m.mu: tokens are dropped once the channel is full.
Signalled(n) == IF mgr \in {"starting", "started"}
                THEN Lesser(notify + n, MaxConcurrent) ELSE notify

\* The validations passed; requested_at is taken before the insert.
EnqueueStamp(r) ==
  /\ Up
  /\ enq[r] = "idle"
  /\ clock' \in {clock, clock + 1}
  /\ requestedAt' = [requestedAt EXCEPT ![r] = clock']
  /\ enq' = [enq EXCEPT ![r] = "insert"]
  /\ UNCHANGED <<row, job, worker, ex, ab, re, pauses, notify, mgr, todo,
                 crashes, faults>>

\* EnqueueRunnerRunLimited: ErrRunnerRunQueueFull when the queue is full.
EnqueueInsert(r) ==
  /\ enq[r] = "insert"
  /\ \/ /\ Cardinality(Queued) < MaxQueued
        /\ row' = [row EXCEPT ![r] = "queued"]
        /\ enq' = [enq EXCEPT ![r] = "register"]
        /\ UNCHANGED faults
     \/ /\ Cardinality(Queued) >= MaxQueued
        /\ enq' = [enq EXCEPT ![r] = "done"]
        /\ UNCHANGED <<row, faults>>
     \/ /\ faults < MaxFaults
        /\ faults' = faults + 1
        /\ enq' = [enq EXCEPT ![r] = "done"]
        /\ UNCHANGED row
  /\ UNCHANGED <<requestedAt, clock, job, worker, ex, ab, re, pauses, notify,
                 mgr, todo, crashes>>

\* RegisterWithID cleans up first: any of the terminal entries may be gone
\* (too old, or too many of them).
EnqueueRegister(r) ==
  /\ enq[r] = "register"
  /\ \E gone \in SUBSET {q \in Runs : job[q].present /\ job[q].terminal} :
       job' = [q \in Runs |-> IF q = r THEN NewJob
                              ELSE IF q \in gone THEN NoJob ELSE job[q]]
  /\ enq' = [enq EXCEPT ![r] = "publish"]
  /\ UNCHANGED <<row, requestedAt, clock, worker, ex, ab, re, pauses, notify,
                 mgr, todo, crashes, faults>>

EnqueuePublish(r) ==
  /\ enq[r] = "publish"
  /\ job' = [job EXCEPT ![r] = JobPublish(@, "queued")]
  /\ enq' = [enq EXCEPT ![r] = "signal"]
  /\ UNCHANGED <<row, requestedAt, clock, worker, ex, ab, re, pauses, notify,
                 mgr, todo, crashes, faults>>

EnqueueSignal(r) ==
  /\ enq[r] = "signal"
  /\ notify' = Signalled(1)
  /\ enq' = [enq EXCEPT ![r] = "done"]
  /\ UNCHANGED <<row, requestedAt, clock, job, worker, ex, ab, re, pauses, mgr,
                 todo, crashes, faults>>

-----------------------------------------------------------------------------
(* workerLoop and recoveryLoop.                                              *)

\* ClaimNextRunnerRun: the oldest queued row, ties broken by the random id.
\* A cancelled manager context fails the statement instead.
Claim(w, r) ==
  /\ worker[w].pc = "scan"
  /\ mgr \in {"starting", "started"}
  /\ row[r] = "queued"
  /\ \A q \in Queued : requestedAt[r] <= requestedAt[q]
  /\ row' = [row EXCEPT ![r] = "running"]
  /\ worker' = [worker EXCEPT ![w] = [pc |-> "exec", run |-> r]]
  /\ ExecTo("worker", r, [pc |-> "attach", ctx |-> "live", gen |-> 1,
                          st |-> "none"])
  /\ UNCHANGED <<requestedAt, clock, job, enq, ab, re, pauses, notify, mgr,
                 todo, crashes, faults>>

\* Nothing to claim, or the statement failed: wait for a token.
ClaimNothing(w) ==
  /\ worker[w].pc = "scan"
  /\ \/ (Queued = {} \/ mgr = "stopping") /\ UNCHANGED faults
     \/ faults < MaxFaults /\ faults' = faults + 1
  /\ worker' = [worker EXCEPT ![w] = [@ EXCEPT !.pc = "wait"]]
  /\ UNCHANGED <<row, requestedAt, clock, job, enq, ex, ab, re, pauses, notify,
                 mgr, todo, crashes>>

\* The select of workerLoop: a token, or the cancelled context.
WorkerWake(w) ==
  /\ worker[w].pc = "wait"
  /\ \/ /\ notify > 0
        /\ notify' = notify - 1
        /\ worker' = [worker EXCEPT ![w] = [@ EXCEPT !.pc = "scan"]]
     \/ /\ mgr = "stopping"
        /\ worker' = [worker EXCEPT ![w] = [@ EXCEPT !.pc = "exit"]]
        /\ UNCHANGED notify
  /\ UNCHANGED <<row, requestedAt, clock, job, enq, ex, ab, re, pauses, mgr,
                 todo, crashes, faults>>

\* (Mutant: the worker waits for a token after every run.)
MutWorkerReturn(w) ==
  /\ worker[w].pc = "exec"
  /\ ex["worker"][worker[w].run].pc = "off"
  /\ worker' = [worker EXCEPT ![w] = [@ EXCEPT !.pc = "wait"]]
  /\ UNCHANGED <<row, requestedAt, clock, job, enq, ex, ab, re, pauses, notify,
                 mgr, todo, crashes, faults>>

\* executeRun has returned: the worker looks for the next run.
WorkerReturn(w) ==
  /\ worker[w].pc = "exec"
  /\ ex["worker"][worker[w].run].pc = "off"
  /\ worker' = [worker EXCEPT ![w] = [@ EXCEPT !.pc = "scan"]]
  /\ UNCHANGED <<row, requestedAt, clock, job, enq, ex, ab, re, pauses, notify,
                 mgr, todo, crashes, faults>>

\* (Mutant: the tick sends no token.)
MutRecoveryTick ==
  /\ mgr \in {"starting", "started"}
  /\ UNCHANGED vars

RecoveryTick ==
  /\ mgr \in {"starting", "started"}
  /\ notify # MaxConcurrent
  /\ notify' = MaxConcurrent
  /\ UNCHANGED <<row, requestedAt, clock, job, enq, worker, ex, ab, re, pauses,
                 mgr, todo, crashes, faults>>

-----------------------------------------------------------------------------
(* An execution: executeRun, and ResumeNativeRunAfterApproval from the point *)
(* where its continuation is registered.                                     *)

ExecUnchanged == UNCHANGED <<requestedAt, clock, enq, worker, ab, re, notify,
                             mgr, todo, crashes>>

\* AttachCancel: lost when the entry is not there (yet).
ExecAttach(s, r) ==
  /\ ex[s][r].pc = "attach"
  /\ job' = [job EXCEPT ![r] = JobAttachCancel(@, ex[s][r].gen)]
  /\ Goto(s, r, IF s = "worker" THEN "started" ELSE "running")
  /\ ExecUnchanged /\ UNCHANGED <<row, pauses, faults>>

ExecStarted(s, r) ==
  /\ ex[s][r].pc = "started"
  /\ job' = [job EXCEPT ![r] = JobPublish(@, "running")]
  /\ Goto(s, r, "running")
  /\ ExecUnchanged /\ UNCHANGED <<row, pauses, faults>>

\* The context's deadline passes (batch runs have one, chat turns do not).
ExecDeadline(r) ==
  /\ ex["worker"][r].pc \in LivePcs
  /\ ex["worker"][r].ctx = "live"
  /\ ExecTo("worker", r, [ex["worker"][r] EXCEPT !.ctx = "deadline"])
  /\ ExecUnchanged /\ UNCHANGED <<row, job, pauses, faults>>

\* (Mutant: the context's error is taken for a row status.)
MutOutcomeOf(ctx, exit) == IF ctx = "live" THEN exit ELSE ctx

\* What the end of the agent means, given the context at that moment.
OutcomeOf(ctx, exit) ==
  CASE ctx = "deadline" -> "timed_out"
    [] ctx = "canceled" -> "aborted"
    [] OTHER -> exit

\* The agent stops to ask for approval: a pause, unless the context is done.
ExecAsksApproval(s, r) ==
  /\ ex[s][r].pc = "running"
  /\ IF ex[s][r].ctx = "live"
     THEN /\ pauses[r] < MaxPauses
          /\ Goto(s, r, "pause")
     ELSE Decide(s, r, "emit", OutcomeOf(ex[s][r].ctx, "aborted"))
  /\ ExecUnchanged /\ UNCHANGED <<row, job, pauses, faults>>

\* The agent ends, natively or as a CLI process.
ExecEnds(s, r) ==
  /\ ex[s][r].pc = "running"
  /\ \E exit \in {"succeeded", "failed"} :
       Decide(s, r, "emit", OutcomeOf(ex[s][r].ctx, exit))
  /\ ExecUnchanged /\ UNCHANGED <<row, job, pauses, faults>>

\* The command cannot be built, or executeRun panics: failed, without a
\* completion event. Only a worker has these paths.
ExecBreaks(r) ==
  /\ ex["worker"][r].pc = "running"
  /\ Decide("worker", r, "finalize", "failed")
  /\ ExecUnchanged /\ UNCHANGED <<row, job, pauses, faults>>

\* (Mutant: the completion event already finishes the job.)
MutExecEmit(s, r) ==
  /\ ex[s][r].pc = "emit"
  /\ job' = [job EXCEPT ![r] = JobMarkTerminal(@, ex[s][r].st)]
  /\ Goto(s, r, "finalize")
  /\ ExecUnchanged /\ UNCHANGED <<row, pauses, faults>>

\* emitCompletion: the status is published before the row has it.
ExecEmit(s, r) ==
  /\ ex[s][r].pc = "emit"
  /\ job' = [job EXCEPT ![r] = JobPublish(@, ex[s][r].st)]
  /\ Goto(s, r, "finalize")
  /\ ExecUnchanged /\ UNCHANGED <<row, pauses, faults>>

\* (Mutant: the update has no condition on the status.)
MutFinalizeAny(s, r) ==
  /\ ex[s][r].pc = "finalize"
  /\ row' = [row EXCEPT ![r] = ex[s][r].st]
  /\ Goto(s, r, "publish")
  /\ ExecUnchanged /\ UNCHANGED <<job, pauses, faults>>

\* (Mutant: the statement uses the run's own context, which may be done.)
MutFinalizeCtx(s, r) ==
  /\ ex[s][r].pc = "finalize"
  /\ IF row[r] \in OpenRows /\ ex[s][r].ctx = "live"
     THEN /\ row' = [row EXCEPT ![r] = ex[s][r].st]
          /\ Goto(s, r, "publish")
     ELSE Goto(s, r, "off") /\ UNCHANGED row
  /\ ExecUnchanged /\ UNCHANGED <<job, pauses, faults>>

\* FinalizeRunnerRun is conditional on an open row. When it does not apply, or
\* fails, finalizeRun returns and the registry never hears of it.
ExecFinalize(s, r) ==
  /\ ex[s][r].pc = "finalize"
  /\ \/ /\ row[r] \in OpenRows
        /\ row' = [row EXCEPT ![r] = ex[s][r].st]
        /\ Goto(s, r, "publish")
        /\ UNCHANGED faults
     \/ /\ row[r] \notin OpenRows
        /\ Goto(s, r, "off")
        /\ UNCHANGED <<row, faults>>
     \/ /\ faults < MaxFaults
        /\ faults' = faults + 1
        /\ Goto(s, r, "off")
        /\ UNCHANGED row
  /\ ExecUnchanged /\ UNCHANGED <<job, pauses>>

\* Jobs.Complete or Jobs.Fail: the last event ...
ExecPublish(s, r) ==
  /\ ex[s][r].pc = "publish"
  /\ job' = [job EXCEPT ![r] = JobPublish(@, JobStatusOf(ex[s][r].st))]
  /\ Goto(s, r, IF Accepts(job[r]) THEN "mark" ELSE "off")
  /\ ExecUnchanged /\ UNCHANGED <<row, pauses, faults>>

\* ... and markTerminal, in a critical section of its own.
ExecMark(s, r) ==
  /\ ex[s][r].pc = "mark"
  /\ job' = [job EXCEPT ![r] = JobMarkTerminal(@, JobStatusOf(ex[s][r].st))]
  /\ Goto(s, r, "off")
  /\ ExecUnchanged /\ UNCHANGED <<row, pauses, faults>>

\* (Mutant: executeRun goes on after the pause.)
MutPauseRow(s, r) ==
  /\ ex[s][r].pc = "pause"
  /\ row[r] = "running"
  /\ row' = [row EXCEPT ![r] = "approval_required"]
  /\ pauses' = [pauses EXCEPT ![r] = @ + 1]
  /\ job' = [job EXCEPT ![r] = JobMarkTerminal(@, "approval_required")]
  /\ Goto(s, r, "running")
  /\ ExecUnchanged /\ UNCHANGED faults

\* pauseRunForNativeApproval: MarkRunnerRunApprovalRequired (when it does not
\* apply or fails, nothing else happens) ...
PauseRow(s, r) ==
  /\ ex[s][r].pc = "pause"
  /\ \/ /\ row[r] = "running"
        /\ row' = [row EXCEPT ![r] = "approval_required"]
        /\ pauses' = [pauses EXCEPT ![r] = @ + 1]
        /\ Goto(s, r, "pauseEmit")
        /\ UNCHANGED faults
     \/ /\ row[r] # "running"
        /\ Goto(s, r, "off")
        /\ UNCHANGED <<row, pauses, faults>>
     \/ /\ faults < MaxFaults
        /\ faults' = faults + 1
        /\ Goto(s, r, "off")
        /\ UNCHANGED <<row, pauses>>
  /\ ExecUnchanged /\ UNCHANGED job

\* ... emitCompletion with that status ...
PauseEmit(s, r) ==
  /\ ex[s][r].pc = "pauseEmit"
  /\ job' = [job EXCEPT ![r] = JobPublish(@, "approval_required")]
  /\ Goto(s, r, "pausePublish")
  /\ ExecUnchanged /\ UNCHANGED <<row, pauses, faults>>

\* ... and Jobs.PauseForApproval: its event, then markTerminal.
PausePublish(s, r) ==
  /\ ex[s][r].pc = "pausePublish"
  /\ job' = [job EXCEPT ![r] = JobPublish(@, "approval_required")]
  /\ Goto(s, r, IF Accepts(job[r]) THEN "pauseMark" ELSE "off")
  /\ ExecUnchanged /\ UNCHANGED <<row, pauses, faults>>

PauseMark(s, r) ==
  /\ ex[s][r].pc = "pauseMark"
  /\ job' = [job EXCEPT ![r] = JobMarkTerminal(@, "approval_required")]
  /\ Goto(s, r, "off")
  /\ ExecUnchanged /\ UNCHANGED <<row, pauses, faults>>

-----------------------------------------------------------------------------
(* ServiceApp.AbortJob and Manager.Abort.                                    *)

AbortUnchanged == UNCHANGED <<requestedAt, clock, enq, worker, re, pauses,
                              notify, mgr, todo, crashes>>

AbortTo(a, pc) == ab' = [ab EXCEPT ![a] = [@ EXCEPT !.pc = pc]]

Return(a, ok) == ab' = [ab EXCEPT ![a] = [@ EXCEPT !.pc = "returned", !.ok = ok]]

\* A client asks for the abort of run r.
AbortCall(a, r) ==
  /\ Up
  /\ a \in Aborters \cup AppAborters
  /\ ab[a].pc = "idle"
  /\ ab' = [ab EXCEPT ![a] =
              [@ EXCEPT !.pc = IF a \in AppAborters THEN "app" ELSE "cancelCont",
                        !.run = r]]
  /\ AbortUnchanged /\ UNCHANGED <<row, job, ex, faults>>

\* AbortJob: a cancel function that could be called is an answer.
AppCancel(a) ==
  LET r == ab[a].run IN
  /\ ab[a].pc = "app"
  /\ IF Cancellable(r)
     THEN /\ ex' = CancelExecution(r, job[r].cancel)
          /\ Return(a, TRUE)
     ELSE /\ AbortTo(a, "cancelCont")
          /\ UNCHANGED ex
  /\ AbortUnchanged /\ UNCHANGED <<row, job, faults>>

\* cancelContinuation, under m.mu.
AbortCancelCont(a) ==
  LET r == ab[a].run IN
  /\ ab[a].pc = "cancelCont"
  /\ IF ex["cont"][r].pc # "off"
     THEN /\ ExecTo("cont", r, CancelContext(ex["cont"][r], ex["cont"][r].gen))
          /\ AbortTo(a, "waitCont")
     ELSE /\ AbortTo(a, "cancel")
          /\ UNCHANGED ex
  /\ AbortUnchanged /\ UNCHANGED <<row, job, faults>>

\* continuation.done, or the caller's own context (an error).
AbortWaitCont(a) ==
  /\ ab[a].pc = "waitCont"
  /\ \/ ex["cont"][ab[a].run].pc = "off" /\ AbortTo(a, "cancel")
     \/ a \notin Resumers /\ Return(a, FALSE)
  /\ AbortUnchanged /\ UNCHANGED <<row, job, ex, faults>>

\* Jobs.Cancel.
AbortCancel(a) ==
  LET r == ab[a].run IN
  /\ ab[a].pc = "cancel"
  /\ ex' = IF Cancellable(r) THEN CancelExecution(r, job[r].cancel) ELSE ex
  /\ ab' = [ab EXCEPT ![a] = [@ EXCEPT !.pc = "read",
                                        !.cancelled = Cancellable(r)]]
  /\ AbortUnchanged /\ UNCHANGED <<row, job, faults>>

\* (Mutant: the abort of a running row is reported although nothing was
\* cancelled.)
MutAbortRead(a) ==
  LET st == row[ab[a].run] IN
  /\ ab[a].pc = "read"
  /\ CASE st = "approval_required" -> AbortTo(a, "reopen")
       [] st = "queued"            -> AbortTo(a, "abortQueued")
       [] OTHER                    -> Return(a, TRUE)
  /\ AbortUnchanged /\ UNCHANGED <<row, job, ex, faults>>

\* GetRunnerRun and the switch on the status it read.
AbortRead(a) ==
  LET st == row[ab[a].run] IN
  /\ ab[a].pc = "read"
  /\ \/ /\ CASE st = "approval_required" -> AbortTo(a, "reopen")
             [] st = "queued"            -> AbortTo(a, "abortQueued")
             [] st \in {"running", "none"} -> Return(a, ab[a].cancelled)
             [] OTHER                    -> Return(a, TRUE)
        /\ UNCHANGED faults
     \/ /\ faults < MaxFaults
        /\ faults' = faults + 1
        /\ Return(a, FALSE)
  /\ AbortUnchanged /\ UNCHANGED <<row, job, ex>>

AbortReopen(a) ==
  /\ ab[a].pc = "reopen"
  /\ job' = [job EXCEPT ![ab[a].run] = JobReopen(@)]
  /\ AbortTo(a, "finalize")
  /\ AbortUnchanged /\ UNCHANGED <<row, ex, faults>>

\* finalizeRun(aborted): Abort reports success whether or not it applied.
AbortFinalize(a) ==
  LET r == ab[a].run IN
  /\ ab[a].pc = "finalize"
  /\ \/ /\ row[r] \in OpenRows
        /\ row' = [row EXCEPT ![r] = "aborted"]
        /\ AbortTo(a, "publish")
        /\ UNCHANGED faults
     \/ /\ row[r] \notin OpenRows
        /\ Return(a, TRUE)
        /\ UNCHANGED <<row, faults>>
     \/ /\ faults < MaxFaults
        /\ faults' = faults + 1
        /\ Return(a, TRUE)
        /\ UNCHANGED row
  /\ AbortUnchanged /\ UNCHANGED <<job, ex>>

\* (Mutant: the registry is told, the row is not written.)
MutAbortQueued(a) ==
  /\ ab[a].pc = "abortQueued"
  /\ AbortTo(a, "queuedPublish")
  /\ AbortUnchanged /\ UNCHANGED <<row, job, ex, faults>>

\* AbortQueuedRunnerRun is conditional on a queued row.
AbortQueued(a) ==
  LET r == ab[a].run IN
  /\ ab[a].pc = "abortQueued"
  /\ \/ /\ row[r] = "queued"
        /\ row' = [row EXCEPT ![r] = "aborted"]
        /\ AbortTo(a, "queuedPublish")
        /\ UNCHANGED faults
     \/ /\ row[r] # "queued"
        /\ Return(a, FALSE)
        /\ UNCHANGED <<row, faults>>
     \/ /\ faults < MaxFaults
        /\ faults' = faults + 1
        /\ Return(a, FALSE)
        /\ UNCHANGED row
  /\ AbortUnchanged /\ UNCHANGED <<job, ex>>

\* Jobs.Complete(aborted), after either of the two.
AbortPublish(a) ==
  LET r == ab[a].run IN
  /\ ab[a].pc \in {"publish", "queuedPublish"}
  /\ job' = [job EXCEPT ![r] = JobPublish(@, "aborted")]
  /\ IF Accepts(job[r])
     THEN AbortTo(a, IF ab[a].pc = "publish" THEN "mark" ELSE "queuedMark")
     ELSE Return(a, TRUE)
  /\ AbortUnchanged /\ UNCHANGED <<row, ex, faults>>

AbortMark(a) ==
  /\ ab[a].pc \in {"mark", "queuedMark"}
  /\ job' = [job EXCEPT ![ab[a].run] = JobMarkTerminal(@, "aborted")]
  /\ Return(a, TRUE)
  /\ AbortUnchanged /\ UNCHANGED <<row, ex, faults>>

-----------------------------------------------------------------------------
(* ChatManager.resumeTurnAfterNativeApproval, which ends in                  *)
(* Manager.ResumeNativeRunAfterApproval.                                     *)

ResumeUnchanged == UNCHANGED <<requestedAt, clock, enq, worker, pauses, notify,
                               mgr, todo, crashes>>

ResumeTo(p, pc) == re' = [re EXCEPT ![p] = [@ EXCEPT !.pc = pc]]

\* The resumption failed: its goroutine calls Manager.Abort.
ResumeFails(p, r) ==
  /\ ResumeTo(p, "done")
  /\ ab' = [ab EXCEPT ![p] = [@ EXCEPT !.pc = "cancelCont", !.run = r]]

Resumed(r) == {p \in Resumers : re[p].pc # "idle" /\ re[p].run = r}

\* A turn whose job showed approval_required is approved. The approval broker
\* lets each request be approved once.
ResumeCall(p, r) ==
  /\ Up
  /\ re[p].pc = "idle"
  /\ job[r].present /\ job[r].status = "approval_required"
  /\ Cardinality(Resumed(r)) < pauses[r]
  /\ re' = [re EXCEPT ![p] = [pc |-> "check", run |-> r]]
  /\ ResumeUnchanged /\ UNCHANGED <<row, job, ex, ab, faults>>

\* A row that is not open any more, or cannot be read, ends the resumption.
ResumeCheck(p) ==
  /\ re[p].pc = "check"
  /\ \/ /\ ResumeTo(p, IF row[re[p].run] \in OpenRows THEN "reopen" ELSE "done")
        /\ UNCHANGED faults
     \/ /\ faults < MaxFaults
        /\ faults' = faults + 1
        /\ ResumeTo(p, "done")
  /\ ResumeUnchanged /\ UNCHANGED <<row, job, ex, ab>>

ResumeReopen(p) ==
  /\ re[p].pc = "reopen"
  /\ job' = [job EXCEPT ![re[p].run] = JobReopen(@)]
  /\ ResumeTo(p, "publish")
  /\ ResumeUnchanged /\ UNCHANGED <<row, ex, ab, faults>>

\* "resumed" is published; then the turn and its session are read again, and
\* a failure of that ends the resumption with nothing undone.
ResumePublish(p) ==
  /\ re[p].pc = "publish"
  /\ job' = [job EXCEPT ![re[p].run] = JobPublish(@, "running")]
  /\ \/ /\ ResumeTo(p, "begin")
        /\ UNCHANGED faults
     \/ /\ faults < MaxFaults
        /\ faults' = faults + 1
        /\ ResumeTo(p, "done")
  /\ ResumeUnchanged /\ UNCHANGED <<row, ex, ab>>

\* A continuation that is over, of a resumption that has not returned yet.
Unreturned(r) == {p \in Resumers : /\ re[p].pc = "cont" /\ re[p].run = r
                                    /\ ex["cont"][r].pc = "off"}

\* The continuation is registered under m.mu, unless the manager is stopping
\* or the job has one already, or it cannot be prepared (no runtime, or no
\* environment). Returning is a step nobody sees, so an earlier resumption
\* returns first.
ResumeBegin(p) ==
  LET r == re[p].run IN
  /\ re[p].pc = "begin"
  /\ Unreturned(r) = {}
  /\ \/ /\ mgr = "stopping" \/ ex["cont"][r].pc # "off"
        /\ ResumeFails(p, r)
        /\ UNCHANGED <<ex, faults>>
     \/ /\ faults < MaxFaults
        /\ faults' = faults + 1
        /\ ResumeFails(p, r)
        /\ UNCHANGED ex
     \/ /\ mgr # "stopping" /\ ex["cont"][r].pc = "off"
        /\ ExecTo("cont", r, [pc |-> "resume", ctx |-> "live",
                              gen |-> pauses[r] + 1, st |-> "none"])
        /\ ResumeTo(p, "cont")
        /\ UNCHANGED <<ab, faults>>
  /\ ResumeUnchanged /\ UNCHANGED <<row, job>>

\* (Mutant: a refused continuation is not unregistered.)
MutResumeRow(p) ==
  LET r == re[p].run IN
  /\ re[p].pc = "cont"
  /\ ex["cont"][r].pc = "resume"
  /\ IF row[r] \in OpenRows /\ ex["cont"][r].ctx = "live"
     THEN /\ row' = [row EXCEPT ![r] = "running"]
          /\ Goto("cont", r, "attach")
          /\ UNCHANGED <<re, ab>>
     ELSE /\ ResumeFails(p, r)
          /\ UNCHANGED <<row, ex>>
  /\ ResumeUnchanged /\ UNCHANGED <<job, faults>>

\* ResumeRunnerRunAfterApproval: a paused row runs again, a running row is
\* accepted, anything else (or a cancelled context) ends the continuation.
ResumeRow(p) ==
  LET r == re[p].run IN
  /\ re[p].pc = "cont"
  /\ ex["cont"][r].pc = "resume"
  /\ \/ /\ row[r] \in OpenRows /\ ex["cont"][r].ctx = "live"
        /\ row' = [row EXCEPT ![r] = "running"]
        /\ Goto("cont", r, "attach")
        /\ UNCHANGED <<re, ab, faults>>
     \/ /\ ~(row[r] \in OpenRows /\ ex["cont"][r].ctx = "live")
        /\ Goto("cont", r, "off")
        /\ ResumeFails(p, r)
        /\ UNCHANGED <<row, faults>>
     \/ /\ faults < MaxFaults
        /\ faults' = faults + 1
        /\ Goto("cont", r, "off")
        /\ ResumeFails(p, r)
        /\ UNCHANGED row
  /\ ResumeUnchanged /\ UNCHANGED job

\* The continuation returned; a continuation that ended with an error makes
\* its goroutine abort the run.
ResumeReturn(p) ==
  LET r == re[p].run IN
  /\ re[p].pc = "cont"
  /\ ex["cont"][r].pc = "off"
  /\ \/ ResumeTo(p, "done") /\ UNCHANGED ab
     \/ ex["cont"][r].st \in FinishedRows \ {"succeeded"} /\ ResumeFails(p, r)
  /\ ResumeUnchanged /\ UNCHANGED <<row, job, ex, faults>>

-----------------------------------------------------------------------------
(* Stop, crash and Start.                                                    *)

\* Stop cancels the manager's context and the registered continuations; the
\* process exits afterwards (a crash, as far as the rows are concerned).
Stop ==
  /\ mgr = "started"
  /\ crashes < MaxCrashes
  /\ mgr' = "stopping"
  /\ ex' = [s \in Slots |-> [r \in Runs |-> CancelContext(ex[s][r], ex[s][r].gen)]]
  /\ UNCHANGED <<row, requestedAt, clock, job, enq, worker, ab, re, pauses,
                 notify, todo, crashes, faults>>

\* Memory is lost, the rows stay. Calls in progress never return.
Crash ==
  /\ Up
  /\ crashes < MaxCrashes
  /\ crashes' = crashes + 1
  /\ mgr' = "down"
  /\ job' = [r \in Runs |-> NoJob]
  /\ enq' = [r \in Runs |-> IF enq[r] = "idle" THEN "idle" ELSE "done"]
  /\ worker' = [w \in Workers |-> IdleWorker]
  /\ ex' = [s \in Slots |-> [r \in Runs |-> NoExec]]
  /\ ab' = [a \in AbortCalls |-> IF ab[a].pc \in {"idle", "returned"} THEN ab[a]
                                 ELSE [ab[a] EXCEPT !.pc = "returned",
                                                    !.ok = FALSE]]
  /\ re' = [p \in Resumers |-> IF re[p].pc = "idle" THEN re[p]
                               ELSE [re[p] EXCEPT !.pc = "done"]]
  /\ notify' = 0
  /\ todo' = NothingToDo
  /\ UNCHANGED <<row, requestedAt, clock, pauses, faults>>

\* The end of an orderly Stop.
Exit == mgr = "stopping" /\ Crash

\* (Mutant: every unfinished row counts as interrupted.)
MutStart ==
  /\ mgr = "down"
  /\ mgr' = "starting"
  /\ todo' = [rows |-> {r \in Runs : row[r] \in OpenRows \cup {"queued"}},
             queued |-> Cardinality(Queued)]
  /\ UNCHANGED <<row, requestedAt, clock, job, enq, worker, ex, ab, re, pauses,
                 notify, crashes, faults>>

\* (Mutant: paused rows are listed, running ones are not.)
MutStartPaused ==
  /\ mgr = "down"
  /\ mgr' = "starting"
  /\ todo' = [rows |-> {r \in Runs : row[r] = "approval_required"},
             queued |-> Cardinality(Queued)]
  /\ UNCHANGED <<row, requestedAt, clock, job, enq, worker, ex, ab, re, pauses,
                 notify, crashes, faults>>

\* Start, under m.mu: list the interrupted rows, start the workers.
Start ==
  /\ mgr = "down"
  /\ mgr' = "starting"
  /\ todo' = [rows |-> {r \in Runs : row[r] \in OpenRows},
             queued |-> Cardinality(Queued)]
  /\ UNCHANGED <<row, requestedAt, clock, job, enq, worker, ex, ab, re, pauses,
                 notify, crashes, faults>>

\* reconcileInterruptedRun. The new process has no registry entry for a row of
\* the old one, so its Publish and Complete find nothing.
Reconcile(r) ==
  /\ mgr = "starting"
  /\ r \in todo.rows
  /\ todo' = [todo EXCEPT !.rows = @ \ {r}]
  /\ \/ /\ row[r] \in OpenRows
        /\ row' = [row EXCEPT ![r] = "aborted"]
        /\ job' = [job EXCEPT ![r] = JobMarkTerminal(@, "aborted")]
        /\ UNCHANGED faults
     \/ /\ row[r] \notin OpenRows
        /\ UNCHANGED <<row, job, faults>>
     \/ /\ faults < MaxFaults
        /\ faults' = faults + 1
        /\ UNCHANGED <<row, job>>
  /\ UNCHANGED <<requestedAt, clock, enq, worker, ex, ab, re, pauses, notify,
                 mgr, crashes>>

\* Start's last step: one token per queued row it had listed.
StartSignal ==
  /\ mgr = "starting"
  /\ todo.rows = {}
  /\ mgr' = "started"
  /\ notify' = Lesser(notify + todo.queued, MaxConcurrent)
  /\ todo' = NothingToDo
  /\ UNCHANGED <<row, requestedAt, clock, job, enq, worker, ex, ab, re, pauses,
                 crashes, faults>>

-----------------------------------------------------------------------------
Execution(s, r) ==
  \/ ExecAttach(s, r) \/ ExecStarted(s, r)
  \/ ExecAsksApproval(s, r) \/ ExecEnds(s, r)
  \/ ExecEmit(s, r) \/ ExecFinalize(s, r) \/ ExecPublish(s, r) \/ ExecMark(s, r)
  \/ PauseRow(s, r) \/ PauseEmit(s, r) \/ PausePublish(s, r) \/ PauseMark(s, r)

AbortStep(a) ==
  \/ AppCancel(a) \/ AbortCancelCont(a) \/ AbortWaitCont(a) \/ AbortCancel(a)
  \/ AbortRead(a) \/ AbortReopen(a) \/ AbortFinalize(a) \/ AbortQueued(a)
  \/ AbortPublish(a) \/ AbortMark(a)

ResumeStep(p) ==
  \/ ResumeCheck(p) \/ ResumeReopen(p) \/ ResumePublish(p) \/ ResumeBegin(p)
  \/ ResumeRow(p) \/ ResumeReturn(p)

EnqueueStep(r) ==
  \/ EnqueueInsert(r) \/ EnqueueRegister(r) \/ EnqueuePublish(r)
  \/ EnqueueSignal(r)

WorkerStep(w) ==
  \/ \E r \in Runs : Claim(w, r)
  \/ ClaimNothing(w) \/ WorkerWake(w) \/ WorkerReturn(w)

Next ==
  \/ \E r \in Runs : EnqueueStamp(r) \/ EnqueueStep(r)
  \/ \E w \in Workers : WorkerStep(w)
  \/ \E r \in Runs : \/ \E s \in Slots : Execution(s, r)
                     \/ ExecDeadline(r) \/ ExecBreaks(r)
  \/ \E a \in AbortCalls : \/ \E r \in Runs : AbortCall(a, r)
                           \/ AbortStep(a)
  \/ \E p \in Resumers : \/ \E r \in Runs : ResumeCall(p, r)
                         \/ ResumeStep(p)
  \/ RecoveryTick \/ Stop \/ Crash \/ Start \/ StartSignal
  \/ \E r \in Runs : Reconcile(r)

\* Goroutines keep running, the agent eventually ends or asks, a service that
\* stops exits, and one that went down is started again.
Progress ==
  /\ \A r \in Runs : WF_vars(EnqueueStep(r)) /\ WF_vars(Reconcile(r))
  /\ \A w \in Workers : WF_vars(WorkerStep(w))
  /\ \A s \in Slots, r \in Runs : WF_vars(Execution(s, r))
  /\ \A a \in AbortCalls : WF_vars(AbortStep(a))
  /\ \A p \in Resumers : WF_vars(ResumeStep(p))
  /\ WF_vars(Exit) /\ WF_vars(Start) /\ WF_vars(StartSignal)

\* The recovery ticker ticks as well.
Spec == Init /\ [][Next]_vars /\ Progress /\ WF_vars(RecoveryTick)

\* A manager whose ticker may be slow for ever.
SpecNoTick == Init /\ [][Next]_vars /\ Progress

-----------------------------------------------------------------------------
(* Properties.                                                               *)

\* The types of the rows, the registry's view and the goroutines' states.
TypeOK ==
  /\ row \in [Runs -> RowStatuses]
  /\ requestedAt \in [Runs -> Nat]
  /\ clock \in Nat
  /\ job \in [Runs -> JobRecs]
  /\ enq \in [Runs -> EnqPcs]
  /\ worker \in [Workers -> WorkerRecs]
  /\ ex \in [Slots -> [Runs -> ExecRecs]]
  /\ ab \in [AbortCalls -> AbortRecs]
  /\ re \in [Resumers -> ResumeRecs]
  /\ pauses \in [Runs -> Nat]
  /\ notify \in Nat
  /\ mgr \in {"down", "starting", "started", "stopping"}
  /\ todo \in StartWork
  /\ crashes \in Nat
  /\ faults \in Nat

\* The rows follow the life cycle of RunLifecycle: the conditional updates of
\* runner_run_store.go order every race of workers, continuations, aborts and
\* reconciliation, and a finished row stays as it is.
Life == INSTANCE RunLifecycle WITH Runs <- Runs, row <- row
Lifecycle == Life!Spec

AgentPcs == {"attach", "started", "running"}

\* A run never has two agents at work: neither two workers on one row, nor a
\* worker together with a continuation, whatever approvals and aborts do.
OneExecution ==
  \A r \in Runs :
    /\ ~(ex["worker"][r].pc \in AgentPcs /\ ex["cont"][r].pc \in AgentPcs)
    /\ \A v, w \in Workers :
         worker[v].pc = "exec" /\ worker[w].pc = "exec"
           /\ worker[v].run = r /\ worker[w].run = r => v = w

\* A row that says "running" is somebody's business: an execution that will
\* still decide about it, or Start's reconciliation after a crash. Only a
\* failed SQL statement can leave it without an owner.
RunningRowOwned ==
  \A r \in Runs :
    row[r] = "running" /\ Up /\ faults = 0
      => \/ \E s \in Slots :
              ex[s][r].pc \in AgentPcs \cup {"pause", "emit", "finalize"}
         \/ r \in todo.rows

\* A job that the registry shows as finished has a finished row with the same
\* outcome: Complete and Fail come after the conditional FinalizeRunnerRun,
\* and late writers of the job cannot change what it says.
FinishedJobMatchesRow ==
  \A r \in Runs :
    job[r].terminal /\ job[r].status # "approval_required"
      => row[r] \in FinishedRows /\ job[r].status = JobStatusOf(row[r])

\* Start's reconciliation works from lists it read before it started the
\* workers. It never aborts a run that this process executes.
ReconcileOnlyOrphans ==
  \A r \in todo.rows :
    row[r] \in OpenRows => \A s \in Slots : ex[s][r].pc = "off"

\* Every queued row is eventually claimed or aborted: no token that matters is
\* lost between Enqueue, the workers, a crash and a failed claim.
QueuedIsServed == \A r \in Runs : (row[r] = "queued") ~> (row[r] # "queued")

\* Every execution comes to an end: a running row is finished or paused.
RunningEnds ==
  \A r \in Runs : (row[r] = "running") ~> (row[r] # "running")

\* Abort waits for a continuation it cancelled, and a failed continuation
\* calls Abort: no such chain of waits blocks for ever.
AbortReturns ==
  \A a \in AbortCalls :
    (ab[a].pc \notin {"idle", "returned"}) ~> (ab[a].pc = "returned")

Acked(r) == \E a \in Aborters \cup AppAborters :
              ab[a].pc = "returned" /\ ab[a].ok /\ ab[a].run = r

Settled(r) ==
  /\ \A s \in Slots : ex[s][r].pc = "off"
  /\ \A a \in AbortCalls : ab[a].run = r => ab[a].pc \in {"idle", "returned"}
  /\ \A p \in Resumers : re[p].run = r => re[p].pc \in {"idle", "done"}

\* An abort that was acknowledged takes effect: once nothing moves the run any
\* more, its row is finished.
AckedAbortSettles ==
  \A r \in Runs : Acked(r) /\ Settled(r) => row[r] \in FinishedRows

\* The same for a run that has not paused for approval: an acknowledged abort of
\* it ends in a finished row, also over a crash between the answer of Abort and
\* the end of the execution, once Start has reconciled the row. Only a failed
\* SQL statement can leave the row running.
AbortSettles ==
  \A r \in Runs :
    /\ Acked(r) /\ Settled(r) /\ pauses[r] = 0
    /\ Up /\ r \notin todo.rows /\ faults = 0
    => row[r] \in FinishedRows

\* After an acknowledged abort no agent works on the run with a context that
\* nobody cancelled, in this process or after a restart, unless the run paused
\* for approval meanwhile: Abort acts on what it found at different moments,
\* while workers claim, attach their cancel functions and write the row.
AbortStopsExecution ==
  \A r \in Runs, s \in Slots :
    Acked(r) /\ pauses[r] = 0 /\ ex[s][r].pc \in AgentPcs
      => ex[s][r].ctx # "live"
=============================================================================
