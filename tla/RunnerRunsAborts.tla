-------------------------- MODULE RunnerRunsAborts --------------------------
(***************************************************************************)
(* What an acknowledged abort means, for runs that have not paused for     *)
(* approval: the invariant of the aborts, on top of that of the rows, and  *)
(* the theorems that follow from it.                                       *)
(***************************************************************************)
EXTENDS RunnerRunsSafety

-----------------------------------------------------------------------------
(* The invariant.                                                            *)

\* The run was claimed, and the worker's agent, if it is still at work, has a
\* context that is done.
Stopped(r) ==
  /\ row[r] \notin {"none", "queued"}
  /\ ex["worker"][r].pc \in AgentPcs => ex["worker"][r].ctx # "live"

\* A worker's execution is the first one of its run.
FirstExecInv ==
  \A r \in Runs : ex["worker"][r].pc # "off" => ex["worker"][r].gen = 1

\* A cancel function was attached after the claim; before the first pause it is
\* the one of the worker's execution.
CancelInv ==
  \A r \in Runs : job[r].cancel # 0 =>
    /\ row[r] \notin {"none", "queued"}
    /\ pauses[r] = 0 => job[r].cancel = 1

\* The call has cancelled something, or has answered that the run is aborted.
Took(a) == ab[a].cancelled = TRUE \/ (ab[a].pc = "returned" /\ ab[a].ok = TRUE)

\* What such a call found stays true until the run pauses.
TookInv ==
  \A a \in AbortCalls :
    Took(a) => pauses[ab[a].run] > 0 \/ Stopped(ab[a].run)

\* A call that has not begun has done nothing.
IdleInv == \A a \in AbortCalls : ab[a].pc = "idle" => ab[a].cancelled = FALSE

AInv == FirstExecInv /\ CancelInv /\ TookInv /\ IdleInv

-----------------------------------------------------------------------------
(* What a step does to the executions.                                       *)

\* The execution keeps its context and its number; the others are as before.
ContextKept(s, r) ==
  /\ ex'[s][r].ctx = ex[s][r].ctx
  /\ ex'[s][r].gen = ex[s][r].gen
  /\ \A t \in Slots, q \in Runs : t # s \/ q # r => ex'[t][q] = ex[t][q]

\* Goto changes the pc only.
LEMMA GotoKeepsContext ==
  ASSUME ExType, NEW s \in Slots, NEW r \in Runs, NEW pc \in ExecPcs,
         Goto(s, r, pc)
  PROVE  ContextKept(s, r) /\ ex'[s][r].pc = pc
  <1> DEFINE e == [ex[s][r] EXCEPT !.pc = pc]
  <1>1. ex[s][r] \in ExecRecs
    BY DEF ExType
  <1>2. /\ e \in ExecRecs /\ e.pc = pc
        /\ e.ctx = ex[s][r].ctx /\ e.gen = ex[s][r].gen
    BY <1>1 DEF ExecRecs
  <1> HIDE DEF e
  <1>3. ExecTo(s, r, e)
    BY DEF Goto, e
  <1> QED
    BY <1>2, <1>3, ExecToEffect DEF ContextKept

\* Decide changes the pc and the status only.
LEMMA DecideKeepsContext ==
  ASSUME ExType, NEW s \in Slots, NEW r \in Runs, NEW pc \in ExecPcs,
         NEW st \in FinishedRows, Decide(s, r, pc, st)
  PROVE  ContextKept(s, r) /\ ex'[s][r].pc = pc
  <1> DEFINE e == [ex[s][r] EXCEPT !.pc = pc, !.st = st]
  <1>1. ex[s][r] \in ExecRecs
    BY DEF ExType
  <1>2. /\ e \in ExecRecs /\ e.pc = pc
        /\ e.ctx = ex[s][r].ctx /\ e.gen = ex[s][r].gen
    BY <1>1 DEF ExecRecs
  <1> HIDE DEF e
  <1>3. ExecTo(s, r, e)
    BY DEF Decide, e
  <1> QED
    BY <1>2, <1>3, ExecToEffect DEF ContextKept

\* A cancelled context is never live again, and execution number g is cancelled.
LEMMA CancelContextStops ==
  ASSUME NEW e \in ExecRecs, NEW g
  PROVE  /\ CancelContext(e, g).pc = e.pc
         /\ CancelContext(e, g).gen = e.gen
         /\ CancelContext(e, g).ctx = "live" => e.ctx = "live"
         /\ e.pc # "off" /\ e.gen = g => CancelContext(e, g).ctx # "live"
  BY DEF CancelContext, ExecRecs, Contexts

\* Executions stay where they are; their contexts may be cancelled.
OnlyCancels ==
  \A s \in Slots, q \in Runs :
    /\ ex'[s][q].pc = ex[s][q].pc
    /\ ex'[s][q].gen = ex[s][q].gen
    /\ ex'[s][q].ctx = "live" => ex[s][q].ctx = "live"

\* Registry.Cancel cancels the execution whose function is attached.
LEMMA CancelExecutionStops ==
  ASSUME ExType, NEW r \in Runs, NEW g, ex' = CancelExecution(r, g)
  PROVE  /\ OnlyCancels
         /\ \A s \in Slots : ex[s][r].pc # "off" /\ ex[s][r].gen = g
                               => ex'[s][r].ctx # "live"
  <1>1. \A s \in Slots, q \in Runs : ex[s][q] \in ExecRecs
    BY DEF ExType
  <1>2. \A s \in Slots : ex'[s] = [ex[s] EXCEPT ![r] = CancelContext(@, g)]
    BY DEF CancelExecution
  <1>3. \A s \in Slots, q \in Runs :
          ex'[s][q] = IF q = r THEN CancelContext(ex[s][q], g) ELSE ex[s][q]
    <2> SUFFICES ASSUME NEW s \in Slots, NEW q \in Runs
                 PROVE  ex'[s][q] = IF q = r THEN CancelContext(ex[s][q], g)
                                    ELSE ex[s][q]
      OBVIOUS
    <2>1. ex[s] \in [Runs -> ExecRecs]
      BY DEF ExType
    <2>2. ex'[s] = [ex[s] EXCEPT ![r] = CancelContext(ex[s][r], g)]
      BY <1>2
    <2> QED
      BY <2>1, <2>2
  <1> QED
    BY <1>1, <1>3, CancelContextStops DEF OnlyCancels

\* A worker's execution of run r is over, or is the one that a claim of the
\* queued row begins, or is the same as before, with no context revived.
WorkerGoesOn(r) ==
  \/ ex'["worker"][r].pc = "off"
  \/ row[r] = "queued" /\ ex'["worker"][r].gen = 1
  \/ /\ ex["worker"][r].pc # "off"
     /\ ex'["worker"][r].gen = ex["worker"][r].gen
     /\ ex'["worker"][r].pc \in AgentPcs =>
          /\ ex["worker"][r].pc \in AgentPcs
          /\ ex'["worker"][r].ctx = "live" => ex["worker"][r].ctx = "live"

\* An execution that is not touched goes on.
LEMMA UntouchedGoesOn ==
  ASSUME NEW r \in Runs, ex'["worker"][r] = ex["worker"][r]
  PROVE  WorkerGoesOn(r)
  BY DEF WorkerGoesOn

\* Cancelling revives nothing.
LEMMA CancelsGoOn ==
  ASSUME OnlyCancels
  PROVE  \A r \in Runs : WorkerGoesOn(r)
  BY DEF OnlyCancels, WorkerGoesOn, Slots

\* An execution that moves on, with its context, goes on.
LEMMA KeptGoesOn ==
  ASSUME NEW s \in Slots, NEW r \in Runs, ContextKept(s, r),
         ex[s][r].pc # "off",
         ex'[s][r].pc \in AgentPcs => ex[s][r].pc \in AgentPcs
  PROVE  \A q \in Runs : WorkerGoesOn(q)
  <1> SUFFICES ASSUME NEW q \in Runs PROVE WorkerGoesOn(q)
    OBVIOUS
  <1>1. CASE s = "worker" /\ q = r
    BY <1>1 DEF ContextKept, WorkerGoesOn
  <1>2. CASE ~(s = "worker" /\ q = r)
    BY <1>2, UntouchedGoesOn DEF ContextKept, Slots
  <1> QED
    BY <1>1, <1>2
\* The steps of an execution keep its context; those of a worker's execution
\* never lead back to the agent.
LEMMA ExecutionGoesOn ==
  ASSUME IInv, NEW s \in Slots, NEW r \in Runs, Execution(s, r)
  PROVE  \A q \in Runs : WorkerGoesOn(q)
  <1>0. ExType /\ ex[s][r] \in ExecRecs
    BY DEF IInv, TypeOK, ExType
  <1>1. ex[s][r].ctx \in Contexts
    BY <1>0 DEF ExecRecs
  <1>2. {"running", "started", "pause", "emit", "finalize", "publish", "mark",
         "off", "pauseEmit", "pausePublish", "pauseMark"} \subseteq ExecPcs
    BY DEF ExecPcs, LivePcs, PausePcs, FinishPcs
  <1>3. CASE ExecAttach(s, r) \/ ExecStarted(s, r)
    <2>1. ContextKept(s, r) /\ ex[s][r].pc \in {"attach", "started"}
      BY <1>0, <1>2, <1>3, GotoKeepsContext DEF ExecAttach, ExecStarted
    <2> QED
      BY <2>1, KeptGoesOn DEF AgentPcs
  <1>4. CASE ExecAsksApproval(s, r) \/ ExecEnds(s, r)
    <2>1. "aborted" \in FinishedRows /\ {"succeeded", "failed"} \subseteq FinishedRows
      BY DEF FinishedRows
    <2>2. CASE \E pc \in ExecPcs : Goto(s, r, pc)
      <3>1. ContextKept(s, r) /\ ex[s][r].pc = "running"
        BY <1>0, <1>4, <2>2, GotoKeepsContext DEF ExecAsksApproval, ExecEnds
      <3> QED
        BY <3>1, KeptGoesOn DEF AgentPcs
    <2>3. CASE \E pc \in ExecPcs, st \in FinishedRows : Decide(s, r, pc, st)
      <3>1. ContextKept(s, r) /\ ex[s][r].pc = "running"
        BY <1>0, <1>4, <2>3, DecideKeepsContext DEF ExecAsksApproval, ExecEnds
      <3> QED
        BY <3>1, KeptGoesOn DEF AgentPcs
    <2> QED
      BY <1>1, <1>2, <1>4, <2>1, <2>2, <2>3, OutcomeType
      DEF ExecAsksApproval, ExecEnds
  <1>5. CASE \/ ExecEmit(s, r) \/ ExecFinalize(s, r) \/ ExecPublish(s, r)
             \/ ExecMark(s, r) \/ PauseRow(s, r) \/ PauseEmit(s, r)
             \/ PausePublish(s, r) \/ PauseMark(s, r)
    <2>1. ex[s][r].pc # "off"
      BY <1>5 DEF ExecEmit, ExecFinalize, ExecPublish, ExecMark, PauseRow,
         PauseEmit, PausePublish, PauseMark
    <2>2. PICK pc \in {"finalize", "publish", "mark", "off", "pauseEmit",
                       "pausePublish", "pauseMark"} : Goto(s, r, pc)
      BY <1>5 DEF ExecEmit, ExecFinalize, ExecPublish, ExecMark, PauseRow,
         PauseEmit, PausePublish, PauseMark
    <2>3. ContextKept(s, r) /\ ex'[s][r].pc = pc
      BY <1>0, <1>2, <2>2, GotoKeepsContext
    <2> QED
      BY <2>1, <2>2, <2>3, KeptGoesOn DEF AgentPcs
  <1> QED
    BY <1>3, <1>4, <1>5 DEF Execution

\* The deadline and a panic revive no context either.
LEMMA ExecEventGoesOn ==
  ASSUME IInv, NEW r \in Runs, ExecDeadline(r) \/ ExecBreaks(r)
  PROVE  \A q \in Runs : WorkerGoesOn(q)
  <1>0. ExType /\ ex["worker"][r] \in ExecRecs /\ "worker" \in Slots
    BY DEF IInv, TypeOK, ExType, Slots
  <1>1. CASE ExecDeadline(r)
    <2> DEFINE e == [ex["worker"][r] EXCEPT !.ctx = "deadline"]
    <2>1. /\ e \in ExecRecs /\ e.pc = ex["worker"][r].pc
          /\ e.gen = ex["worker"][r].gen /\ e.ctx # "live"
      BY <1>0 DEF ExecRecs, Contexts
    <2>2. ExecTo("worker", r, e) /\ ex["worker"][r].pc # "off"
      BY <1>1 DEF ExecDeadline, LivePcs
    <2> HIDE DEF e
    <2>3. /\ ex'["worker"][r] = e
          /\ \A q \in Runs : q # r => ex'["worker"][q] = ex["worker"][q]
      BY <1>0, <2>1, <2>2, ExecToEffect
    <2>4. WorkerGoesOn(r)
      BY <2>1, <2>2, <2>3 DEF WorkerGoesOn
    <2> QED
      BY <2>3, <2>4, UntouchedGoesOn
  <1>2. CASE ExecBreaks(r)
    <2>1. "finalize" \in ExecPcs /\ "failed" \in FinishedRows
      BY DEF ExecPcs, FinishPcs, FinishedRows
    <2>2. /\ ContextKept("worker", r) /\ ex["worker"][r].pc = "running"
          /\ ex'["worker"][r].pc = "finalize"
      BY <1>0, <1>2, <2>1, DecideKeepsContext DEF ExecBreaks
    <2> QED
      BY <1>0, <2>2, KeptGoesOn DEF AgentPcs
  <1> QED
    BY <1>1, <1>2

\* Only a claim begins an execution of a worker.
LEMMA ClaimGoesOn ==
  ASSUME IInv, NEW w \in Workers, WorkerStep(w)
  PROVE  \A q \in Runs : WorkerGoesOn(q)
  <1>1. ASSUME NEW r \in Runs, Claim(w, r) PROVE \A q \in Runs : WorkerGoesOn(q)
    <2> DEFINE e == [pc |-> "attach", ctx |-> "live", gen |-> 1, st |-> "none"]
    <2>1. ExType /\ "worker" \in Slots
      BY DEF IInv, TypeOK, ExType, Slots
    <2>2. e \in ExecRecs /\ e.gen = 1
      BY DEF ExecRecs, ExecPcs, LivePcs, Contexts
    <2>3. ExecTo("worker", r, e) /\ row[r] = "queued"
      BY <1>1 DEF Claim
    <2> HIDE DEF e
    <2>4. /\ ex'["worker"][r] = e
          /\ \A q \in Runs : q # r => ex'["worker"][q] = ex["worker"][q]
      BY <2>1, <2>2, <2>3, ExecToEffect
    <2>5. WorkerGoesOn(r)
      BY <2>2, <2>3, <2>4 DEF WorkerGoesOn
    <2> QED
      BY <2>4, <2>5, UntouchedGoesOn
  <1>2. CASE ex' = ex
    BY <1>2, UntouchedGoesOn
  <1> QED
    BY <1>1, <1>2 DEF WorkerStep, ClaimNothing, WorkerWake, WorkerReturn
\* Abort and AbortJob only cancel contexts.
LEMMA AbortGoesOn ==
  ASSUME IInv, NEW a \in AbortCalls,
         (\E r \in Runs : AbortCall(a, r)) \/ AbortStep(a)
  PROVE  \A q \in Runs : WorkerGoesOn(q)
  <1>0. ExType /\ ab[a].run \in Runs /\ "cont" \in Slots
    BY RunsReferred DEF IInv, TypeOK, ExType, Slots
  <1>1. CASE ex' = ex
    BY <1>1, UntouchedGoesOn
  <1>2. CASE \E g : ex' = CancelExecution(ab[a].run, g)
    BY <1>0, <1>2, CancelExecutionStops, CancelsGoOn
  <1>3. CASE AbortCancelCont(a)
    <2> DEFINE q == ab[a].run
               e == CancelContext(ex["cont"][q], ex["cont"][q].gen)
    <2>1. ex["cont"][q] \in ExecRecs
      BY <1>0 DEF ExType
    <2>2. e \in ExecRecs
      BY <2>1, CancelContextEffect
    <2>3. ex' = ex \/ ExecTo("cont", q, e)
      BY <1>3 DEF AbortCancelCont
    <2> HIDE DEF e
    <2>4. \A t \in Runs : ex'["worker"][t] = ex["worker"][t]
      BY <1>0, <2>2, <2>3, ExecToEffect DEF Slots
    <2> QED
      BY <2>4, UntouchedGoesOn
  <1> QED
    BY <1>1, <1>2, <1>3 DEF AbortStep, AbortCall, AppCancel, AbortWaitCont,
       AbortCancel, AbortRead, AbortReopen, AbortFinalize, AbortQueued,
       AbortPublish, AbortMark

\* A resumption leaves the worker's execution alone.
LEMMA ResumeGoesOn ==
  ASSUME IInv, NEW p \in Resumers,
         (\E r \in Runs : ResumeCall(p, r)) \/ ResumeStep(p)
  PROVE  \A q \in Runs : WorkerGoesOn(q)
  <1> DEFINE r == re[p].run
             e == [pc |-> "resume", ctx |-> "live", gen |-> pauses[r] + 1,
                   st |-> "none"]
  <1>0. ExType /\ r \in Runs /\ "cont" \in Slots /\ pauses[r] \in Nat
    BY RunsReferred DEF IInv, TypeOK, ExType, Slots
  <1>1. CASE ex' = ex
    BY <1>1, UntouchedGoesOn
  <1>2. CASE ExecTo("cont", r, e)
    <2>1. e \in ExecRecs
      BY <1>0 DEF ExecRecs, ExecPcs, LivePcs, Contexts
    <2> HIDE DEF e
    <2>2. \A q \in Runs : ex'["worker"][q] = ex["worker"][q]
      BY <1>0, <1>2, <2>1, ExecToEffect DEF Slots
    <2> QED
      BY <2>2, UntouchedGoesOn
  <1>3. CASE Goto("cont", r, "attach") \/ Goto("cont", r, "off")
    <2>1. "attach" \in ExecPcs /\ "off" \in ExecPcs
      BY DEF ExecPcs, LivePcs
    <2>2. \A q \in Runs : ex'["worker"][q] = ex["worker"][q]
      BY <1>0, <1>3, <2>1, GotoEffect DEF Slots
    <2> QED
      BY <2>2, UntouchedGoesOn
  <1> QED
    BY <1>1, <1>2, <1>3 DEF ResumeStep, ResumeCall, ResumeCheck, ResumeReopen,
       ResumePublish, ResumeBegin, ResumeRow, ResumeReturn

\* Every step lets the worker's executions go on, or ends them.
LEMMA StepGoesOn ==
  ASSUME IInv, [Next]_vars
  PROVE  \A q \in Runs : WorkerGoesOn(q)
  <1>1. CASE ex' = ex
    BY <1>1, UntouchedGoesOn
  <1>2. CASE Stop
    <2>1. \A s \in Slots, q \in Runs : ex[s][q] \in ExecRecs
      BY DEF IInv, TypeOK
    <2>2. \A s \in Slots, q \in Runs :
            ex'[s][q] = CancelContext(ex[s][q], ex[s][q].gen)
      BY <1>2 DEF Stop
    <2>3. OnlyCancels
      BY <2>1, <2>2, CancelContextStops DEF OnlyCancels
    <2> QED
      BY <2>3, CancelsGoOn
  <1>3. CASE Crash
    <2>1. \A q \in Runs : ex'["worker"][q].pc = "off"
      BY <1>3 DEF Crash, NoExec, Slots
    <2> QED
      BY <2>1 DEF WorkerGoesOn
  <1>4. ASSUME NEW r \in Runs, EnqueueStamp(r) \/ EnqueueStep(r) PROVE ex' = ex
    BY <1>4 DEF EnqueueStamp, EnqueueStep, EnqueueInsert, EnqueueRegister,
       EnqueuePublish, EnqueueSignal
  <1>5. ASSUME NEW r \in Runs,
               RecoveryTick \/ Start \/ StartSignal \/ Reconcile(r)
        PROVE  ex' = ex
    BY <1>5 DEF RecoveryTick, Start, StartSignal, Reconcile
  <1>6. CASE Next
    <2>1. CASE RecoveryTick \/ Start \/ StartSignal
      BY <1>1, <2>1 DEF RecoveryTick, Start, StartSignal
    <2> QED
      BY <1>1, <1>2, <1>3, <1>4, <1>5, <1>6, <2>1, ClaimGoesOn,
         ExecutionGoesOn, ExecEventGoesOn, AbortGoesOn, ResumeGoesOn DEF Next
  <1> QED
    BY <1>1, <1>6 DEF vars

-----------------------------------------------------------------------------
(* What a step does to the rows, the pauses and the attached functions.      *)

\* No row goes back to before its claim.
LEMMA ClaimedStays ==
  ASSUME IInv, [Next]_vars, NEW r \in Runs, row[r] \notin {"none", "queued"}
  PROVE  row'[r] \notin {"none", "queued"}
  <1>1. row \in [Runs -> RowStatuses]
    BY DEF IInv, TypeOK
  <1>2. CASE row' = row
    BY <1>2
  <1>3. CASE RowMoves
    BY <1>1, <1>3 DEF RowMoves, Life!Enqueue, Life!Claim, Life!AbortQueued,
       Life!AbortPaused, Life!Pause, Life!Resume, Life!Finish, Life!Move,
       FinishedRows
  <1> QED
    BY <1>2, <1>3, RowSteps DEF vars

\* Pauses are counted for good.
LEMMA PausesStay ==
  ASSUME IInv, [Next]_vars, NEW r \in Runs, pauses[r] > 0
  PROVE  pauses'[r] > 0
  <1>1. pauses \in [Runs -> Nat]
    BY DEF IInv, TypeOK
  <1>2. CASE pauses' = pauses
    BY <1>2
  <1>3. ASSUME NEW q \in Runs, pauses' = [pauses EXCEPT ![q] = @ + 1]
        PROVE  pauses'[r] > 0
    BY <1>1, <1>3
  <1>4. ASSUME NEW s \in Slots, NEW q \in Runs, Execution(s, q)
        PROVE  pauses'[r] > 0
    BY <1>2, <1>3, <1>4 DEF Execution, ExecAttach, ExecStarted, ExecAsksApproval,
       ExecEnds, ExecEmit, ExecFinalize, ExecPublish, ExecMark, PauseRow,
       PauseEmit, PausePublish, PauseMark
  <1>5. ASSUME NEW q \in Runs,
               \/ EnqueueStamp(q) \/ EnqueueStep(q) \/ ExecDeadline(q)
               \/ ExecBreaks(q) \/ Reconcile(q)
        PROVE  pauses' = pauses
    BY <1>5 DEF EnqueueStamp, EnqueueStep, EnqueueInsert, EnqueueRegister,
       EnqueuePublish, EnqueueSignal, ExecDeadline, ExecBreaks, Reconcile
  <1>6. ASSUME NEW w \in Workers, WorkerStep(w) PROVE pauses' = pauses
    BY <1>6 DEF WorkerStep, Claim, ClaimNothing, WorkerWake, WorkerReturn
  <1>7. ASSUME NEW a \in AbortCalls,
               (\E q \in Runs : AbortCall(a, q)) \/ AbortStep(a)
        PROVE  pauses' = pauses
    BY <1>7 DEF AbortStep, AbortCall, AppCancel, AbortCancelCont, AbortWaitCont,
       AbortCancel, AbortRead, AbortReopen, AbortFinalize, AbortQueued,
       AbortPublish, AbortMark, AbortUnchanged
  <1>8. ASSUME NEW p \in Resumers,
               (\E q \in Runs : ResumeCall(p, q)) \/ ResumeStep(p)
        PROVE  pauses' = pauses
    BY <1>8 DEF ResumeStep, ResumeCall, ResumeCheck, ResumeReopen,
       ResumePublish, ResumeBegin, ResumeRow, ResumeReturn, ResumeUnchanged
  <1>9. CASE RecoveryTick \/ Stop \/ Crash \/ Start \/ StartSignal
    BY <1>2, <1>9 DEF RecoveryTick, Stop, Crash, Start, StartSignal
  <1>10. CASE Next
    BY <1>2, <1>4, <1>5, <1>6, <1>7, <1>8, <1>9, <1>10 DEF Next
  <1> QED
    BY <1>2, <1>10 DEF vars
\* The function attached for run r is the one of before, or none, or the one an
\* execution attaches just now.
AttachedFrom(r) ==
  \/ job'[r].cancel \in {0, job[r].cancel}
  \/ \E s \in Slots : ex[s][r].pc = "attach" /\ job'[r].cancel = ex[s][r].gen

\* The registry's other methods leave the function alone.
LEMMA MethodsKeepCancel ==
  ASSUME NEW j \in JobRecs, NEW st
  PROVE  /\ JobPublish(j, st).cancel = j.cancel
         /\ JobMarkTerminal(j, st).cancel = j.cancel
         /\ JobReopen(j).cancel = j.cancel
  BY DEF JobPublish, JobMarkTerminal, JobReopen, JobRecs

\* A method other than AttachCancel, called on the entry of run r.
CancelKept(r) ==
  \E st : \/ job' = [job EXCEPT ![r] = JobPublish(@, st)]
          \/ job' = [job EXCEPT ![r] = JobMarkTerminal(@, st)]
          \/ job' = [job EXCEPT ![r] = JobReopen(@)]
          \/ job' = job

\* After such a method the attached functions are those of before.
LEMMA KeptAttached ==
  ASSUME IInv, NEW r \in Runs, CancelKept(r)
  PROVE  \A q \in Runs : AttachedFrom(q)
  <1>1. job \in [Runs -> JobRecs]
    BY DEF IInv, TypeOK
  <1>2. \A q \in Runs : job'[q].cancel = job[q].cancel
    BY <1>1, MethodsKeepCancel DEF CancelKept
  <1> QED
    BY <1>2 DEF AttachedFrom

\* Every step: only an execution attaches, only a registration or a crash
\* forgets.
LEMMA StepAttached ==
  ASSUME IInv, [Next]_vars
  PROVE  \A q \in Runs : AttachedFrom(q)
  <1>1. job \in [Runs -> JobRecs]
    BY DEF IInv, TypeOK
  <1>2. CASE job' = job
    BY <1>2 DEF AttachedFrom
  <1>3. ASSUME NEW r \in Runs, EnqueueStamp(r) \/ EnqueueStep(r)
        PROVE  \A q \in Runs : AttachedFrom(q)
    <2>1. CASE EnqueueRegister(r)
      <3>1. NewJob.cancel = 0 /\ NoJob.cancel = 0
        BY DEF NewJob, NoJob
      <3>2. \A q \in Runs : job'[q] \in {NewJob, NoJob, job[q]}
        BY <2>1 DEF EnqueueRegister
      <3> QED
        BY <3>1, <3>2 DEF AttachedFrom
    <2>2. CASE CancelKept(r)
      BY <2>2, KeptAttached
    <2> QED
      BY <1>3, <2>1, <2>2 DEF EnqueueStamp, EnqueueStep, EnqueueInsert,
         EnqueuePublish, EnqueueSignal, CancelKept
  <1>4. ASSUME NEW s \in Slots, NEW r \in Runs, Execution(s, r)
        PROVE  \A q \in Runs : AttachedFrom(q)
    <2>1. CASE ExecAttach(s, r)
      <3>1. /\ job'[r] = JobAttachCancel(job[r], ex[s][r].gen)
            /\ \A q \in Runs : q # r => job'[q] = job[q]
            /\ ex[s][r].pc = "attach"
        BY <1>1, <2>1 DEF ExecAttach
      <3>2. JobAttachCancel(job[r], ex[s][r].gen).cancel
              \in {job[r].cancel, ex[s][r].gen}
        BY <1>1 DEF JobAttachCancel, JobRecs
      <3> QED
        BY <3>1, <3>2 DEF AttachedFrom
    <2>2. CASE CancelKept(r)
      BY <2>2, KeptAttached
    <2> QED
      BY <1>4, <2>1, <2>2 DEF Execution, ExecStarted, ExecAsksApproval,
         ExecEnds, ExecEmit, ExecFinalize, ExecPublish, ExecMark, PauseRow,
         PauseEmit, PausePublish, PauseMark, CancelKept
  <1>5. ASSUME NEW r \in Runs, ExecDeadline(r) \/ ExecBreaks(r) \/ Reconcile(r)
        PROVE  \A q \in Runs : AttachedFrom(q)
    <2>1. CancelKept(r)
      BY <1>5 DEF ExecDeadline, ExecBreaks, Reconcile, CancelKept
    <2> QED
      BY <2>1, KeptAttached
  <1>6. ASSUME NEW w \in Workers, WorkerStep(w) PROVE job' = job
    BY <1>6 DEF WorkerStep, Claim, ClaimNothing, WorkerWake, WorkerReturn
  <1>7. ASSUME NEW a \in AbortCalls,
               (\E q \in Runs : AbortCall(a, q)) \/ AbortStep(a)
        PROVE  \A q \in Runs : AttachedFrom(q)
    <2>1. CancelKept(ab[a].run)
      BY <1>7 DEF AbortStep, AbortCall, AppCancel, AbortCancelCont,
         AbortWaitCont, AbortCancel, AbortRead, AbortReopen, AbortFinalize,
         AbortQueued, AbortPublish, AbortMark, CancelKept
    <2> QED
      BY <2>1, KeptAttached, RunsReferred DEF IInv
  <1>8. ASSUME NEW p \in Resumers,
               (\E q \in Runs : ResumeCall(p, q)) \/ ResumeStep(p)
        PROVE  \A q \in Runs : AttachedFrom(q)
    <2>1. CancelKept(re[p].run)
      BY <1>8 DEF ResumeStep, ResumeCall, ResumeCheck, ResumeReopen,
         ResumePublish, ResumeBegin, ResumeRow, ResumeReturn, CancelKept
    <2> QED
      BY <2>1, KeptAttached, RunsReferred DEF IInv
  <1>9. CASE Crash
    <2>1. \A q \in Runs : job'[q].cancel = 0
      BY <1>9 DEF Crash, NoJob
    <2> QED
      BY <2>1 DEF AttachedFrom
  <1>10. CASE RecoveryTick \/ Stop \/ Start \/ StartSignal
    BY <1>2, <1>10 DEF RecoveryTick, Stop, Start, StartSignal
  <1>11. CASE Next
    BY <1>2, <1>3, <1>4, <1>5, <1>6, <1>7, <1>8, <1>9, <1>10, <1>11 DEF Next
  <1> QED
    BY <1>2, <1>11 DEF vars

-----------------------------------------------------------------------------
(* The invariant is inductive.                                               *)

\* What is stopped stays stopped: the row cannot be claimed again, and no step
\* gives an agent a live context back.
LEMMA StoppedStays ==
  ASSUME IInv, [Next]_vars, NEW r \in Runs, Stopped(r)
  PROVE  Stopped(r)'
  <1>1. row'[r] \notin {"none", "queued"}
    BY ClaimedStays DEF Stopped
  <1>2. WorkerGoesOn(r)
    BY StepGoesOn
  <1> QED
    BY <1>1, <1>2 DEF Stopped, WorkerGoesOn, AgentPcs

\* The worker's execution keeps its number.
LEMMA FirstExecStep ==
  ASSUME IInv, FirstExecInv, [Next]_vars
  PROVE  FirstExecInv'
  BY StepGoesOn DEF FirstExecInv, WorkerGoesOn

\* The attached function belongs to a claimed run, and before the first pause
\* only a worker's execution can have attached it.
LEMMA CancelStep ==
  ASSUME IInv, FirstExecInv, CancelInv, [Next]_vars
  PROVE  CancelInv'
  <1> SUFFICES ASSUME NEW r \in Runs, job'[r].cancel # 0
               PROVE  /\ row'[r] \notin {"none", "queued"}
                      /\ pauses'[r] = 0 => job'[r].cancel = 1
    BY DEF CancelInv
  <1>0. pauses[r] \in Nat /\ (pauses[r] > 0 => pauses'[r] > 0)
    BY PausesStay DEF IInv, TypeOK
  <1>1. AttachedFrom(r)
    BY StepAttached
  <1>2. CASE job'[r].cancel = job[r].cancel
    BY <1>0, <1>2, ClaimedStays DEF CancelInv
  <1>3. ASSUME NEW s \in Slots, ex[s][r].pc = "attach",
               job'[r].cancel = ex[s][r].gen
        PROVE  /\ row'[r] \notin {"none", "queued"}
               /\ pauses'[r] = 0 => job'[r].cancel = 1
    <2>1. CASE s = "worker"
      <3>1. row[r] \notin {"none", "queued"} /\ ex["worker"][r].gen = 1
        BY <1>3, <2>1 DEF IInv, RowInv, FirstExecInv
      <3> QED
        BY <1>3, <2>1, <3>1, ClaimedStays
    <2>2. CASE s = "cont"
      <3>1. pauses[r] > 0
        BY <1>3, <2>2 DEF IInv, ContExecInv
      <3>2. row[r] \notin {"none", "queued"}
        BY <1>0, <3>1 DEF IInv, RowInv
      <3> QED
        BY <1>0, <3>1, <3>2, ClaimedStays
    <2> QED
      BY <2>1, <2>2 DEF Slots
  <1> QED
    BY <1>1, <1>2, <1>3 DEF AttachedFrom
\* The run is stopped after the step.
StoppedAfter(r) ==
  /\ row'[r] \notin {"none", "queued"}
  /\ ex'["worker"][r].pc \in AgentPcs => ex'["worker"][r].ctx # "live"

\* A call that has taken effect had done so before, or the run has paused, or
\* the run is stopped.
TakesWell(a) ==
  Took(a)' => \/ Took(a) /\ ab'[a].run = ab[a].run
              \/ pauses[ab'[a].run] > 0
              \/ Stopped(ab'[a].run)
              \/ StoppedAfter(ab'[a].run)

\* A call that moves on has not taken effect by that.
LEMMA MoveTakesNothing ==
  ASSUME AbType, NEW a \in AbortCalls, NEW pc \in AbortPcs \ {"idle", "returned"},
         AbortTo(a, pc)
  PROVE  TakesWell(a) /\ ab'[a].pc # "idle"
  <1>1. ab'[a] = [ab[a] EXCEPT !.pc = pc] /\ ab[a] \in AbortRecs
    BY DEF AbortTo, AbType
  <1>2. /\ ab'[a].pc = pc /\ ab'[a].run = ab[a].run
        /\ ab'[a].cancelled = ab[a].cancelled
    BY <1>1 DEF AbortRecs
  <1> QED
    BY <1>2 DEF TakesWell, Took

\* A call that returns has taken effect if it says so.
LEMMA ReturnTakes ==
  ASSUME AbType, NEW a \in AbortCalls, NEW ok \in BOOLEAN, Return(a, ok),
         ok = TRUE => \/ ab[a].cancelled = TRUE \/ pauses[ab[a].run] > 0
                      \/ Stopped(ab[a].run) \/ StoppedAfter(ab[a].run)
  PROVE  TakesWell(a) /\ ab'[a].pc # "idle"
  <1>1. /\ ab'[a] = [ab[a] EXCEPT !.pc = "returned", !.ok = ok]
        /\ ab[a] \in AbortRecs
    BY DEF Return, AbType
  <1>2. /\ ab'[a].pc = "returned" /\ ab'[a].run = ab[a].run
        /\ ab'[a].cancelled = ab[a].cancelled /\ ab'[a].ok = ok
    BY <1>1 DEF AbortRecs
  <1>3. CASE ok = FALSE
    BY <1>2, <1>3 DEF TakesWell, Took
  <1>4. CASE ok = TRUE /\ ab[a].cancelled = TRUE
    BY <1>2, <1>4 DEF TakesWell, Took
  <1>5. CASE \/ pauses[ab[a].run] > 0
             \/ Stopped(ab[a].run) \/ StoppedAfter(ab[a].run)
    BY <1>2, <1>5 DEF TakesWell
  <1> QED
    BY <1>2, <1>3, <1>4, <1>5

\* A row that is finished has no agent with a live context.
LEMMA FinishedIsStopped ==
  ASSUME IInv, NEW r \in Runs, row[r] \in FinishedRows
  PROVE  Stopped(r)
  BY DEF IInv, WorkerExecInv, Deciding, Stopped, FinishedRows

\* Registry.Cancel, when it finds a function, stops a run that has not paused:
\* the function is the one of the worker's execution.
LEMMA CancelStops ==
  ASSUME IInv, FirstExecInv, CancelInv, NEW r \in Runs, Cancellable(r),
         ex' = CancelExecution(r, job[r].cancel), row' = row
  PROVE  pauses[r] > 0 \/ StoppedAfter(r)
  <1>1. ExType /\ pauses[r] \in Nat
    BY DEF IInv, TypeOK, ExType
  <1>2. CASE pauses[r] > 0
    BY <1>2
  <1>3. CASE pauses[r] = 0
    <2>1. job[r].cancel = 1 /\ row[r] \notin {"none", "queued"}
      BY <1>3 DEF CancelInv, Cancellable
    <2>2. /\ ex'["worker"][r].pc = ex["worker"][r].pc
          /\ ex["worker"][r].pc # "off" /\ ex["worker"][r].gen = 1
               => ex'["worker"][r].ctx # "live"
      BY <1>1, <2>1, CancelExecutionStops DEF OnlyCancels, Slots
    <2> QED
      BY <2>1, <2>2 DEF StoppedAfter, FirstExecInv, AgentPcs
  <1> QED
    BY <1>1, <1>2, <1>3

\* Each step of an abort call takes effect only where the run is stopped.
LEMMA AbortTakes ==
  ASSUME IInv, AInv, NEW a \in AbortCalls,
         (\E r \in Runs : AbortCall(a, r)) \/ AbortStep(a)
  PROVE  TakesWell(a) /\ ab'[a].pc # "idle"
  <1> DEFINE q == ab[a].run
  <1>0. /\ AbType /\ q \in Runs /\ ab[a] \in AbortRecs
        /\ ab[a].cancelled \in BOOLEAN /\ row[q] \in RowStatuses
        /\ TRUE \in BOOLEAN /\ FALSE \in BOOLEAN
    BY RunsReferred DEF IInv, TypeOK, AbType, AbortRecs
  <1>a. {"app", "cancelCont", "waitCont", "cancel", "read", "reopen",
         "finalize", "publish", "mark", "abortQueued", "queuedPublish",
         "queuedMark"} \subseteq AbortPcs \ {"idle", "returned"}
    BY DEF AbortPcs
  <1>1. ASSUME NEW r \in Runs, AbortCall(a, r)
        PROVE  TakesWell(a) /\ ab'[a].pc # "idle"
    <2>1. PICK pc \in {"app", "cancelCont"} :
            ab'[a] = [ab[a] EXCEPT !.pc = pc, !.run = r]
      BY <1>0, <1>1 DEF AbortCall, AbType
    <2>2. ab'[a].pc = pc /\ ab'[a].cancelled = ab[a].cancelled
      BY <1>0, <2>1 DEF AbortRecs
    <2>3. ab[a].cancelled = FALSE
      BY <1>1 DEF AbortCall, AInv, IdleInv
    <2> QED
      BY <2>2, <2>3 DEF TakesWell, Took
  <1>2. CASE AppCancel(a)
    <2>1. CASE Cancellable(q)
      <3>1. /\ ex' = CancelExecution(q, job[q].cancel) /\ row' = row
            /\ Return(a, TRUE)
        BY <1>2, <2>1 DEF AppCancel
      <3>2. pauses[q] > 0 \/ StoppedAfter(q)
        BY <1>0, <2>1, <3>1, CancelStops DEF AInv
      <3> QED
        BY <1>0, <3>1, <3>2, ReturnTakes
    <2>2. CASE ~Cancellable(q)
      BY <1>0, <1>2, <1>a, <2>2, MoveTakesNothing DEF AppCancel
    <2> QED
      BY <2>1, <2>2
  <1>3. CASE AbortCancelCont(a)
    BY <1>0, <1>3, <1>a, MoveTakesNothing DEF AbortCancelCont
  <1>4. CASE AbortWaitCont(a)
    BY <1>0, <1>4, <1>a, MoveTakesNothing, ReturnTakes DEF AbortWaitCont
  <1>5. CASE AbortCancel(a)
    <2>1. ab'[a] = [ab[a] EXCEPT !.pc = "read", !.cancelled = Cancellable(q)]
      BY <1>0, <1>5 DEF AbortCancel, AbType
    <2>2. ab'[a].pc = "read" /\ ab'[a].run = q /\ ab'[a].cancelled = Cancellable(q)
      BY <1>0, <2>1 DEF AbortRecs
    <2>3. CASE Cancellable(q)
      <3>1. pauses[q] > 0 \/ StoppedAfter(q)
        BY <1>0, <1>5, <2>3, CancelStops DEF AbortCancel, AInv
      <3> QED
        BY <2>2, <3>1 DEF TakesWell
    <2>4. CASE ~Cancellable(q)
      BY <2>2, <2>4 DEF TakesWell, Took
    <2> QED
      BY <2>2, <2>3, <2>4
  <1>6. CASE AbortRead(a)
    <2>1. \/ AbortTo(a, "reopen") \/ AbortTo(a, "abortQueued")
          \/ Return(a, ab[a].cancelled)
          \/ Return(a, TRUE) /\ row[q] \in FinishedRows
          \/ Return(a, FALSE)
      BY <1>0, <1>6 DEF AbortRead, RowStatuses
    <2> QED
      BY <1>0, <1>a, <2>1, MoveTakesNothing, ReturnTakes, FinishedIsStopped
  <1>7. CASE AbortReopen(a)
    BY <1>0, <1>7, <1>a, MoveTakesNothing DEF AbortReopen
  <1>8. CASE AbortFinalize(a)
    <2>1. pauses[q] > 0
      BY <1>8 DEF AbortFinalize, IInv, AbortInv
    <2> QED
      BY <1>0, <1>8, <1>a, <2>1, MoveTakesNothing, ReturnTakes DEF AbortFinalize
  <1>9. CASE AbortQueued(a)
    BY <1>0, <1>9, <1>a, MoveTakesNothing, ReturnTakes DEF AbortQueued
  <1>10. CASE AbortPublish(a) \/ AbortMark(a)
    <2>1. row[q] = "aborted"
      BY <1>10 DEF AbortPublish, AbortMark, IInv, AbortInv
    <2>2. Stopped(q)
      BY <1>0, <2>1, FinishedIsStopped DEF FinishedRows
    <2> QED
      BY <1>0, <1>10, <1>a, <2>2, MoveTakesNothing, ReturnTakes
      DEF AbortPublish, AbortMark
  <1> QED
    BY <1>1, <1>2, <1>3, <1>4, <1>5, <1>6, <1>7, <1>8, <1>9, <1>10
    DEF AbortStep

\* A resumption turns into an abort only after a pause.
LEMMA ResumeTakes ==
  ASSUME IInv, AInv, NEW p \in Resumers, NEW a \in AbortCalls,
         (\E r \in Runs : ResumeCall(p, r)) \/ ResumeStep(p)
  PROVE  TakesWell(a) /\ (ab'[a].pc = "idle" => ab'[a] = ab[a])
  <1> DEFINE q == re[p].run
  <1>0. ReType /\ AbType /\ q \in Runs
    BY RunsReferred DEF IInv, TypeOK, AbType, ReType
  <1>1. CASE ab' = ab
    BY <1>1 DEF TakesWell, Took
  <1>2. CASE ResumeFails(p, q) /\ re[p].pc \in {"begin", "cont"}
    <2>1. pauses[q] > 0
      BY <1>2 DEF IInv, ResumeInv
    <2>2. CASE a = p
      <3>1. ab'[a] = [ab[a] EXCEPT !.pc = "cancelCont", !.run = q]
        BY <1>0, <1>2, <2>2 DEF ResumeFails, AbType
      <3>2. ab'[a].pc = "cancelCont" /\ ab'[a].run = q
        BY <1>0, <3>1 DEF AbType, AbortRecs
      <3> QED
        BY <2>1, <3>2 DEF TakesWell
    <2>3. CASE a # p
      <3>1. ab'[a] = ab[a]
        BY <1>0, <1>2, <2>3 DEF ResumeFails, AbType
      <3> QED
        BY <3>1 DEF TakesWell, Took
    <2> QED
      BY <2>2, <2>3
  <1> QED
    BY <1>1, <1>2 DEF ResumeStep, ResumeCall, ResumeCheck, ResumeReopen,
       ResumePublish, ResumeBegin, ResumeRow, ResumeReturn
\* A crash answers no call, and takes no answer back.
LEMMA CrashTakes ==
  ASSUME IInv, AInv, NEW a \in AbortCalls, Crash
  PROVE  TakesWell(a) /\ (ab'[a].pc = "idle" => ab'[a] = ab[a])
  <1>0. ab[a] \in AbortRecs
    BY DEF IInv, TypeOK
  <1>1. CASE ab[a].pc \in {"idle", "returned"}
    <2>1. ab'[a] = ab[a]
      BY <1>1 DEF Crash
    <2> QED
      BY <2>1 DEF TakesWell, Took
  <1>2. CASE ab[a].pc \notin {"idle", "returned"}
    <2>1. ab'[a] = [ab[a] EXCEPT !.pc = "returned", !.ok = FALSE]
      BY <1>2 DEF Crash
    <2>2. /\ ab'[a].pc = "returned" /\ ab'[a].run = ab[a].run
          /\ ab'[a].cancelled = ab[a].cancelled /\ ab'[a].ok = FALSE
      BY <1>0, <2>1 DEF AbortRecs
    <2> QED
      BY <2>2 DEF TakesWell, Took
  <1> QED
    BY <1>1, <1>2

\* Every step leaves every call with an answer that the run justifies.
LEMMA StepTakes ==
  ASSUME IInv, AInv, [Next]_vars, NEW a \in AbortCalls
  PROVE  TakesWell(a) /\ (ab'[a].pc = "idle" => ab'[a] = ab[a])
  <1>1. CASE ab'[a] = ab[a]
    BY <1>1 DEF TakesWell, Took
  <1>2. ASSUME NEW b \in AbortCalls,
               (\E r \in Runs : AbortCall(b, r)) \/ AbortStep(b)
        PROVE  TakesWell(a) /\ (ab'[a].pc = "idle" => ab'[a] = ab[a])
    <2>1. CASE b = a
      BY <1>2, <2>1, AbortTakes
    <2>2. CASE b # a
      <3>1. ab'[a] = ab[a]
        BY <1>2, <2>2 DEF IInv, TypeOK, AbortStep, AbortCall, AppCancel,
           AbortCancelCont, AbortWaitCont, AbortCancel, AbortRead, AbortReopen,
           AbortFinalize, AbortQueued, AbortPublish, AbortMark, AbortTo, Return
      <3> QED
        BY <1>1, <3>1
    <2> QED
      BY <2>1, <2>2
  <1>3. ASSUME NEW p \in Resumers,
               (\E r \in Runs : ResumeCall(p, r)) \/ ResumeStep(p)
        PROVE  TakesWell(a) /\ (ab'[a].pc = "idle" => ab'[a] = ab[a])
    BY <1>3, ResumeTakes
  <1>4. CASE Crash
    BY <1>4, CrashTakes
  <1>5. ASSUME NEW r \in Runs,
               \/ EnqueueStamp(r) \/ EnqueueStep(r) \/ ExecDeadline(r)
               \/ ExecBreaks(r) \/ Reconcile(r)
               \/ \E s \in Slots : Execution(s, r)
        PROVE  ab' = ab
    BY <1>5 DEF EnqueueStamp, EnqueueStep, EnqueueInsert, EnqueueRegister,
       EnqueuePublish, EnqueueSignal, ExecDeadline, ExecBreaks, Reconcile,
       Execution, ExecAttach, ExecStarted, ExecAsksApproval, ExecEnds, ExecEmit,
       ExecFinalize, ExecPublish, ExecMark, PauseRow, PauseEmit, PausePublish,
       PauseMark, ExecUnchanged
  <1>6. ASSUME NEW w \in Workers, WorkerStep(w) PROVE ab' = ab
    BY <1>6 DEF WorkerStep, Claim, ClaimNothing, WorkerWake, WorkerReturn
  <1>7. CASE RecoveryTick \/ Stop \/ Start \/ StartSignal
    BY <1>1, <1>7 DEF RecoveryTick, Stop, Start, StartSignal
  <1>8. CASE Next
    BY <1>1, <1>2, <1>3, <1>4, <1>5, <1>6, <1>7, <1>8 DEF Next
  <1> QED
    BY <1>1, <1>8 DEF vars

\* The aborts' invariant is preserved by every step.
LEMMA AbortInvStep == IInv /\ AInv /\ IInv' /\ [Next]_vars => AInv'
  <1> SUFFICES ASSUME IInv, AInv, IInv', [Next]_vars PROVE AInv'
    OBVIOUS
  <1>1. FirstExecInv' /\ CancelInv'
    BY FirstExecStep, CancelStep DEF AInv
  <1>2. IdleInv'
    BY StepTakes DEF AInv, IdleInv
  <1>3. TookInv'
    <2> SUFFICES ASSUME NEW a \in AbortCalls, Took(a)'
                 PROVE  pauses'[ab'[a].run] > 0 \/ StoppedAfter(ab'[a].run)
      BY DEF TookInv, Stopped, StoppedAfter
    <2>1. ab'[a].run \in Runs
      BY DEF IInv, TypeOK, AbortRecs
    <2>2. PICK r \in Runs : r = ab'[a].run
      BY <2>1
    <2>3. pauses[r] > 0 \/ Stopped(r) \/ StoppedAfter(r)
      BY <2>2, StepTakes DEF TakesWell, AInv, TookInv
    <2>4. pauses[r] > 0 => pauses'[r] > 0
      BY PausesStay
    <2>5. Stopped(r) => StoppedAfter(r)
      BY StoppedStays DEF Stopped, StoppedAfter
    <2> QED
      BY <2>2, <2>3, <2>4, <2>5
  <1> QED
    BY <1>1, <1>2, <1>3 DEF AInv

\* Initially nothing runs and nobody has called.
LEMMA AbortInvInit == Init => AInv
  <1> SUFFICES ASSUME Init PROVE AInv
    OBVIOUS
  <1>1. \A r \in Runs : ex["worker"][r].pc = "off" /\ job[r].cancel = 0
    BY DEF Init, NoExec, NoJob, Slots
  <1>2. \A a \in AbortCalls : ab[a].pc = "idle" /\ ab[a].cancelled = FALSE
    BY DEF Init, IdleAbort
  <1> QED
    BY <1>1, <1>2 DEF AInv, FirstExecInv, CancelInv, TookInv, Took, IdleInv

\* The invariant of the aborts holds in every state the manager reaches.
THEOREM AbortInvariant == Spec => [](IInv /\ AInv)
  <1>1. Init => IInv /\ AInv
    BY InvInit, AbortInvInit
  <1>2. IInv /\ AInv /\ [Next]_vars => IInv' /\ AInv'
    BY InvStep, AbortInvStep
  <1> QED
    BY <1>1, <1>2, PTL DEF Spec

\* Under the invariant an acknowledged call has stopped a run without pauses.
LEMMA AckedIsStopped ==
  ASSUME IInv, AInv, NEW r \in Runs, Acked(r), pauses[r] = 0
  PROVE  Stopped(r)
  <1>1. PICK a \in Aborters \cup AppAborters :
          ab[a].pc = "returned" /\ ab[a].ok /\ ab[a].run = r
    BY DEF Acked
  <1>2. a \in AbortCalls /\ ab[a].ok \in BOOLEAN
    BY DEF AbortCalls, IInv, TypeOK, AbortRecs
  <1>3. Took(a)
    BY <1>1, <1>2 DEF Took
  <1> QED
    BY <1>1, <1>2, <1>3 DEF AInv, TookInv

\* After an acknowledged abort no agent of a run that has not paused works with
\* a context that nobody cancelled: neither the one Abort met, nor one that a
\* worker claims later, nor one of a restarted process.
THEOREM AbortsStopExecutions == Spec => []AbortStopsExecution
  <1>1. IInv /\ AInv => AbortStopsExecution
    <2> SUFFICES ASSUME IInv, AInv, NEW r \in Runs, NEW s \in Slots,
                        Acked(r), pauses[r] = 0, ex[s][r].pc \in AgentPcs
                 PROVE  ex[s][r].ctx # "live"
      BY DEF AbortStopsExecution
    <2>1. s = "worker"
      BY DEF IInv, ContExecInv, Slots, AgentPcs
    <2> QED
      BY <2>1, AckedIsStopped DEF Stopped
  <1> QED
    BY <1>1, AbortInvariant, PTL

\* An acknowledged abort of a run that has not paused ends in a finished row:
\* when nothing moves the run any more, its row was claimed or aborted, is not
\* paused, and a running row would have an owner.
THEOREM AbortsSettle == Spec => []AbortSettles
  <1>1. IInv /\ AInv => AbortSettles
    <2> SUFFICES ASSUME IInv, AInv, NEW r \in Runs, Acked(r), Settled(r),
                        pauses[r] = 0, Up, r \notin todo.rows, faults = 0
                 PROVE  row[r] \in FinishedRows
      BY DEF AbortSettles
    <2>1. row[r] \notin {"none", "queued"}
      BY AckedIsStopped DEF Stopped
    <2>2. row[r] # "approval_required"
      BY DEF IInv, RowInv
    <2>3. row[r] # "running"
      BY DEF IInv, RunningRowOwned, Settled, AgentPcs
    <2>4. row[r] \in RowStatuses
      BY DEF IInv, TypeOK
    <2> QED
      BY <2>1, <2>2, <2>3, <2>4 DEF RowStatuses
  <1> QED
    BY <1>1, AbortInvariant, PTL
=============================================================================
