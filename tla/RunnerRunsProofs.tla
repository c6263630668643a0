-------------------------- MODULE RunnerRunsProofs --------------------------
(***************************************************************************)
(* Proofs about RunnerRuns, for every set of runs, workers and callers and *)
(* every value of the bounds.                                              *)
(***************************************************************************)
EXTENDS RunnerRuns, FiniteSetTheorems, TLAPS

-----------------------------------------------------------------------------
(* Types of the operators the actions are built from.                        *)

\* There is a run to fill the idle records with.
LEMMA AnyRunType == AnyRun \in Runs
  BY RunnerAssumption DEF AnyRun

\* The size of the worker pool is a number.
LEMMA MaxConcurrentType == MaxConcurrent \in Nat
  BY RunnerAssumption, FS_CardinalityType DEF MaxConcurrent

\* Registry.Publish keeps an entry an entry.
LEMMA JobPublishType ==
  ASSUME NEW j \in JobRecs, NEW st \in RowStatuses
  PROVE  JobPublish(j, st) \in JobRecs
  BY DEF JobPublish, JobRecs

\* Registry.markTerminal keeps an entry an entry.
LEMMA JobMarkType ==
  ASSUME NEW j \in JobRecs, NEW st \in RowStatuses
  PROVE  JobMarkTerminal(j, st) \in JobRecs
  BY DEF JobMarkTerminal, JobRecs

\* Registry.Reopen keeps an entry an entry.
LEMMA JobReopenType ==
  ASSUME NEW j \in JobRecs
  PROVE  JobReopen(j) \in JobRecs
  <1>1. j.reopened + 1 \in Nat
    BY DEF JobRecs
  <1> QED
    BY <1>1 DEF JobReopen, JobRecs, RowStatuses, FinishedRows

\* Registry.AttachCancel keeps an entry an entry.
LEMMA JobAttachType ==
  ASSUME NEW j \in JobRecs, NEW g \in Nat
  PROVE  JobAttachCancel(j, g) \in JobRecs
  BY DEF JobAttachCancel, JobRecs

\* Absent and fresh entries are entries.
LEMMA JobConstantsType == NoJob \in JobRecs /\ NewJob \in JobRecs
  <1>1. NoJob \in JobRecs
    BY DEF NoJob, JobRecs, RowStatuses
  <1> QED
    BY <1>1 DEF NewJob, NoJob, JobRecs, RowStatuses

\* The status Complete and Fail use is a status, and a finished one.
LEMMA JobStatusOfType ==
  ASSUME NEW st \in FinishedRows
  PROVE  JobStatusOf(st) \in RowStatuses /\ JobStatusOf(st) \in FinishedRows
  BY DEF JobStatusOf, FinishedRows, RowStatuses

\* What an execution concludes from its context is a finished status.
LEMMA OutcomeType ==
  ASSUME NEW c \in Contexts, NEW exit \in FinishedRows
  PROVE  OutcomeOf(c, exit) \in FinishedRows
  BY DEF OutcomeOf, FinishedRows, Contexts

ExType == ex \in [Slots -> [Runs -> ExecRecs]]

\* Replacing one execution changes that one and no other.
LEMMA ExecToEffect ==
  ASSUME ExType, NEW s \in Slots, NEW r \in Runs, NEW e \in ExecRecs,
         ExecTo(s, r, e)
  PROVE  /\ ExType'
         /\ ex'[s][r] = e
         /\ \A t \in Slots, q \in Runs : t # s \/ q # r => ex'[t][q] = ex[t][q]
  BY DEF ExecTo, ExType

\* Goto moves one execution to another pc.
LEMMA GotoEffect ==
  ASSUME ExType, NEW s \in Slots, NEW r \in Runs, NEW pc \in ExecPcs,
         Goto(s, r, pc)
  PROVE  /\ ExType'
         /\ ex'[s][r].pc = pc
         /\ ex'[s][r].st = ex[s][r].st
         /\ \A t \in Slots, q \in Runs : t # s \/ q # r => ex'[t][q] = ex[t][q]
  <1> DEFINE e == [ex[s][r] EXCEPT !.pc = pc]
  <1>1. ex[s][r] \in ExecRecs
    BY DEF ExType
  <1>2. e \in ExecRecs /\ e.pc = pc /\ e.st = ex[s][r].st
    BY <1>1 DEF ExecRecs
  <1> HIDE DEF e
  <1>3. ExecTo(s, r, e)
    BY DEF Goto, e
  <1> QED
    BY <1>2, <1>3, ExecToEffect

\* Decide also records the status the run will end with.
LEMMA DecideEffect ==
  ASSUME ExType, NEW s \in Slots, NEW r \in Runs, NEW pc \in ExecPcs,
         NEW st \in FinishedRows, Decide(s, r, pc, st)
  PROVE  /\ ExType'
         /\ ex'[s][r].pc = pc
         /\ ex'[s][r].st = st
         /\ \A t \in Slots, q \in Runs : t # s \/ q # r => ex'[t][q] = ex[t][q]
  <1> DEFINE e == [ex[s][r] EXCEPT !.pc = pc, !.st = st]
  <1>1. ex[s][r] \in ExecRecs
    BY DEF ExType
  <1>2. e \in ExecRecs /\ e.pc = pc /\ e.st = st
    BY <1>1 DEF ExecRecs
  <1> HIDE DEF e
  <1>3. ExecTo(s, r, e)
    BY DEF Decide, e
  <1> QED
    BY <1>2, <1>3, ExecToEffect

\* Cancelling a context leaves an execution where it is.
LEMMA CancelContextEffect ==
  ASSUME NEW e \in ExecRecs, NEW g
  PROVE  /\ CancelContext(e, g) \in ExecRecs
         /\ CancelContext(e, g).pc = e.pc
         /\ CancelContext(e, g).st = e.st
  BY DEF CancelContext, ExecRecs, Contexts

SamePlaces == \A s \in Slots, r \in Runs :
                ex'[s][r].pc = ex[s][r].pc /\ ex'[s][r].st = ex[s][r].st

\* Registry.Cancel does not move any execution.
LEMMA CancelExecutionEffect ==
  ASSUME ExType, NEW r \in Runs, NEW g, ex' = CancelExecution(r, g)
  PROVE  ExType' /\ SamePlaces
  <1>1. \A s \in Slots, q \in Runs : ex[s][q] \in ExecRecs
    BY DEF ExType
  <1>2. \A s \in Slots : ex'[s] = [ex[s] EXCEPT ![r] = CancelContext(@, g)]
    BY DEF CancelExecution
  <1>3. \A s \in Slots, q \in Runs :
          ex'[s][q] = IF q = r THEN CancelContext(ex[s][q], g) ELSE ex[s][q]
    <2> SUFFICES ASSUME NEW s \in Slots, NEW q \in Runs
                 PROVE  ex'[s][q] = IF q = r THEN CancelContext(ex[s][q], g)
                                    ELSE ex[s][q]
      OBVIOUS
    <2>1. ex[s] \in [Runs -> ExecRecs]
      BY DEF ExType
    <2>2. ex'[s] = [ex[s] EXCEPT ![r] = CancelContext(ex[s][r], g)]
      BY <1>2
    <2> QED
      BY <2>1, <2>2
  <1>4. \A s \in Slots, q \in Runs :
          /\ ex'[s][q] \in ExecRecs
          /\ ex'[s][q].pc = ex[s][q].pc /\ ex'[s][q].st = ex[s][q].st
    BY <1>1, <1>3, CancelContextEffect
  <1>5. ex' \in [Slots -> [Runs -> ExecRecs]]
    <2>1. \A s \in Slots : ex'[s] \in [Runs -> ExecRecs]
      BY <1>2, <1>4 DEF ExType
    <2>2. ex' = [s \in Slots |-> ex'[s]]
      BY DEF CancelExecution
    <2> QED BY <2>1, <2>2
  <1> QED BY <1>4, <1>5 DEF ExType, SamePlaces

AbType == ab \in [AbortCalls -> AbortRecs]

\* AbortTo moves one abort call.
LEMMA AbortToEffect ==
  ASSUME AbType, NEW a \in AbortCalls, NEW pc \in AbortPcs, AbortTo(a, pc)
  PROVE  /\ AbType'
         /\ ab'[a].pc = pc /\ ab'[a].run = ab[a].run
         /\ \A b \in AbortCalls : b # a => ab'[b] = ab[b]
  BY DEF AbType, AbortTo, AbortRecs

\* Return ends one abort call.
LEMMA ReturnEffect ==
  ASSUME AbType, NEW a \in AbortCalls, NEW ok \in BOOLEAN, Return(a, ok)
  PROVE  /\ AbType'
         /\ ab'[a].pc = "returned" /\ ab'[a].run = ab[a].run
         /\ \A b \in AbortCalls : b # a => ab'[b] = ab[b]
  BY DEF AbType, Return, AbortRecs, AbortPcs

ReType == re \in [Resumers -> ResumeRecs]

\* ResumeTo moves one resumption.
LEMMA ResumeToEffect ==
  ASSUME ReType, NEW p \in Resumers, NEW pc \in ResumePcs, ResumeTo(p, pc)
  PROVE  /\ ReType'
         /\ re'[p].pc = pc /\ re'[p].run = re[p].run
         /\ \A q \in Resumers : q # p => re'[q] = re[q]
  BY DEF ReType, ResumeTo, ResumeRecs

\* A failed resumption is over, and its goroutine is in Manager.Abort.
LEMMA ResumeFailsEffect ==
  ASSUME ReType, AbType, NEW p \in Resumers, NEW r \in Runs, ResumeFails(p, r)
  PROVE  /\ ReType' /\ AbType'
         /\ re'[p].pc = "done" /\ re'[p].run = re[p].run
         /\ \A q \in Resumers : q # p => re'[q] = re[q]
         /\ ab'[p].pc = "cancelCont"
         /\ \A b \in AbortCalls : b # p => ab'[b] = ab[b]
  <1>1. p \in AbortCalls
    BY DEF AbortCalls
  <1>2. ResumeTo(p, "done") /\ "done" \in ResumePcs
    BY DEF ResumeFails, ResumePcs
  <1>3. AbType' /\ ab'[p].pc = "cancelCont"
          /\ \A b \in AbortCalls : b # p => ab'[b] = ab[b]
    BY <1>1 DEF AbType, ResumeFails, AbortRecs, AbortPcs
  <1> QED
    BY <1>2, <1>3, ResumeToEffect

-----------------------------------------------------------------------------
(* Type correctness.                                                         *)

\* The initial state is well typed.
LEMMA TypeInit == Init => TypeOK
  <1> SUFFICES ASSUME Init PROVE TypeOK
    OBVIOUS
  <1>1. ex \in [Slots -> [Runs -> ExecRecs]]
    BY DEF Init, NoExec, ExecRecs, ExecPcs, Contexts
  <1>2. ab \in [AbortCalls -> AbortRecs] /\ re \in [Resumers -> ResumeRecs]
    BY AnyRunType DEF Init, IdleAbort, AbortRecs, AbortPcs, IdleResume,
       ResumeRecs, ResumePcs
  <1>3. worker \in [Workers -> WorkerRecs]
    BY AnyRunType DEF Init, IdleWorker, WorkerRecs, WorkerPcs
  <1>4. todo \in StartWork
    BY DEF Init, NothingToDo, StartWork
  <1> QED
    BY <1>1, <1>2, <1>3, <1>4, JobConstantsType
    DEF Init, TypeOK, RowStatuses, FinishedRows, EnqPcs

\* signalN leaves a number of tokens.
LEMMA SignalledType ==
  ASSUME notify \in Nat, NEW n \in Nat
  PROVE  Signalled(n) \in Nat /\ Lesser(notify + n, MaxConcurrent) \in Nat
  BY MaxConcurrentType DEF Signalled, Lesser

\* Enqueue and the workers keep the types.
LEMMA EnqueueType ==
  ASSUME TypeOK, NEW r \in Runs, EnqueueStamp(r) \/ EnqueueStep(r)
  PROVE  TypeOK'
  <1>1. CASE EnqueueStamp(r)
    BY <1>1 DEF TypeOK, EnqueueStamp, EnqPcs
  <1>2. CASE EnqueueInsert(r)
    <2>1. /\ row' \in [Runs -> RowStatuses]
          /\ enq' \in [Runs -> EnqPcs]
          /\ faults' \in Nat
      BY <1>2 DEF TypeOK, EnqueueInsert, EnqPcs, RowStatuses
    <2>2. UNCHANGED <<requestedAt, clock, job, worker, ex, ab, re, pauses,
                      notify, mgr, todo, crashes>>
      BY <1>2 DEF EnqueueInsert
    <2> QED
      BY <2>1, <2>2 DEF TypeOK
  <1>3. CASE EnqueueRegister(r)
    BY <1>3, JobConstantsType DEF TypeOK, EnqueueRegister, EnqPcs
  <1>4. CASE EnqueuePublish(r)
    BY <1>4, JobPublishType DEF TypeOK, EnqueuePublish, EnqPcs, RowStatuses
  <1>5. CASE EnqueueSignal(r)
    BY <1>5, SignalledType DEF TypeOK, EnqueueSignal, EnqPcs
  <1> QED
    BY <1>1, <1>2, <1>3, <1>4, <1>5 DEF EnqueueStep

\* A worker keeps the types: the claimed run gets a fresh execution.
LEMMA WorkerType ==
  ASSUME TypeOK, NEW w \in Workers, WorkerStep(w)
  PROVE  TypeOK'
  <1>1. ASSUME NEW r \in Runs, Claim(w, r) PROVE TypeOK'
    <2>1. ExType /\ "worker" \in Slots
      BY DEF TypeOK, ExType, Slots
    <2>2. [pc |-> "attach", ctx |-> "live", gen |-> 1, st |-> "none"] \in ExecRecs
      BY DEF ExecRecs, ExecPcs, LivePcs, Contexts
    <2>3. ExType'
      BY <1>1, <2>1, <2>2, ExecToEffect DEF Claim
    <2> QED
      BY <1>1, <2>3 DEF TypeOK, Claim, ExType, RowStatuses, WorkerRecs, WorkerPcs
  <1>2. CASE ClaimNothing(w)
    BY <1>2 DEF TypeOK, ClaimNothing, WorkerRecs, WorkerPcs
  <1>3. CASE WorkerWake(w)
    <2>1. notify' \in Nat
      BY <1>3 DEF TypeOK, WorkerWake
    <2>2. PICK c \in {"scan", "exit"} :
                 worker' = [worker EXCEPT ![w] = [@ EXCEPT !.pc = c]]
      BY <1>3 DEF WorkerWake
    <2>3. worker' \in [Workers -> WorkerRecs]
      BY <2>2 DEF TypeOK, WorkerRecs, WorkerPcs
    <2> QED
      BY <1>3, <2>1, <2>3 DEF TypeOK, WorkerWake
  <1>4. CASE WorkerReturn(w)
    BY <1>4 DEF TypeOK, WorkerReturn, WorkerRecs, WorkerPcs
  <1> QED
    BY <1>1, <1>2, <1>3, <1>4 DEF WorkerStep

\* An execution keeps the types.
LEMMA ExecutionType ==
  ASSUME TypeOK, NEW s \in Slots, NEW r \in Runs, Execution(s, r)
  PROVE  TypeOK'
  <1> USE DEF ExecUnchanged
  <1>0. /\ ExType
        /\ ex[s][r] \in ExecRecs
        /\ job[r] \in JobRecs
    BY DEF TypeOK, ExType
  <1>a. /\ ex[s][r].st \in RowStatuses
        /\ JobStatusOf(ex[s][r].st) \in RowStatuses
        /\ ex[s][r].gen \in Nat
        /\ ex[s][r].ctx \in Contexts
    BY <1>0 DEF ExecRecs, RowStatuses, FinishedRows, JobStatusOf
  <1>b. {"running", "started", "pause", "emit", "finalize", "publish", "mark",
         "off", "pauseEmit", "pausePublish", "pauseMark"} \subseteq ExecPcs
    BY DEF ExecPcs, LivePcs, PausePcs, FinishPcs
  <1>1. CASE ExecAttach(s, r)
    <2>1. ExType'
      BY <1>0, <1>1, <1>b, GotoEffect DEF ExecAttach
    <2> QED
      BY <1>0, <1>1, <1>a, <2>1, JobAttachType DEF TypeOK, ExecAttach, ExType
  <1>2. CASE ExecStarted(s, r)
    <2>1. ExType'
      BY <1>0, <1>2, <1>b, GotoEffect DEF ExecStarted
    <2> QED
      BY <1>0, <1>2, <2>1, JobPublishType
      DEF TypeOK, ExecStarted, ExType, RowStatuses
  <1>3. CASE ExecAsksApproval(s, r)
    <2>1. "aborted" \in FinishedRows
      BY DEF FinishedRows
    <2>2. ExType'
      BY <1>0, <1>3, <1>a, <1>b, <2>1, GotoEffect, DecideEffect, OutcomeType
      DEF ExecAsksApproval
    <2> QED
      BY <1>3, <2>2 DEF TypeOK, ExecAsksApproval, ExType
  <1>4. CASE ExecEnds(s, r)
    <2>1. \A exit \in {"succeeded", "failed"} : exit \in FinishedRows
      BY DEF FinishedRows
    <2>2. ExType'
      BY <1>0, <1>4, <1>a, <1>b, <2>1, DecideEffect, OutcomeType DEF ExecEnds
    <2> QED
      BY <1>4, <2>2 DEF TypeOK, ExecEnds, ExType
  <1>5. CASE ExecEmit(s, r)
    <2>1. ExType'
      BY <1>0, <1>5, <1>b, GotoEffect DEF ExecEmit
    <2> QED
      BY <1>0, <1>5, <1>a, <2>1, JobPublishType DEF TypeOK, ExecEmit, ExType
  <1>6. CASE ExecFinalize(s, r)
    <2>1. ExType'
      BY <1>0, <1>6, <1>b, GotoEffect DEF ExecFinalize
    <2> QED
      BY <1>6, <1>a, <2>1 DEF TypeOK, ExecFinalize, ExType
  <1>7. CASE ExecPublish(s, r)
    <2>1. ExType'
      BY <1>0, <1>7, <1>b, GotoEffect DEF ExecPublish
    <2> QED
      BY <1>0, <1>7, <1>a, <2>1, JobPublishType DEF TypeOK, ExecPublish, ExType
  <1>8. CASE ExecMark(s, r)
    <2>1. ExType'
      BY <1>0, <1>8, <1>b, GotoEffect DEF ExecMark
    <2> QED
      BY <1>0, <1>8, <1>a, <2>1, JobMarkType DEF TypeOK, ExecMark, ExType
  <1>9. CASE PauseRow(s, r)
    <2>1. ExType'
      BY <1>0, <1>9, <1>b, GotoEffect DEF PauseRow
    <2>2. pauses' \in [Runs -> Nat]
      BY <1>9 DEF TypeOK, PauseRow
    <2>3. row' \in [Runs -> RowStatuses] /\ faults' \in Nat
      BY <1>9 DEF TypeOK, PauseRow, RowStatuses
    <2> QED
      BY <1>9, <2>1, <2>2, <2>3 DEF TypeOK, PauseRow, ExType
  <1>10. CASE PauseEmit(s, r)
    <2>1. ExType'
      BY <1>0, <1>10, <1>b, GotoEffect DEF PauseEmit
    <2> QED
      BY <1>0, <1>10, <2>1, JobPublishType
      DEF TypeOK, PauseEmit, ExType, RowStatuses
  <1>11. CASE PausePublish(s, r)
    <2>1. ExType'
      BY <1>0, <1>11, <1>b, GotoEffect DEF PausePublish
    <2> QED
      BY <1>0, <1>11, <2>1, JobPublishType
      DEF TypeOK, PausePublish, ExType, RowStatuses
  <1>12. CASE PauseMark(s, r)
    <2>1. ExType'
      BY <1>0, <1>12, <1>b, GotoEffect DEF PauseMark
    <2> QED
      BY <1>0, <1>12, <2>1, JobMarkType
      DEF TypeOK, PauseMark, ExType, RowStatuses
  <1> QED
    BY <1>1, <1>2, <1>3, <1>4, <1>5, <1>6, <1>7, <1>8, <1>9, <1>10, <1>11,
       <1>12 DEF Execution

\* So do a deadline and a broken execution.
LEMMA ExecEventType ==
  ASSUME TypeOK, NEW r \in Runs, ExecDeadline(r) \/ ExecBreaks(r)
  PROVE  TypeOK'
  <1>0. ExType /\ "worker" \in Slots /\ ex["worker"][r] \in ExecRecs
    BY DEF TypeOK, ExType, Slots
  <1>1. CASE ExecDeadline(r)
    <2>1. [ex["worker"][r] EXCEPT !.ctx = "deadline"] \in ExecRecs
      BY <1>0 DEF ExecRecs, Contexts
    <2>2. ExType'
      BY <1>0, <1>1, <2>1, ExecToEffect DEF ExecDeadline
    <2> QED
      BY <1>1, <2>2 DEF TypeOK, ExecDeadline, ExecUnchanged, ExType
  <1>2. CASE ExecBreaks(r)
    <2>1. "finalize" \in ExecPcs /\ "failed" \in FinishedRows
      BY DEF ExecPcs, FinishPcs, FinishedRows
    <2>2. ExType'
      BY <1>0, <1>2, <2>1, DecideEffect DEF ExecBreaks
    <2> QED
      BY <1>2, <2>2 DEF TypeOK, ExecBreaks, ExecUnchanged, ExType
  <1> QED
    BY <1>1, <1>2

\* An abort call keeps the types.
LEMMA AbortType ==
  ASSUME TypeOK, NEW a \in AbortCalls, AbortStep(a)
  PROVE  TypeOK'
  <1> USE DEF AbortUnchanged
  <1> DEFINE r == ab[a].run
  <1>0. /\ ExType /\ AbType
        /\ r \in Runs
        /\ job[r] \in JobRecs
        /\ "cont" \in Slots
    BY DEF TypeOK, ExType, AbType, AbortRecs, Slots
  <1>a. {"cancelCont", "waitCont", "cancel", "read", "reopen", "finalize",
         "publish", "mark", "abortQueued", "queuedPublish", "queuedMark"}
          \subseteq AbortPcs
    BY DEF AbortPcs
  <1>b. ab[a].cancelled \in BOOLEAN
    BY DEF TypeOK, AbortRecs
  <1>c. TRUE \in BOOLEAN /\ FALSE \in BOOLEAN
    OBVIOUS
  <1>1. CASE AppCancel(a)
    <2>1. AbType'
      BY <1>0, <1>1, <1>a, <1>c, AbortToEffect, ReturnEffect DEF AppCancel
    <2>2. ExType'
      BY <1>0, <1>1, CancelExecutionEffect DEF AppCancel, ExType
    <2> QED
      BY <1>1, <2>1, <2>2 DEF TypeOK, AppCancel, ExType, AbType
  <1>2. CASE AbortCancelCont(a)
    <2>1. AbType'
      BY <1>0, <1>2, <1>a, AbortToEffect DEF AbortCancelCont
    <2>2. ex["cont"][r] \in ExecRecs
      BY <1>0 DEF ExType
    <2>3. CancelContext(ex["cont"][r], ex["cont"][r].gen) \in ExecRecs
      BY <2>2, CancelContextEffect
    <2>4. ExType'
      BY <1>0, <1>2, <2>3, ExecToEffect DEF AbortCancelCont, ExType
    <2> QED
      BY <1>2, <2>1, <2>4 DEF TypeOK, AbortCancelCont, ExType, AbType
  <1>3. CASE AbortWaitCont(a)
    <2>1. AbType'
      BY <1>0, <1>3, <1>a, <1>c, AbortToEffect, ReturnEffect DEF AbortWaitCont
    <2> QED
      BY <1>3, <2>1 DEF TypeOK, AbortWaitCont, AbType
  <1>4. CASE AbortCancel(a)
    <2>c. Cancellable(r) \in BOOLEAN
      BY <1>0 DEF Cancellable, JobRecs
    <2>r. [ab[a] EXCEPT !.pc = "read", !.cancelled = Cancellable(r)] \in AbortRecs
      BY <1>0, <1>a, <2>c DEF AbType, AbortRecs
    <2>1. AbType'
      BY <1>0, <1>4, <2>r DEF AbortCancel, AbType
    <2>2. ExType'
      BY <1>0, <1>4, CancelExecutionEffect DEF AbortCancel, ExType
    <2> QED
      BY <1>4, <2>1, <2>2 DEF TypeOK, AbortCancel, ExType, AbType
  <1>5. CASE AbortRead(a)
    <2>1. AbType'
      BY <1>0, <1>5, <1>a, <1>b, <1>c, AbortToEffect, ReturnEffect DEF AbortRead
    <2>f. faults' \in Nat
      <3>1. faults \in Nat
        BY DEF TypeOK
      <3>2. faults' = faults \/ faults' = faults + 1
        BY <1>5 DEF AbortRead
      <3> QED
        BY <3>1, <3>2
    <2> QED
      BY <1>5, <2>1, <2>f DEF TypeOK, AbortRead, AbType
  <1>6. CASE AbortReopen(a)
    <2>1. AbType'
      BY <1>0, <1>6, <1>a, AbortToEffect DEF AbortReopen
    <2> QED
      BY <1>0, <1>6, <2>1, JobReopenType DEF TypeOK, AbortReopen, AbType
  <1>7. CASE AbortFinalize(a)
    <2>1. AbType'
      BY <1>0, <1>7, <1>a, <1>c, AbortToEffect, ReturnEffect DEF AbortFinalize
    <2>2. row' \in [Runs -> RowStatuses]
      BY <1>7 DEF TypeOK, AbortFinalize, RowStatuses, FinishedRows
    <2>3. faults' \in Nat
      <3>1. faults \in Nat
        BY DEF TypeOK
      <3>2. faults' = faults \/ faults' = faults + 1
        BY <1>7 DEF AbortFinalize
      <3> QED
        BY <3>1, <3>2
    <2> QED
      BY <1>7, <2>1, <2>2, <2>3 DEF TypeOK, AbortFinalize, AbType
  <1>8. CASE AbortQueued(a)
    <2>1. AbType'
      BY <1>0, <1>8, <1>a, <1>c, AbortToEffect, ReturnEffect DEF AbortQueued
    <2>2. row' \in [Runs -> RowStatuses]
      BY <1>8 DEF TypeOK, AbortQueued, RowStatuses, FinishedRows
    <2>f. faults' \in Nat
      <3>1. faults \in Nat
        BY DEF TypeOK
      <3>2. faults' = faults \/ faults' = faults + 1
        BY <1>8 DEF AbortQueued
      <3> QED
        BY <3>1, <3>2
    <2> QED
      BY <1>8, <2>1, <2>2, <2>f DEF TypeOK, AbortQueued, AbType
  <1>9. CASE AbortPublish(a)
    <2>1. AbType'
      BY <1>0, <1>9, <1>a, <1>c, AbortToEffect, ReturnEffect DEF AbortPublish
    <2> QED
      BY <1>0, <1>9, <2>1, JobPublishType
      DEF TypeOK, AbortPublish, AbType, RowStatuses, FinishedRows
  <1>10. CASE AbortMark(a)
    <2>1. AbType'
      BY <1>0, <1>10, <1>c, ReturnEffect DEF AbortMark
    <2> QED
      BY <1>0, <1>10, <2>1, JobMarkType
      DEF TypeOK, AbortMark, AbType, RowStatuses, FinishedRows
  <1> QED
    BY <1>1, <1>2, <1>3, <1>4, <1>5, <1>6, <1>7, <1>8, <1>9, <1>10 DEF AbortStep

\* So does the start of one.
LEMMA AbortCallType ==
  ASSUME TypeOK, NEW a \in AbortCalls, NEW r \in Runs, AbortCall(a, r)
  PROVE  TypeOK'
  <1> DEFINE pc == IF a \in AppAborters THEN "app" ELSE "cancelCont"
  <1>a. pc \in AbortPcs
    BY DEF AbortPcs
  <1> HIDE DEF pc
  <1>b. ab' = [ab EXCEPT ![a] = [@ EXCEPT !.pc = pc, !.run = r]]
    BY DEF AbortCall, pc
  <1>1. ab' \in [AbortCalls -> AbortRecs]
    BY <1>a, <1>b DEF TypeOK, AbortRecs
  <1> QED
    BY <1>1 DEF TypeOK, AbortCall, AbortUnchanged

\* A resumption keeps the types.
LEMMA ResumeType ==
  ASSUME TypeOK, NEW p \in Resumers,
         ResumeStep(p) \/ \E r \in Runs : ResumeCall(p, r)
  PROVE  TypeOK'
  <1> USE DEF ResumeUnchanged
  <1> DEFINE q == re[p].run
  <1>0. /\ ExType /\ AbType /\ ReType
        /\ q \in Runs
        /\ job[q] \in JobRecs
        /\ "cont" \in Slots
        /\ pauses[q] \in Nat
    BY DEF TypeOK, ExType, AbType, ReType, ResumeRecs, Slots
  <1>a. {"reopen", "done", "publish", "begin", "cont"} \subseteq ResumePcs
    BY DEF ResumePcs
  <1>1. ASSUME NEW r \in Runs, ResumeCall(p, r) PROVE TypeOK'
    BY <1>1 DEF TypeOK, ResumeCall, ResumeRecs, ResumePcs
  <1>2. CASE ResumeCheck(p)
    <2>1. ReType'
      BY <1>0, <1>2, <1>a, ResumeToEffect DEF ResumeCheck
    <2> QED
      BY <1>2, <2>1 DEF TypeOK, ResumeCheck, ReType
  <1>3. CASE ResumeReopen(p)
    <2>1. ReType'
      BY <1>0, <1>3, <1>a, ResumeToEffect DEF ResumeReopen
    <2> QED
      BY <1>0, <1>3, <2>1, JobReopenType DEF TypeOK, ResumeReopen, ReType
  <1>4. CASE ResumePublish(p)
    <2>1. ReType'
      BY <1>0, <1>4, <1>a, ResumeToEffect DEF ResumePublish
    <2> QED
      BY <1>0, <1>4, <2>1, JobPublishType
      DEF TypeOK, ResumePublish, ReType, RowStatuses
  <1>5. CASE ResumeBegin(p)
    <2>1. ReType' /\ AbType'
      BY <1>0, <1>5, <1>a, ResumeToEffect, ResumeFailsEffect
      DEF ResumeBegin, AbType
    <2>2. [pc |-> "resume", ctx |-> "live", gen |-> pauses[q] + 1, st |-> "none"]
            \in ExecRecs
      <3>1. pauses[q] + 1 \in Nat
        BY <1>0
      <3> QED
        BY <3>1 DEF ExecRecs, ExecPcs, LivePcs, Contexts
    <2>3. ExType'
      BY <1>0, <1>5, <2>2, ExecToEffect DEF ResumeBegin, ExType
    <2> QED
      BY <1>5, <2>1, <2>3 DEF TypeOK, ResumeBegin, ReType, AbType, ExType
  <1>6. CASE ResumeRow(p)
    <2>1. ReType' /\ AbType'
      BY <1>0, <1>6, ResumeFailsEffect DEF ResumeRow, AbType, ReType
    <2>2. {"attach", "off"} \subseteq ExecPcs
      BY DEF ExecPcs, LivePcs
    <2>3. ExType'
      BY <1>0, <1>6, <2>2, GotoEffect DEF ResumeRow
    <2> QED
      BY <1>6, <2>1, <2>3
      DEF TypeOK, ResumeRow, ReType, AbType, ExType, RowStatuses
  <1>7. CASE ResumeReturn(p)
    <2>1. ReType' /\ AbType'
      BY <1>0, <1>7, <1>a, ResumeToEffect, ResumeFailsEffect
      DEF ResumeReturn, AbType
    <2> QED
      BY <1>7, <2>1 DEF TypeOK, ResumeReturn, ReType, AbType
  <1> QED
    BY <1>1, <1>2, <1>3, <1>4, <1>5, <1>6, <1>7 DEF ResumeStep

\* Stop, Crash, Start and its reconciliation keep the types.
LEMMA ProcessType ==
  ASSUME TypeOK,
         \/ RecoveryTick \/ Stop \/ Crash \/ Start \/ StartSignal
         \/ \E r \in Runs : Reconcile(r)
  PROVE  TypeOK'
  <1>0. todo.rows \subseteq Runs /\ todo.queued \in Nat
    BY DEF TypeOK, StartWork
  <1>a. NothingToDo \in StartWork
    BY DEF NothingToDo, StartWork
  <1>b. \A s \in Slots, r \in Runs : ex[s][r] \in ExecRecs
    BY DEF TypeOK
  <1>1. CASE RecoveryTick
    BY <1>1, MaxConcurrentType DEF TypeOK, RecoveryTick
  <1>2. CASE Stop
    <2>1. \A s \in Slots, r \in Runs :
            CancelContext(ex[s][r], ex[s][r].gen) \in ExecRecs
      BY <1>b, CancelContextEffect
    <2>2. ex' \in [Slots -> [Runs -> ExecRecs]]
      BY <1>2, <2>1 DEF Stop
    <2> QED
      BY <1>2, <2>2 DEF TypeOK, Stop
  <1>3. CASE Crash
    <2>1. ex' \in [Slots -> [Runs -> ExecRecs]]
      BY <1>3 DEF Crash, NoExec, ExecRecs, ExecPcs, Contexts
    <2>2. worker' \in [Workers -> WorkerRecs]
      BY <1>3, AnyRunType DEF Crash, IdleWorker, WorkerRecs, WorkerPcs
    <2>3. ab' \in [AbortCalls -> AbortRecs]
      <3>1. ASSUME NEW a \in AbortCalls
            PROVE  /\ ab[a] \in AbortRecs
                   /\ [ab[a] EXCEPT !.pc = "returned", !.ok = FALSE] \in AbortRecs
        BY DEF TypeOK, AbortRecs, AbortPcs
      <3> QED
        BY <1>3, <3>1 DEF Crash
    <2>4. re' \in [Resumers -> ResumeRecs]
      BY <1>3 DEF TypeOK, Crash, ResumeRecs, ResumePcs
    <2>5. enq' \in [Runs -> EnqPcs]
      BY <1>3 DEF TypeOK, Crash, EnqPcs
    <2>6. crashes' \in Nat
      <3>1. crashes \in Nat /\ crashes' = crashes + 1
        BY <1>3 DEF TypeOK, Crash
      <3> QED
        BY <3>1
    <2> QED
      BY <1>3, <1>a, <2>1, <2>2, <2>3, <2>4, <2>5, <2>6, JobConstantsType
      DEF TypeOK, Crash
  <1>4. CASE Start
    <2>1. IsFiniteSet(Queued)
      BY RunnerAssumption, FS_Subset DEF Queued
    <2>2. Cardinality(Queued) \in Nat
      BY <2>1, FS_CardinalityType
    <2>3. todo' \in StartWork
      BY <1>4, <2>2 DEF Start, StartWork
    <2> QED
      BY <1>4, <2>3 DEF TypeOK, Start
  <1>5. CASE StartSignal
    BY <1>0, <1>5, <1>a, SignalledType DEF TypeOK, StartSignal
  <1>6. ASSUME NEW r \in Runs, Reconcile(r) PROVE TypeOK'
    <2>1. todo' \in StartWork
      BY <1>6 DEF TypeOK, Reconcile, StartWork
    <2>2. job' \in [Runs -> JobRecs]
      BY <1>6, JobMarkType DEF TypeOK, Reconcile, RowStatuses, FinishedRows
    <2>3. row' \in [Runs -> RowStatuses] /\ faults' \in Nat
      BY <1>6 DEF TypeOK, Reconcile, RowStatuses, FinishedRows
    <2> QED
      BY <1>6, <2>1, <2>2, <2>3 DEF TypeOK, Reconcile
  <1> QED
    BY <1>1, <1>2, <1>3, <1>4, <1>5, <1>6

\* Every step keeps the types.
LEMMA TypeStep == TypeOK /\ [Next]_vars => TypeOK'
  <1> SUFFICES ASSUME TypeOK, [Next]_vars PROVE TypeOK'
    OBVIOUS
  <1>1. CASE UNCHANGED vars
    BY <1>1 DEF TypeOK, vars
  <1>2. CASE Next
    BY <1>2, EnqueueType, WorkerType, ExecutionType, ExecEventType, AbortType,
       AbortCallType, ResumeType, ProcessType DEF Next
  <1> QED
    BY <1>1, <1>2

\* The rows, the registry's entries and the goroutines' states have their types
\* in every state the manager reaches.
THEOREM TypeCorrect == Spec => []TypeOK
  BY TypeInit, TypeStep, PTL DEF Spec
=============================================================================
