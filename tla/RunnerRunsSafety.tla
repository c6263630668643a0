-------------------------- MODULE RunnerRunsSafety --------------------------
(***************************************************************************)
(* The inductive invariant of RunnerRuns, the safety properties that       *)
(* follow from it, and the proof that the rows implement RunLifecycle.     *)
(***************************************************************************)
EXTENDS RunnerRunsProofs

-----------------------------------------------------------------------------
(* The inductive invariant. The safety properties are not inductive by       *)
(* themselves: what a conditional update will find depends on where every    *)
(* other goroutine is.                                                       *)

\* An execution in one of these pcs has not decided the fate of its row yet.
Deciding == AgentPcs \cup {"pause", "emit", "finalize"}

\* Before it is claimed, a run has no execution and asked for nothing; a paused
\* run asked for something.
RowInv ==
  \A r \in Runs :
    /\ row[r] = "approval_required" => pauses[r] > 0
    /\ row[r] \in {"none", "queued"} => pauses[r] = 0 /\ ex["worker"][r].pc = "off"
    /\ enq[r] \in {"idle", "insert"} => row[r] = "none"

\* Until it decides, the claiming worker alone moves the row: no pause has
\* happened, so there is no continuation and no abort of a paused row.
WorkerExecInv ==
  \A r \in Runs :
    /\ ex["worker"][r].pc # "resume"
    /\ ex["worker"][r].pc \in Deciding => row[r] = "running" /\ pauses[r] = 0

\* A continuation follows a pause. While it has not decided, the row can be
\* finished under it (by Abort), but it cannot be paused.
ContExecInv ==
  \A r \in Runs :
    /\ ex["cont"][r].pc # "off" => pauses[r] > 0
    /\ ex["cont"][r].pc \in Deciding => row[r] \in FinishedRows \cup {"running"}

\* Decided executions know their status; once it is in the row, it stays.
DecidedInv ==
  \A s \in Slots, r \in Runs :
    /\ ex[s][r].pc \in FinishPcs => ex[s][r].st \in FinishedRows
    /\ ex[s][r].pc \in {"publish", "mark"} => row[r] = ex[s][r].st

\* Abort finishes a row only after it has seen it paused, and tells the
\* registry only after it has aborted the row.
AbortInv ==
  \A a \in AbortCalls :
    /\ ab[a].pc \in {"reopen", "finalize"} => pauses[ab[a].run] > 0
    /\ ab[a].pc \in {"publish", "mark", "queuedPublish", "queuedMark"}
         => row[ab[a].run] = "aborted"

\* A resumption follows a pause.
ResumeInv ==
  \A p \in Resumers : re[p].pc \notin {"idle", "done"} => pauses[re[p].run] > 0

\* A worker's run was claimed, and by this worker only.
WorkerInv ==
  \A w \in Workers :
    worker[w].pc = "exec"
      => /\ row[worker[w].run] \notin {"none", "queued"}
         /\ \A v \in Workers : worker[v].pc = "exec"
              /\ worker[v].run = worker[w].run => v = w

\* A process that is down has no goroutines and no registry.
DownInv ==
  mgr = "down" =>
    /\ todo.rows = {}
    /\ \A r \in Runs : /\ enq[r] \in {"idle", "done"}
                       /\ ~job[r].present
                       /\ \A s \in Slots : ex[s][r].pc = "off"
    /\ \A p \in Resumers : re[p].pc \in {"idle", "done"}

\* The rows Start has to reconcile belong to the process before this one.
StartInv ==
  \A r \in todo.rows :
    /\ row[r] \notin {"none", "queued"}
    /\ enq[r] = "done"
    /\ ~job[r].present
    /\ \A s \in Slots : ex[s][r].pc = "off"
    /\ \A p \in Resumers : re[p].pc \notin {"idle", "done"} => re[p].run # r

IInv ==
  /\ TypeOK
  /\ RowInv /\ WorkerExecInv /\ ContExecInv /\ DecidedInv
  /\ AbortInv /\ ResumeInv /\ WorkerInv /\ DownInv /\ StartInv
  /\ FinishedJobMatchesRow /\ RunningRowOwned

\* The runs the goroutines and Start refer to are runs.
LEMMA RunsReferred ==
  ASSUME TypeOK
  PROVE  /\ \A a \in AbortCalls : ab[a].run \in Runs
         /\ \A p \in Resumers : re[p].run \in Runs
         /\ \A w \in Workers : worker[w].run \in Runs
         /\ todo.rows \subseteq Runs
  BY DEF TypeOK, AbortRecs, ResumeRecs, WorkerRecs, StartWork

-----------------------------------------------------------------------------
(* The registry's methods never make up a finished job.                      *)

\* k is what a method other than markTerminal leaves of an entry j.
JobKept(j, k) ==
  /\ k.present = j.present
  /\ k.terminal => j.terminal /\ k.status = j.status

\* Publish, Reopen and AttachCancel neither add an entry nor finish one.
LEMMA JobMethodsKeep ==
  ASSUME NEW j \in JobRecs, NEW st, NEW g
  PROVE  /\ JobKept(j, j)
         /\ JobKept(j, JobPublish(j, st))
         /\ JobKept(j, JobReopen(j))
         /\ JobKept(j, JobAttachCancel(j, g))
  BY DEF JobKept, JobPublish, JobReopen, JobAttachCancel, Accepts, JobRecs

\* markTerminal finishes an entry with the given status or leaves it alone.
LEMMA JobMarkKeeps ==
  ASSUME NEW j \in JobRecs, NEW st
  PROVE  /\ JobMarkTerminal(j, st).present = j.present
         /\ JobMarkTerminal(j, st).terminal
              => \/ JobMarkTerminal(j, st).status = st
                 \/ j.terminal /\ JobMarkTerminal(j, st).status = j.status
         /\ ~j.present => JobMarkTerminal(j, st) = j
  BY DEF JobMarkTerminal, Accepts, JobRecs

SamePresence == \A q \in Runs : job'[q].present = job[q].present

\* A failure is counted for good.
LEMMA FaultCounted ==
  ASSUME TypeOK, faults' = faults \/ faults' = faults + 1
  PROVE  faults' = faults \/ faults' # 0
  BY DEF TypeOK

\* When the rows stay and the entries are kept, finished jobs still match.
LEMMA JobsKept ==
  ASSUME FinishedJobMatchesRow, row' = row,
         \A q \in Runs : JobKept(job[q], job'[q])
  PROVE  FinishedJobMatchesRow' /\ SamePresence
  BY DEF FinishedJobMatchesRow, JobKept, SamePresence

\* A method called on the entry of run r keeps all the entries.
LEMMA JobKeptUpdate ==
  ASSUME TypeOK, NEW r \in Runs, NEW k, JobKept(job[r], k),
         job' = [job EXCEPT ![r] = k]
  PROVE  \A q \in Runs : JobKept(job[q], job'[q])
  BY DEF TypeOK, JobKept

-----------------------------------------------------------------------------
(* Steps that leave the rows alone.                                          *)

\* Execution (s, r) moves without deciding anything about its row.
LEMMA QuietExecution ==
  ASSUME IInv, TypeOK', NEW s \in Slots, NEW r \in Runs,
         UNCHANGED <<row, pauses, enq, worker, ab, re, mgr, todo, faults>>,
         \A t \in Slots, q \in Runs : t # s \/ q # r => ex'[t][q] = ex[t][q],
         ex[s][r].pc # "off",
         ex'[s][r].pc # "resume" \/ ex[s][r].pc = "resume",
         ex[s][r].pc \in Deciding <=> ex'[s][r].pc \in Deciding,
         ex'[s][r].pc \in FinishPcs => ex'[s][r].st \in FinishedRows,
         ex'[s][r].pc \in {"publish", "mark"} => row[r] = ex'[s][r].st,
         SamePresence, FinishedJobMatchesRow'
  PROVE  IInv'
  <1>1. RowInv'
    BY DEF IInv, RowInv, Slots
  <1>2. WorkerExecInv'
    BY DEF IInv, WorkerExecInv, Slots
  <1>3. ContExecInv'
    BY DEF IInv, ContExecInv, Slots
  <1>4. DecidedInv'
    BY DEF IInv, DecidedInv
  <1>5. AbortInv' /\ ResumeInv' /\ WorkerInv'
    BY DEF IInv, AbortInv, ResumeInv, WorkerInv
  <1>6. DownInv'
    BY DEF IInv, DownInv, SamePresence
  <1>7. StartInv'
    <2>1. r \notin todo.rows
      BY DEF IInv, StartInv
    <2>2. todo.rows \subseteq Runs
      BY DEF IInv, TypeOK, StartWork
    <2> QED
      BY <2>1, <2>2 DEF IInv, StartInv, SamePresence
  <1>8. RunningRowOwned'
    BY DEF IInv, RunningRowOwned, Deciding, Up
  <1> QED
    BY <1>1, <1>2, <1>3, <1>4, <1>5, <1>6, <1>7, <1>8 DEF IInv

\* An abort call moves; executions stay where they are (their contexts may be
\* cancelled).
LEMMA QuietAbort ==
  ASSUME IInv, TypeOK', NEW a \in AbortCalls,
         UNCHANGED <<row, pauses, enq, worker, re, mgr, todo>>,
         faults' = faults \/ faults' # 0,
         SamePlaces, SamePresence, FinishedJobMatchesRow',
         \A b \in AbortCalls : b # a => ab'[b] = ab[b],
         ab'[a].pc \in {"reopen", "finalize"} => pauses[ab'[a].run] > 0,
         ab'[a].pc \in {"publish", "mark", "queuedPublish", "queuedMark"}
           => row[ab'[a].run] = "aborted"
  PROVE  IInv'
  <1>1. RowInv'
    BY DEF IInv, RowInv, SamePlaces, Slots
  <1>2. WorkerExecInv' /\ ContExecInv'
    BY DEF IInv, WorkerExecInv, ContExecInv, SamePlaces, Slots
  <1>3. DecidedInv'
    BY DEF IInv, DecidedInv, SamePlaces
  <1>4. AbortInv'
    BY DEF IInv, AbortInv
  <1>5. ResumeInv' /\ WorkerInv'
    BY DEF IInv, ResumeInv, WorkerInv
  <1>6. DownInv'
    BY DEF IInv, DownInv, SamePresence, SamePlaces
  <1>7. StartInv'
    <2>1. todo.rows \subseteq Runs
      BY DEF IInv, TypeOK, StartWork
    <2> QED
      BY <2>1 DEF IInv, StartInv, SamePresence, SamePlaces
  <1>8. RunningRowOwned'
    BY DEF IInv, RunningRowOwned, SamePlaces, Up
  <1> QED
    BY <1>1, <1>2, <1>3, <1>4, <1>5, <1>6, <1>7, <1>8 DEF IInv

\* A resumption or its abort moves; nothing else does.
LEMMA QuietResume ==
  ASSUME IInv, TypeOK', NEW p \in Resumers,
         UNCHANGED <<row, pauses, enq, worker, ex, mgr, todo>>,
         faults' = faults \/ faults' # 0,
         SamePresence, FinishedJobMatchesRow',
         re[p].pc \notin {"idle", "done"},
         \A q \in Resumers : q # p => re'[q] = re[q],
         re'[p].run = re[p].run,
         \A b \in AbortCalls : ab'[b] = ab[b] \/ ab'[b].pc = "cancelCont"
  PROVE  IInv'
  <1>1. RowInv' /\ WorkerExecInv' /\ ContExecInv' /\ DecidedInv' /\ WorkerInv'
    BY DEF IInv, RowInv, WorkerExecInv, ContExecInv, DecidedInv, WorkerInv
  <1>2. AbortInv'
    BY DEF IInv, AbortInv
  <1>3. ResumeInv'
    BY DEF IInv, ResumeInv
  <1>4. DownInv'
    BY DEF IInv, DownInv, SamePresence
  <1>5. StartInv'
    <2>1. todo.rows \subseteq Runs
      BY DEF IInv, TypeOK, StartWork
    <2> QED
      BY <2>1 DEF IInv, StartInv, SamePresence
  <1>6. RunningRowOwned'
    BY DEF IInv, RunningRowOwned, Up
  <1> QED
    BY <1>1, <1>2, <1>3, <1>4, <1>5, <1>6 DEF IInv

-----------------------------------------------------------------------------
(* The steps of an execution.                                                *)

\* What an execution does to its row is FinalizeRunnerRun or
\* MarkRunnerRunApprovalRequired; nothing else it does decides anything.
LEMMA QuietExecSteps ==
  ASSUME IInv, NEW s \in Slots, NEW r \in Runs,
         \/ ExecAttach(s, r) \/ ExecStarted(s, r) \/ ExecEmit(s, r)
         \/ ExecPublish(s, r) \/ PauseEmit(s, r) \/ PausePublish(s, r)
  PROVE  IInv'
  <1> USE DEF ExecUnchanged
  <1>0. TypeOK /\ ExType /\ FinishedJobMatchesRow
    BY DEF IInv, TypeOK, ExType
  <1>1. TypeOK'
    BY <1>0, ExecutionType DEF Execution
  <1>2. PICK st : job' = [job EXCEPT ![r] = JobPublish(@, st)]
                  \/ \E g : job' = [job EXCEPT ![r] = JobAttachCancel(@, g)]
    BY DEF ExecAttach, ExecStarted, ExecEmit, ExecPublish, PauseEmit, PausePublish
  <1>3. job[r] \in JobRecs
    BY <1>0 DEF TypeOK
  <1>4. \A q \in Runs : JobKept(job[q], job'[q])
    <2>1. CASE job' = [job EXCEPT ![r] = JobPublish(@, st)]
      BY <1>0, <1>3, <2>1, JobMethodsKeep, JobKeptUpdate
    <2>2. ASSUME NEW g, job' = [job EXCEPT ![r] = JobAttachCancel(@, g)]
          PROVE  \A q \in Runs : JobKept(job[q], job'[q])
      BY <1>0, <1>3, <2>2, JobMethodsKeep, JobKeptUpdate
    <2> QED
      BY <1>2, <2>1, <2>2
  <1>5. UNCHANGED <<row, pauses, enq, worker, ab, re, mgr, todo, faults>>
    BY DEF ExecAttach, ExecStarted, ExecEmit, ExecPublish, PauseEmit, PausePublish
  <1>6. FinishedJobMatchesRow' /\ SamePresence
    BY <1>0, <1>4, <1>5, JobsKept
  <1>7. ASSUME NEW pc \in {"started", "running", "finalize", "mark", "off",
                           "pausePublish", "pauseMark"},
               Goto(s, r, pc)
        PROVE  /\ ex'[s][r].pc = pc
               /\ ex'[s][r].st = ex[s][r].st
               /\ \A t \in Slots, q \in Runs :
                    t # s \/ q # r => ex'[t][q] = ex[t][q]
    <2>1. pc \in ExecPcs
      BY DEF ExecPcs, LivePcs, PausePcs, FinishPcs
    <2> QED
      BY <1>0, <1>7, <2>1, GotoEffect
  <1>8. \E pc \in {"started", "running", "finalize", "mark", "off",
                   "pausePublish", "pauseMark"} :
          /\ Goto(s, r, pc)
          /\ ex[s][r].pc # "off"
          /\ ex[s][r].pc \in Deciding <=> pc \in Deciding
          /\ pc = "mark" => ex[s][r].pc = "publish"
          /\ pc = "finalize" => ex[s][r].pc = "emit"
    BY DEF ExecAttach, ExecStarted, ExecEmit, ExecPublish, PauseEmit,
       PausePublish, Deciding, AgentPcs
  <1>9. PICK pc \in {"started", "running", "finalize", "mark", "off",
                    "pausePublish", "pauseMark"} :
          /\ Goto(s, r, pc)
          /\ ex[s][r].pc # "off"
          /\ ex[s][r].pc \in Deciding <=> pc \in Deciding
          /\ pc = "mark" => ex[s][r].pc = "publish"
          /\ pc = "finalize" => ex[s][r].pc = "emit"
    BY <1>8
  <1>10. /\ pc \in FinishPcs => ex[s][r].st \in FinishedRows
         /\ pc \in {"publish", "mark"} => row[r] = ex[s][r].st
    BY <1>9 DEF IInv, DecidedInv, FinishPcs
  <1> QED
    BY <1>1, <1>5, <1>6, <1>7, <1>9, <1>10, QuietExecution

\* markTerminal: the status it writes is the row's, or approval_required.
LEMMA MarkSteps ==
  ASSUME IInv, NEW s \in Slots, NEW r \in Runs,
         ExecMark(s, r) \/ PauseMark(s, r)
  PROVE  IInv'
  <1> USE DEF ExecUnchanged
  <1>0. TypeOK /\ ExType
    BY DEF IInv, TypeOK, ExType
  <1>1. TypeOK'
    BY <1>0, ExecutionType DEF Execution
  <1>2. PICK st : /\ job' = [job EXCEPT ![r] = JobMarkTerminal(@, st)]
                  /\ \/ st = "approval_required"
                     \/ row[r] \in FinishedRows /\ st = JobStatusOf(row[r])
    <2>1. CASE ExecMark(s, r)
      <3>1. row[r] = ex[s][r].st /\ ex[s][r].st \in FinishedRows
        BY <2>1 DEF ExecMark, IInv, DecidedInv, FinishPcs
      <3> QED
        BY <2>1, <3>1 DEF ExecMark
    <2> QED
      BY <2>1 DEF PauseMark
  <1>3. job[r] \in JobRecs /\ job \in [Runs -> JobRecs]
    BY <1>0 DEF TypeOK
  <1>4. UNCHANGED <<row, pauses, enq, worker, ab, re, mgr, todo, faults>>
    BY DEF ExecMark, PauseMark
  <1>5. /\ job'[r] = JobMarkTerminal(job[r], st)
        /\ \A q \in Runs : q # r => job'[q] = job[q]
    BY <1>2, <1>3
  <1>6. SamePresence
    BY <1>3, <1>5, JobMarkKeeps DEF SamePresence
  <1>7. FinishedJobMatchesRow'
    BY <1>2, <1>3, <1>4, <1>5, JobMarkKeeps DEF IInv, FinishedJobMatchesRow
  <1>8. Goto(s, r, "off") /\ ex[s][r].pc \in {"mark", "pauseMark"}
    BY DEF ExecMark, PauseMark
  <1>9. /\ ex'[s][r].pc = "off"
        /\ \A t \in Slots, q \in Runs : t # s \/ q # r => ex'[t][q] = ex[t][q]
    <2>1. "off" \in ExecPcs
      BY DEF ExecPcs
    <2> QED
      BY <1>0, <1>8, <2>1, GotoEffect
  <1>10. ex[s][r].pc \in Deciding <=> ex'[s][r].pc \in Deciding
    BY <1>8, <1>9 DEF Deciding, AgentPcs
  <1> QED
    BY <1>1, <1>4, <1>6, <1>7, <1>8, <1>9, <1>10, QuietExecution DEF FinishPcs

\* The agent ends, asks for an approval or breaks: the execution decides what
\* it will do, and has not done it.
LEMMA DecidingSteps ==
  ASSUME IInv, NEW s \in Slots, NEW r \in Runs,
         \/ ExecAsksApproval(s, r) \/ ExecEnds(s, r)
         \/ s = "worker" /\ ExecBreaks(r)
  PROVE  IInv'
  <1> USE DEF ExecUnchanged
  <1>0. TypeOK /\ ExType /\ FinishedJobMatchesRow
    BY DEF IInv, TypeOK, ExType
  <1>1. TypeOK'
    BY <1>0, ExecutionType, ExecEventType DEF Execution
  <1>2. UNCHANGED <<row, job, pauses, enq, worker, ab, re, mgr, todo, faults>>
    BY DEF ExecAsksApproval, ExecEnds, ExecBreaks
  <1>3. FinishedJobMatchesRow' /\ SamePresence
    BY <1>0, <1>2 DEF FinishedJobMatchesRow, SamePresence
  <1>4. ex[s][r].ctx \in Contexts
    BY <1>0 DEF ExType, ExecRecs
  <1>5. /\ ex[s][r].pc \in AgentPcs
        /\ \/ Goto(s, r, "pause")
           \/ \E st \in FinishedRows :
                Decide(s, r, "emit", st) \/ Decide(s, r, "finalize", st)
    BY <1>4, OutcomeType
    DEF ExecAsksApproval, ExecEnds, ExecBreaks, AgentPcs, FinishedRows
  <1>6. {"pause", "emit", "finalize"} \subseteq ExecPcs
    BY DEF ExecPcs, PausePcs, FinishPcs
  <1>7. /\ ex'[s][r].pc \in {"pause", "emit", "finalize"}
        /\ ex'[s][r].pc # "pause" => ex'[s][r].st \in FinishedRows
        /\ \A t \in Slots, q \in Runs : t # s \/ q # r => ex'[t][q] = ex[t][q]
    BY <1>0, <1>5, <1>6, GotoEffect, DecideEffect
  <1>8. /\ ex[s][r].pc \in Deciding
        /\ ex'[s][r].pc \in Deciding
        /\ ex[s][r].pc # "off"
        /\ "pause" \notin FinishPcs
    BY <1>5, <1>7 DEF Deciding, AgentPcs, FinishPcs
  <1> QED
    BY <1>1, <1>2, <1>3, <1>7, <1>8, QuietExecution

\* A deadline leaves the execution where it is.
LEMMA DeadlineStep ==
  ASSUME IInv, NEW r \in Runs, ExecDeadline(r)
  PROVE  IInv'
  <1> USE DEF ExecUnchanged
  <1>0. TypeOK /\ ExType /\ "worker" \in Slots /\ ex["worker"][r] \in ExecRecs
    BY DEF IInv, TypeOK, ExType, Slots
  <1>1. TypeOK'
    BY <1>0, ExecEventType
  <1> DEFINE e == [ex["worker"][r] EXCEPT !.ctx = "deadline"]
  <1>2. /\ e \in ExecRecs
        /\ e.pc = ex["worker"][r].pc
        /\ e.st = ex["worker"][r].st
    BY <1>0 DEF ExecRecs, Contexts
  <1>3. ExecTo("worker", r, e) /\ ex["worker"][r].pc # "off"
    BY DEF ExecDeadline, LivePcs
  <1> HIDE DEF e
  <1>4. /\ ex'["worker"][r] = e
        /\ \A t \in Slots, q \in Runs :
             t # "worker" \/ q # r => ex'[t][q] = ex[t][q]
    BY <1>0, <1>2, <1>3, ExecToEffect
  <1>5. UNCHANGED <<row, job, pauses, enq, worker, ab, re, mgr, todo, faults>>
    BY DEF ExecDeadline
  <1>6. FinishedJobMatchesRow' /\ SamePresence
    BY <1>5 DEF IInv, FinishedJobMatchesRow, SamePresence
  <1>7. /\ e.pc \in FinishPcs => e.st \in FinishedRows
        /\ e.pc \in {"publish", "mark"} => row[r] = e.st
    BY <1>0, <1>2 DEF IInv, DecidedInv
  <1> QED
    BY <1>0, <1>1, <1>2, <1>3, <1>4, <1>5, <1>6, <1>7, QuietExecution

\* FinalizeRunnerRun writes a finished status into an open row only. A worker
\* finds its own "running" row; a continuation cannot find a paused one.
LEMMA FinalizeStep ==
  ASSUME IInv, NEW s \in Slots, NEW r \in Runs, ExecFinalize(s, r)
  PROVE  IInv'
  <1>0. TypeOK /\ ExType
    BY DEF IInv, TypeOK, ExType
  <1>1. TypeOK'
    BY <1>0, ExecutionType DEF Execution
  <1>2. UNCHANGED <<job, pauses, enq, worker, ab, re, mgr, todo>>
    BY DEF ExecFinalize, ExecUnchanged
  <1>3. ex[s][r].pc = "finalize" /\ ex[s][r].st \in FinishedRows
    BY DEF IInv, DecidedInv, FinishPcs, ExecFinalize
  <1>4. \/ /\ Goto(s, r, "publish")
           /\ row[r] \in OpenRows
           /\ row' = [row EXCEPT ![r] = ex[s][r].st]
           /\ faults' = faults
        \/ Goto(s, r, "off") /\ row[r] \notin OpenRows /\ UNCHANGED <<row, faults>>
        \/ Goto(s, r, "off") /\ UNCHANGED row /\ faults' = faults + 1
    BY DEF ExecFinalize
  <1>5. {"publish", "off"} \subseteq ExecPcs
    BY DEF ExecPcs, FinishPcs
  <1>6. /\ ex'[s][r].pc \in {"publish", "off"}
        /\ ex'[s][r].st = ex[s][r].st
        /\ ex'[s][r].pc = "publish" => row'[r] = ex[s][r].st
        /\ \A t \in Slots, q \in Runs : t # s \/ q # r => ex'[t][q] = ex[t][q]
    BY <1>0, <1>4, <1>5, GotoEffect DEF TypeOK
  <1>7. \A q \in Runs : \/ row'[q] = row[q]
                        \/ q = r /\ row[r] \in OpenRows /\ row'[r] = ex[s][r].st
    BY <1>0, <1>4 DEF TypeOK
  <1>8. RowInv'
    BY <1>2, <1>3, <1>6, <1>7
    DEF IInv, RowInv, WorkerExecInv, Deciding, FinishedRows, OpenRows, Slots
  <1>9. WorkerExecInv'
    BY <1>2, <1>3, <1>6, <1>7 DEF IInv, WorkerExecInv, ContExecInv, Deciding,
       AgentPcs, FinishedRows, OpenRows, Slots
  <1>10. ContExecInv'
    BY <1>2, <1>3, <1>6, <1>7 DEF IInv, WorkerExecInv, ContExecInv, Deciding,
       AgentPcs, FinishedRows, OpenRows, Slots
  <1>11. DecidedInv'
    BY <1>3, <1>6, <1>7
    DEF IInv, DecidedInv, FinishPcs, FinishedRows, OpenRows, Slots
  <1>12. AbortInv' /\ ResumeInv'
    BY <1>0, <1>2, <1>7
    DEF IInv, TypeOK, AbortRecs, AbortInv, ResumeInv, OpenRows
  <1>13. WorkerInv'
    BY <1>0, <1>2, <1>3, <1>7
    DEF IInv, TypeOK, WorkerRecs, WorkerInv, FinishedRows
  <1>14. DownInv' /\ StartInv'
    BY <1>0, <1>2, <1>3, <1>6, <1>7
    DEF IInv, TypeOK, StartWork, DownInv, StartInv, FinishedRows
  <1>15. FinishedJobMatchesRow'
    BY <1>2, <1>7 DEF IInv, FinishedJobMatchesRow, FinishedRows, OpenRows
  <1>16. RunningRowOwned'
    <2>1. faults' = 0 => faults = 0 /\ row'[r] # "running"
      <3>1. faults \in Nat
        BY <1>0 DEF TypeOK
      <3>2. faults' # faults + 1 => faults' = faults /\ row'[r] # "running"
        BY <1>0, <1>3, <1>4 DEF TypeOK, OpenRows, FinishedRows
      <3> QED
        BY <3>1, <3>2
    <2>2. \A q \in Runs : row'[q] = "running" => row[q] = "running"
      BY <1>3, <1>7 DEF FinishedRows
    <2> QED
      BY <1>2, <1>6, <2>1, <2>2 DEF IInv, RunningRowOwned, Up
  <1> QED
    BY <1>1, <1>8, <1>9, <1>10, <1>11, <1>12, <1>13, <1>14, <1>15, <1>16 DEF IInv

\* MarkRunnerRunApprovalRequired pauses a running row only.
LEMMA PauseStep ==
  ASSUME IInv, NEW s \in Slots, NEW r \in Runs, PauseRow(s, r)
  PROVE  IInv'
  <1>0. TypeOK /\ ExType /\ pauses[r] \in Nat
    BY DEF IInv, TypeOK, ExType
  <1>1. TypeOK'
    BY <1>0, ExecutionType DEF Execution
  <1>2. UNCHANGED <<job, enq, worker, ab, re, mgr, todo>>
    BY DEF PauseRow, ExecUnchanged
  <1>3. ex[s][r].pc = "pause"
    BY DEF PauseRow
  <1>4. \/ /\ Goto(s, r, "pauseEmit")
           /\ row[r] = "running"
           /\ row' = [row EXCEPT ![r] = "approval_required"]
           /\ pauses' = [pauses EXCEPT ![r] = @ + 1]
           /\ faults' = faults
        \/ Goto(s, r, "off") /\ row[r] # "running" /\ UNCHANGED <<row, pauses, faults>>
        \/ Goto(s, r, "off") /\ UNCHANGED <<row, pauses>> /\ faults' = faults + 1
    BY DEF PauseRow
  <1>5. {"pauseEmit", "off"} \subseteq ExecPcs
    BY DEF ExecPcs, PausePcs
  <1>6. /\ ex'[s][r].pc \in {"pauseEmit", "off"}
        /\ \A t \in Slots, q \in Runs : t # s \/ q # r => ex'[t][q] = ex[t][q]
    BY <1>0, <1>4, <1>5, GotoEffect
  <1>7. \A q \in Runs : \/ row'[q] = row[q] /\ pauses'[q] = pauses[q]
                        \/ /\ q = r
                           /\ row[r] = "running"
                           /\ row'[r] = "approval_required"
                           /\ pauses'[r] > 0
    BY <1>0, <1>4 DEF TypeOK
  <1>8. RowInv'
    BY <1>2, <1>3, <1>6, <1>7 DEF IInv, RowInv, Slots
  <1>9. WorkerExecInv' /\ ContExecInv'
    BY <1>2, <1>3, <1>6, <1>7 DEF IInv, WorkerExecInv, ContExecInv, Deciding,
       AgentPcs, FinishedRows, Slots
  <1>10. DecidedInv'
    BY <1>3, <1>6, <1>7 DEF IInv, DecidedInv, FinishPcs, FinishedRows, Slots
  <1>11. AbortInv' /\ ResumeInv'
    BY <1>0, <1>2, <1>7
    DEF IInv, TypeOK, AbortRecs, ResumeRecs, AbortInv, ResumeInv
  <1>12. WorkerInv'
    BY <1>0, <1>2, <1>3, <1>7 DEF IInv, TypeOK, WorkerRecs, WorkerInv
  <1>13. DownInv' /\ StartInv'
    BY <1>0, <1>2, <1>3, <1>6, <1>7
    DEF IInv, TypeOK, StartWork, DownInv, StartInv
  <1>14. FinishedJobMatchesRow'
    BY <1>2, <1>7 DEF IInv, FinishedJobMatchesRow, FinishedRows
  <1>15. RunningRowOwned'
    BY <1>0, <1>2, <1>3, <1>4, <1>6, <1>7 DEF IInv, TypeOK, RunningRowOwned, Up
  <1> QED
    BY <1>1, <1>8, <1>9, <1>10, <1>11, <1>12, <1>13, <1>14, <1>15 DEF IInv

-----------------------------------------------------------------------------
(* The steps of an abort.                                                    *)

\* Until it writes a row, an abort only reads, cancels contexts and reopens.
LEMMA QuietAbortSteps ==
  ASSUME IInv, NEW a \in AbortCalls,
         \/ \E r \in Runs : AbortCall(a, r)
         \/ AppCancel(a) \/ AbortCancelCont(a) \/ AbortWaitCont(a)
         \/ AbortCancel(a) \/ AbortRead(a) \/ AbortReopen(a) \/ AbortPublish(a)
  PROVE  IInv'
  <1> USE DEF AbortUnchanged
  <1> DEFINE r == ab[a].run
  <1>0. /\ TypeOK /\ ExType /\ AbType
        /\ FinishedJobMatchesRow
        /\ r \in Runs
        /\ job[r] \in JobRecs
        /\ "cont" \in Slots
    BY DEF IInv, TypeOK, ExType, AbType, AbortRecs, Slots
  <1>1. TypeOK'
    BY <1>0, AbortType, AbortCallType DEF AbortStep
  <1>2. UNCHANGED <<row, pauses, enq, worker, re, mgr, todo>>
    BY DEF AbortCall, AppCancel, AbortCancelCont, AbortWaitCont, AbortCancel,
       AbortRead, AbortReopen, AbortPublish
  <1>f. faults' = faults \/ faults' # 0
    <2>1. faults' = faults \/ faults' = faults + 1
      BY DEF AbortCall, AppCancel, AbortCancelCont, AbortWaitCont, AbortCancel,
         AbortRead, AbortReopen, AbortPublish
    <2> QED
      BY <1>0, <2>1, FaultCounted
  <1>3. SamePlaces
    <2>1. CASE ex' = ex
      BY <2>1 DEF SamePlaces
    <2>2. CASE ex' = CancelExecution(r, job[r].cancel)
      BY <1>0, <2>2, CancelExecutionEffect
    <2>3. CASE ExecTo("cont", r, CancelContext(ex["cont"][r], ex["cont"][r].gen))
      <3>1. ex["cont"][r] \in ExecRecs
        BY <1>0 DEF ExType
      <3> QED
        BY <1>0, <2>3, <3>1, CancelContextEffect, ExecToEffect DEF SamePlaces
    <2> QED
      BY <2>1, <2>2, <2>3 DEF AbortCall, AppCancel, AbortCancelCont,
         AbortWaitCont, AbortCancel, AbortRead, AbortReopen, AbortPublish
  <1>4. \A q \in Runs : JobKept(job[q], job'[q])
    <2>1. CASE job' = job
      BY <2>1 DEF JobKept
    <2>2. CASE job' = [job EXCEPT ![r] = JobReopen(@)]
      BY <1>0, <2>2, JobMethodsKeep, JobKeptUpdate
    <2>3. CASE job' = [job EXCEPT ![r] = JobPublish(@, "aborted")]
      BY <1>0, <2>3, JobMethodsKeep, JobKeptUpdate
    <2> QED
      BY <2>1, <2>2, <2>3 DEF AbortCall, AppCancel, AbortCancelCont,
         AbortWaitCont, AbortCancel, AbortRead, AbortReopen, AbortPublish
  <1>5. FinishedJobMatchesRow' /\ SamePresence
    BY <1>0, <1>2, <1>4, JobsKept
  <1>6. /\ \A b \in AbortCalls : b # a => ab'[b] = ab[b]
        /\ ab'[a].pc \in {"reopen", "finalize"} => pauses[ab'[a].run] > 0
        /\ ab'[a].pc \in {"publish", "mark", "queuedPublish", "queuedMark"}
             => row[ab'[a].run] = "aborted"
    <2>1. CASE \E q \in Runs : AbortCall(a, q)
      <3>1. PICK q \in Runs : AbortCall(a, q)
        BY <2>1
      <3> DEFINE pc == IF a \in AppAborters THEN "app" ELSE "cancelCont"
      <3>2. pc \in {"app", "cancelCont"}
        OBVIOUS
      <3> HIDE DEF pc
      <3>3. ab' = [ab EXCEPT ![a] = [@ EXCEPT !.pc = pc, !.run = q]]
        BY <3>1 DEF AbortCall, pc
      <3> QED
        BY <1>0, <3>2, <3>3 DEF AbType, AbortRecs
    <2>2. CASE AppCancel(a)
      BY <1>0, <2>2 DEF AppCancel, AbortTo, Return, AbType, AbortRecs
    <2>3. CASE AbortCancelCont(a)
      BY <1>0, <2>3 DEF AbortCancelCont, AbortTo, AbType, AbortRecs
    <2>4. CASE AbortWaitCont(a)
      <3>1. "cancel" \in AbortPcs /\ FALSE \in BOOLEAN
        BY DEF AbortPcs
      <3> QED
        BY <1>0, <2>4, <3>1, AbortToEffect, ReturnEffect DEF AbortWaitCont
    <2>5. CASE AbortCancel(a)
      BY <1>0, <2>5 DEF AbortCancel, AbType, AbortRecs
    <2>6. CASE AbortRead(a)
      <3>1. row[r] = "approval_required" => pauses[r] > 0
        BY <1>0 DEF IInv, RowInv
      <3>2. \/ row[r] = "approval_required" /\ AbortTo(a, "reopen")
            \/ AbortTo(a, "abortQueued")
            \/ \E ok \in BOOLEAN : Return(a, ok)
        <4>1. ab[a].cancelled \in BOOLEAN
          BY <1>0 DEF AbType, AbortRecs
        <4> QED
          BY <2>6, <4>1 DEF AbortRead
      <3>3. {"reopen", "abortQueued"} \subseteq AbortPcs
        BY DEF AbortPcs
      <3> QED
        BY <1>0, <3>1, <3>2, <3>3, AbortToEffect, ReturnEffect
    <2>7. CASE AbortReopen(a)
      BY <1>0, <2>7 DEF IInv, AbortInv, AbortReopen, AbortTo, AbType, AbortRecs
    <2>8. CASE AbortPublish(a)
      <3>1. row[r] = "aborted"
        BY <2>8 DEF IInv, AbortInv, AbortPublish
      <3>2. AbortTo(a, "mark") \/ AbortTo(a, "queuedMark") \/ Return(a, TRUE)
        BY <2>8 DEF AbortPublish
      <3>3. {"mark", "queuedMark"} \subseteq AbortPcs /\ TRUE \in BOOLEAN
        BY DEF AbortPcs
      <3> QED
        BY <1>0, <3>1, <3>2, <3>3, AbortToEffect, ReturnEffect
    <2> QED
      BY <2>1, <2>2, <2>3, <2>4, <2>5, <2>6, <2>7, <2>8
  <1> QED
    BY <1>1, <1>2, <1>3, <1>5, <1>6, <1>f, QuietAbort

\* Abort's markTerminal finds the row aborted.
LEMMA AbortMarkStep ==
  ASSUME IInv, NEW a \in AbortCalls, AbortMark(a)
  PROVE  IInv'
  <1> DEFINE r == ab[a].run
  <1>0. /\ TypeOK /\ AbType
        /\ r \in Runs
        /\ job \in [Runs -> JobRecs] /\ job[r] \in JobRecs
    BY DEF IInv, TypeOK, AbType, AbortRecs
  <1>1. TypeOK'
    BY <1>0, AbortType DEF AbortStep
  <1>2. UNCHANGED <<row, ex, pauses, enq, worker, re, mgr, todo, faults>>
    BY DEF AbortMark, AbortUnchanged
  <1>3. row[r] = "aborted"
    BY DEF IInv, AbortInv, AbortMark
  <1>4. /\ job'[r] = JobMarkTerminal(job[r], "aborted")
        /\ \A q \in Runs : q # r => job'[q] = job[q]
    BY <1>0 DEF AbortMark
  <1>5. SamePresence
    BY <1>0, <1>4, JobMarkKeeps DEF SamePresence
  <1>6. FinishedJobMatchesRow'
    BY <1>0, <1>2, <1>3, <1>4, JobMarkKeeps
    DEF IInv, FinishedJobMatchesRow, FinishedRows, JobStatusOf
  <1>7. /\ ab'[a].pc = "returned"
        /\ \A b \in AbortCalls : b # a => ab'[b] = ab[b]
    BY <1>0, ReturnEffect DEF AbortMark
  <1>8. SamePlaces
    BY <1>2 DEF SamePlaces
  <1> QED
    BY <1>1, <1>2, <1>5, <1>6, <1>7, <1>8, QuietAbort

\* Abort writes a row that it saw paused (and that is still open), or one that
\* is still queued. No worker is on either.
LEMMA AbortRowSteps ==
  ASSUME IInv, NEW a \in AbortCalls, AbortFinalize(a) \/ AbortQueued(a)
  PROVE  IInv'
  <1> DEFINE r == ab[a].run
  <1>0. /\ TypeOK /\ AbType
        /\ r \in Runs
        /\ {"publish", "queuedPublish"} \subseteq AbortPcs
        /\ TRUE \in BOOLEAN /\ FALSE \in BOOLEAN
    BY DEF IInv, TypeOK, AbType, AbortRecs, AbortPcs
  <1>1. TypeOK'
    BY <1>0, AbortType DEF AbortStep
  <1>2. UNCHANGED <<job, ex, pauses, enq, worker, re, mgr, todo>>
    BY DEF AbortFinalize, AbortQueued, AbortUnchanged
  <1>3. \/ /\ row[r] = "queued" \/ (row[r] \in OpenRows /\ pauses[r] > 0)
           /\ row' = [row EXCEPT ![r] = "aborted"]
           /\ AbortTo(a, "publish") \/ AbortTo(a, "queuedPublish")
           /\ faults' = faults
        \/ /\ row' = row
           /\ Return(a, TRUE) \/ Return(a, FALSE)
           /\ faults' = faults \/ faults' = faults + 1
    <2>1. CASE AbortQueued(a)
      <3>1. CASE row[r] = "queued"
        BY <2>1, <3>1 DEF AbortQueued
      <3>2. CASE row[r] # "queued"
        BY <2>1, <3>2 DEF AbortQueued
      <3> QED
        BY <3>1, <3>2
    <2>2. CASE AbortFinalize(a)
      <3>1. pauses[r] > 0
        BY <2>2 DEF AbortFinalize, IInv, AbortInv
      <3> QED
        BY <2>2, <3>1 DEF AbortFinalize
    <2> QED
      BY <2>1, <2>2
  <1>4. CASE row' = row /\ (Return(a, TRUE) \/ Return(a, FALSE))
               /\ (faults' = faults \/ faults' = faults + 1)
    <2>1. /\ ab'[a].pc = "returned"
          /\ \A b \in AbortCalls : b # a => ab'[b] = ab[b]
      BY <1>0, <1>4, ReturnEffect
    <2>2. faults' = faults \/ faults' # 0
      BY <1>0, <1>4 DEF TypeOK
    <2>3. SamePlaces /\ SamePresence /\ FinishedJobMatchesRow'
      BY <1>2, <1>4 DEF IInv, SamePlaces, SamePresence, FinishedJobMatchesRow
    <2> QED
      BY <1>1, <1>2, <1>4, <2>1, <2>2, <2>3, QuietAbort
  <1>5. CASE /\ row[r] = "queued" \/ (row[r] \in OpenRows /\ pauses[r] > 0)
             /\ row' = [row EXCEPT ![r] = "aborted"]
             /\ AbortTo(a, "publish") \/ AbortTo(a, "queuedPublish")
             /\ faults' = faults
    <2>1. /\ ab'[a].pc \in {"publish", "queuedPublish"}
          /\ ab'[a].run = r
          /\ \A b \in AbortCalls : b # a => ab'[b] = ab[b]
      BY <1>0, <1>5, AbortToEffect
    <2>2. row'[r] = "aborted" /\ \A q \in Runs : q # r => row'[q] = row[q]
      BY <1>0, <1>5 DEF TypeOK
    <2>3. RowInv'
      BY <1>0, <1>2, <1>5, <2>2 DEF IInv, RowInv, OpenRows
    <2>4. WorkerExecInv' /\ ContExecInv'
      BY <1>0, <1>2, <1>5, <2>2
      DEF IInv, RowInv, WorkerExecInv, ContExecInv, FinishedRows, Deciding, AgentPcs
    <2>5. DecidedInv'
      BY <1>0, <1>2, <1>5, <2>2
      DEF IInv, DecidedInv, FinishPcs, FinishedRows, OpenRows
    <2>6. AbortInv' /\ ResumeInv'
      BY <1>0, <1>2, <1>5, <2>1, <2>2, RunsReferred
      DEF IInv, AbortInv, ResumeInv, OpenRows
    <2>7. WorkerInv'
      BY <1>0, <1>2, <2>2, RunsReferred DEF IInv, WorkerInv
    <2>8. DownInv' /\ StartInv'
      BY <1>0, <1>2, <2>2, RunsReferred DEF IInv, DownInv, StartInv
    <2>9. FinishedJobMatchesRow'
      BY <1>0, <1>2, <1>5, <2>2
      DEF IInv, FinishedJobMatchesRow, FinishedRows, OpenRows
    <2>10. RunningRowOwned'
      BY <1>0, <1>2, <1>5, <2>2 DEF IInv, RunningRowOwned, Up
    <2> QED
      BY <1>1, <2>3, <2>4, <2>5, <2>6, <2>7, <2>8, <2>9, <2>10 DEF IInv
  <1> QED
    BY <1>3, <1>4, <1>5

-----------------------------------------------------------------------------
(* The steps of a resumption.                                                *)

\* A resumption starts: its job showed approval_required, so this process
\* paused it and Start does not reconcile it.
LEMMA ResumeCallStep ==
  ASSUME IInv, NEW p \in Resumers, NEW r \in Runs, ResumeCall(p, r)
  PROVE  IInv'
  <1>0. TypeOK /\ ReType
    BY DEF IInv, TypeOK, ReType
  <1>1. TypeOK'
    BY <1>0, ResumeType
  <1>2. UNCHANGED <<row, job, ex, ab, pauses, enq, worker, mgr, todo, faults>>
    BY DEF ResumeCall, ResumeUnchanged
  <1>3. /\ re'[p].pc = "check" /\ re'[p].run = r
        /\ \A q \in Resumers : q # p => re'[q] = re[q]
    BY <1>0 DEF ResumeCall, ReType
  <1>4. pauses[r] > 0
    <2>1. IsFiniteSet(Resumed(r))
      BY RunnerAssumption, FS_Subset DEF Resumed
    <2>2. Cardinality(Resumed(r)) \in Nat /\ pauses[r] \in Nat
      BY <1>0, <2>1, FS_CardinalityType DEF TypeOK
    <2>3. Cardinality(Resumed(r)) < pauses[r]
      BY DEF ResumeCall
    <2> QED
      BY <2>2, <2>3
  <1>5. mgr # "down" /\ job[r].present
    BY DEF ResumeCall, Up
  <1>6. RowInv' /\ WorkerExecInv' /\ ContExecInv' /\ DecidedInv' /\ WorkerInv'
    BY <1>2 DEF IInv, RowInv, WorkerExecInv, ContExecInv, DecidedInv, WorkerInv
  <1>7. AbortInv' /\ FinishedJobMatchesRow' /\ RunningRowOwned'
    BY <1>2 DEF IInv, AbortInv, FinishedJobMatchesRow, RunningRowOwned, Up
  <1>8. ResumeInv'
    BY <1>2, <1>3, <1>4 DEF IInv, ResumeInv
  <1>9. DownInv' /\ StartInv'
    BY <1>2, <1>3, <1>5 DEF IInv, DownInv, StartInv
  <1> QED
    BY <1>1, <1>6, <1>7, <1>8, <1>9 DEF IInv

\* Its steps before and after the continuation change no row and no execution.
LEMMA QuietResumeSteps ==
  ASSUME IInv, NEW p \in Resumers,
         \/ ResumeCheck(p) \/ ResumeReopen(p) \/ ResumePublish(p)
         \/ ResumeReturn(p)
         \/ ResumeBegin(p) /\ UNCHANGED ex
  PROVE  IInv'
  <1> USE DEF ResumeUnchanged
  <1> DEFINE r == re[p].run
  <1>0. /\ TypeOK /\ ReType /\ AbType /\ ExType
        /\ FinishedJobMatchesRow
        /\ r \in Runs
        /\ job[r] \in JobRecs
        /\ "cont" \in Slots
        /\ {"reopen", "done", "publish", "begin", "cont"} \subseteq ResumePcs
    BY DEF IInv, TypeOK, ReType, AbType, ExType, ResumeRecs, ResumePcs, Slots
  <1>1. TypeOK'
    BY <1>0, ResumeType DEF ResumeStep
  <1>2. UNCHANGED <<row, ex, pauses, enq, worker, mgr, todo>>
    BY DEF ResumeCheck, ResumeReopen, ResumePublish, ResumeReturn, ResumeBegin
  <1>f. faults' = faults \/ faults' # 0
    <2>1. faults' = faults \/ faults' = faults + 1
      BY DEF ResumeCheck, ResumeReopen, ResumePublish, ResumeReturn, ResumeBegin
    <2> QED
      BY <1>0, <2>1, FaultCounted
  <1>3. \A q \in Runs : JobKept(job[q], job'[q])
    <2>1. CASE job' = job
      BY <2>1 DEF JobKept
    <2>2. CASE job' = [job EXCEPT ![r] = JobReopen(@)]
      BY <1>0, <2>2, JobMethodsKeep, JobKeptUpdate
    <2>3. CASE job' = [job EXCEPT ![r] = JobPublish(@, "running")]
      BY <1>0, <2>3, JobMethodsKeep, JobKeptUpdate
    <2> QED
      BY <2>1, <2>2, <2>3
      DEF ResumeCheck, ResumeReopen, ResumePublish, ResumeReturn, ResumeBegin
  <1>4. FinishedJobMatchesRow' /\ SamePresence
    BY <1>0, <1>2, <1>3, JobsKept
  <1>5. re[p].pc \notin {"idle", "done"}
    BY DEF ResumeCheck, ResumeReopen, ResumePublish, ResumeReturn, ResumeBegin
  <1>6. \/ \E pc \in {"reopen", "done", "publish", "begin", "cont"} :
             ResumeTo(p, pc) /\ UNCHANGED ab
        \/ ResumeFails(p, r)
    <2>1. CASE ResumeCheck(p)
      BY <2>1 DEF ResumeCheck
    <2>2. CASE ResumeReopen(p) \/ ResumePublish(p)
      BY <2>2 DEF ResumeReopen, ResumePublish
    <2>3. CASE ResumeReturn(p)
      BY <2>3 DEF ResumeReturn
    <2>4. CASE ResumeBegin(p)
      <3>1. CASE mgr = "stopping" \/ ex["cont"][r].pc # "off"
        BY <2>4, <3>1 DEF ResumeBegin
      <3>2. CASE ~(mgr = "stopping" \/ ex["cont"][r].pc # "off")
        BY <2>4, <3>2 DEF ResumeBegin
      <3> QED
        BY <3>1, <3>2
    <2> QED
      BY <2>1, <2>2, <2>3, <2>4
  <1>7. /\ \A q \in Resumers : q # p => re'[q] = re[q]
        /\ re'[p].run = re[p].run
        /\ \A b \in AbortCalls : ab'[b] = ab[b] \/ ab'[b].pc = "cancelCont"
    BY <1>0, <1>6, ResumeToEffect, ResumeFailsEffect
  <1> QED
    BY <1>1, <1>2, <1>4, <1>5, <1>7, <1>f, QuietResume

\* A continuation is registered when there is none: it has not touched the row.
LEMMA ResumeBeginStep ==
  ASSUME IInv, NEW p \in Resumers, ResumeBegin(p)
  PROVE  IInv'
  <1> DEFINE r == re[p].run
             e == [pc |-> "resume", ctx |-> "live", gen |-> pauses[r] + 1,
                   st |-> "none"]
  <1>0. TypeOK /\ ReType /\ ExType /\ r \in Runs /\ "cont" \in Slots
    BY DEF IInv, TypeOK, ReType, ExType, ResumeRecs, Slots
  <1>1. TypeOK'
    BY <1>0, ResumeType DEF ResumeStep
  <1>2. CASE ex' = ex
    BY <1>2, QuietResumeSteps
  <1>3. CASE ex["cont"][r].pc = "off" /\ ExecTo("cont", r, e)
               /\ ResumeTo(p, "cont") /\ UNCHANGED <<ab, faults>>
    <2>1. e \in ExecRecs
      <3>1. pauses[r] + 1 \in Nat
        BY <1>0 DEF TypeOK
      <3> QED
        BY <3>1 DEF ExecRecs, ExecPcs, LivePcs, Contexts
    <2>2. /\ ExecTo("cont", r, e)
          /\ ResumeTo(p, "cont")
          /\ re[p].pc = "begin"
          /\ UNCHANGED <<row, job, ab, pauses, enq, worker, mgr, todo, faults>>
      BY <1>3 DEF ResumeBegin, ResumeUnchanged
    <2>3. e.pc = "resume"
      OBVIOUS
    <2> HIDE DEF e
    <2>4. /\ ex'["cont"][r] = e
          /\ \A t \in Slots, q \in Runs :
               t # "cont" \/ q # r => ex'[t][q] = ex[t][q]
      BY <1>0, <2>1, <2>2, ExecToEffect
    <2>5. /\ re'[p].pc = "cont" /\ re'[p].run = r
          /\ \A q \in Resumers : q # p => re'[q] = re[q]
      <3>1. "cont" \in ResumePcs
        BY DEF ResumePcs
      <3> QED
        BY <1>0, <2>2, <3>1, ResumeToEffect
    <2>6. pauses[r] > 0
      BY <2>2 DEF IInv, ResumeInv
    <2>7. RowInv' /\ WorkerExecInv'
      BY <2>2, <2>4 DEF IInv, RowInv, WorkerExecInv, Slots
    <2>8. ContExecInv'
      BY <1>0, <2>2, <2>3, <2>4, <2>6
      DEF IInv, ContExecInv, Deciding, AgentPcs
    <2>9. DecidedInv'
      BY <2>2, <2>3, <2>4 DEF IInv, DecidedInv, FinishPcs
    <2>10. AbortInv' /\ WorkerInv' /\ FinishedJobMatchesRow'
      BY <2>2 DEF IInv, AbortInv, WorkerInv, FinishedJobMatchesRow
    <2>11. ResumeInv'
      BY <2>2, <2>5, <2>6 DEF IInv, ResumeInv
    <2>12. DownInv'
      BY <2>2, <2>4, <2>5 DEF IInv, DownInv
    <2>13. StartInv'
      <3>1. r \notin todo.rows
        BY <2>2 DEF IInv, StartInv
      <3> QED
        BY <1>0, <2>2, <2>4, <2>5, <3>1, RunsReferred DEF IInv, StartInv
    <2>14. RunningRowOwned'
      BY <1>3, <2>2, <2>4 DEF IInv, RunningRowOwned, Up, AgentPcs
    <2> QED
      BY <1>1, <2>7, <2>8, <2>9, <2>10, <2>11, <2>12, <2>13, <2>14 DEF IInv
  <1> QED
    BY <1>2, <1>3 DEF ResumeBegin

\* ResumeRunnerRunAfterApproval makes an open row a running one, owned by the
\* continuation, or ends the continuation.
LEMMA ResumeRowStep ==
  ASSUME IInv, NEW p \in Resumers, ResumeRow(p)
  PROVE  IInv'
  <1> DEFINE r == re[p].run
  <1>0. /\ TypeOK /\ ReType /\ AbType /\ ExType
        /\ r \in Runs
        /\ "cont" \in Slots
        /\ {"attach", "off"} \subseteq ExecPcs
    BY DEF IInv, TypeOK, ReType, AbType, ExType, ResumeRecs, Slots, ExecPcs,
       LivePcs
  <1>1. TypeOK'
    BY <1>0, ResumeType DEF ResumeStep
  <1>2. /\ ex["cont"][r].pc = "resume"
        /\ re[p].pc = "cont"
        /\ UNCHANGED <<job, pauses, enq, worker, mgr, todo>>
    BY DEF ResumeRow, ResumeUnchanged
  <1>f. faults' = faults \/ faults' # 0
    <2>1. faults' = faults \/ faults' = faults + 1
      BY DEF ResumeRow
    <2> QED
      BY <1>0, <2>1, FaultCounted
  <1>3. \/ /\ row[r] \in OpenRows
           /\ row' = [row EXCEPT ![r] = "running"]
           /\ Goto("cont", r, "attach")
           /\ UNCHANGED <<re, ab>>
        \/ Goto("cont", r, "off") /\ ResumeFails(p, r) /\ UNCHANGED row
    BY DEF ResumeRow
  <1>4. /\ ex'["cont"][r].pc \in {"attach", "off"}
        /\ \A t \in Slots, q \in Runs :
             t # "cont" \/ q # r => ex'[t][q] = ex[t][q]
    BY <1>0, <1>3, GotoEffect
  <1>5. /\ ex'["cont"][r].pc = "attach" => row'[r] = "running"
        /\ row' # row => ex'["cont"][r].pc = "attach"
    BY <1>0, <1>3, GotoEffect DEF TypeOK
  <1>6. \A q \in Runs : \/ row'[q] = row[q]
                        \/ q = r /\ row[r] \in OpenRows /\ row'[r] = "running"
    BY <1>0, <1>3 DEF TypeOK
  <1>7. /\ \A b \in AbortCalls : ab'[b] = ab[b] \/ ab'[b].pc = "cancelCont"
        /\ \A q \in Resumers : re'[q] = re[q] \/ re'[q].pc = "done"
    BY <1>0, <1>3, ResumeFailsEffect
  <1>8. pauses[r] > 0
    BY <1>2 DEF IInv, ResumeInv
  <1>9. RowInv'
    BY <1>2, <1>4, <1>6 DEF IInv, RowInv, OpenRows, Slots
  <1>10. WorkerExecInv'
    BY <1>2, <1>4, <1>6, <1>8 DEF IInv, WorkerExecInv, OpenRows, Slots
  <1>11. ContExecInv'
    BY <1>0, <1>2, <1>4, <1>5, <1>6, <1>8
    DEF IInv, ContExecInv, Deciding, AgentPcs
  <1>12. DecidedInv'
    BY <1>2, <1>4, <1>6
    DEF IInv, DecidedInv, FinishPcs, FinishedRows, OpenRows
  <1>13. AbortInv'
    BY <1>0, <1>2, <1>6, <1>7, RunsReferred DEF IInv, AbortInv, OpenRows
  <1>14. ResumeInv'
    BY <1>2, <1>7 DEF IInv, ResumeInv
  <1>15. WorkerInv'
    BY <1>0, <1>2, <1>6, RunsReferred DEF IInv, WorkerInv
  <1>16. DownInv'
    BY <1>0, <1>2, <1>4, <1>7 DEF IInv, DownInv
  <1>17. StartInv'
    <2>1. r \notin todo.rows
      BY <1>0, <1>2 DEF IInv, StartInv
    <2> QED
      BY <1>0, <1>2, <1>4, <1>6, <1>7, <2>1, RunsReferred DEF IInv, StartInv
  <1>18. FinishedJobMatchesRow'
    BY <1>2, <1>6 DEF IInv, FinishedJobMatchesRow, FinishedRows, OpenRows
  <1>19. RunningRowOwned'
    <2>1. row'[r] = "running" => ex'["cont"][r].pc = "attach" \/ row[r] = "running"
      BY <1>5
    <2> QED
      BY <1>0, <1>2, <1>4, <1>6, <1>f, <2>1
      DEF IInv, RunningRowOwned, Up, AgentPcs
  <1> QED
    BY <1>1, <1>9, <1>10, <1>11, <1>12, <1>13, <1>14, <1>15, <1>16, <1>17,
       <1>18, <1>19 DEF IInv

-----------------------------------------------------------------------------
(* Enqueue, the workers, and the process.                                    *)

\* The steps of Enqueue. The insert is the row's first write; registering may
\* evict finished entries, and the entry it adds is not finished.
LEMMA EnqueueSteps ==
  ASSUME IInv, NEW r \in Runs, EnqueueStamp(r) \/ EnqueueStep(r)
  PROVE  IInv'
  <1>0. TypeOK
    BY DEF IInv
  <1>1. TypeOK'
    BY <1>0, EnqueueType
  <1>2. UNCHANGED <<worker, ex, ab, re, pauses, mgr, todo>>
    BY DEF EnqueueStamp, EnqueueStep, EnqueueInsert, EnqueueRegister,
       EnqueuePublish, EnqueueSignal
  <1>f. faults' = faults \/ faults' # 0
    <2>1. faults' = faults \/ faults' = faults + 1
      BY DEF EnqueueStamp, EnqueueStep, EnqueueInsert, EnqueueRegister,
         EnqueuePublish, EnqueueSignal
    <2> QED
      BY <1>0, <2>1, FaultCounted
  <1>3. enq[r] # "idle" => enq[r] # "done" /\ mgr # "down"
    <2>1. enq[r] # "done"
      BY DEF EnqueueStamp, EnqueueStep, EnqueueInsert, EnqueueRegister,
         EnqueuePublish, EnqueueSignal
    <2> QED
      BY <2>1 DEF IInv, DownInv
  <1>4. /\ enq'[r] \in {"idle", "insert"} => enq[r] \in {"idle", "insert"} /\ row' = row
        /\ \A q \in Runs : q # r => enq'[q] = enq[q]
    BY <1>0 DEF TypeOK, EnqueueStamp, EnqueueStep, EnqueueInsert,
       EnqueueRegister, EnqueuePublish, EnqueueSignal
  <1>5. mgr # "down" /\ r \notin todo.rows
    <2>1. mgr # "down"
      BY <1>3 DEF EnqueueStamp, EnqueueStep, EnqueueInsert, EnqueueRegister,
         EnqueuePublish, EnqueueSignal, Up
    <2>2. enq[r] # "done"
      BY <1>3
    <2> QED
      BY <2>1, <2>2 DEF IInv, StartInv
  <1>6. \A q \in Runs : \/ row'[q] = row[q]
                        \/ /\ q = r /\ row[r] = "none" /\ row'[r] = "queued"
                           /\ job' = job
    BY <1>0 DEF IInv, RowInv, TypeOK, EnqueueStamp, EnqueueStep, EnqueueInsert,
       EnqueueRegister, EnqueuePublish, EnqueueSignal
  <1>7. \A q \in Runs :
          /\ job'[q].terminal => job[q].terminal /\ job'[q].status = job[q].status
          /\ q # r /\ job'[q].present => job[q].present
    <2>1. CASE job' = job
      BY <2>1
    <2>2. CASE EnqueueRegister(r)
      BY <1>0, <2>2 DEF TypeOK, EnqueueRegister, NewJob, NoJob
    <2>3. CASE EnqueuePublish(r)
      <3>1. job[r] \in JobRecs
        BY <1>0 DEF TypeOK
      <3> QED
        BY <1>0, <2>3, <3>1, JobMethodsKeep, JobKeptUpdate
        DEF EnqueuePublish, JobKept
    <2> QED
      BY <2>1, <2>2, <2>3 DEF EnqueueStamp, EnqueueStep, EnqueueInsert,
         EnqueueSignal
  <1>8. RowInv'
    BY <1>2, <1>4, <1>6 DEF IInv, RowInv
  <1>9. WorkerExecInv' /\ ContExecInv'
    BY <1>2, <1>6 DEF IInv, RowInv, WorkerExecInv, ContExecInv, FinishedRows,
       Deciding, AgentPcs
  <1>10. DecidedInv'
    BY <1>2, <1>6 DEF IInv, DecidedInv, FinishedRows, FinishPcs
  <1>11. AbortInv' /\ ResumeInv'
    BY <1>0, <1>2, <1>6, RunsReferred DEF IInv, AbortInv, ResumeInv
  <1>12. WorkerInv'
    BY <1>0, <1>2, <1>6, RunsReferred DEF IInv, WorkerInv
  <1>13. DownInv'
    BY <1>2, <1>5 DEF DownInv
  <1>14. StartInv'
    BY <1>0, <1>2, <1>4, <1>5, <1>6, <1>7, RunsReferred DEF IInv, StartInv
  <1>15. FinishedJobMatchesRow'
    BY <1>6, <1>7 DEF IInv, FinishedJobMatchesRow, FinishedRows
  <1>16. RunningRowOwned'
    BY <1>2, <1>6, <1>f DEF IInv, RunningRowOwned, Up
  <1> QED
    BY <1>1, <1>8, <1>9, <1>10, <1>11, <1>12, <1>13, <1>14, <1>15, <1>16 DEF IInv

\* ClaimNextRunnerRun takes a queued row, which no worker has and nothing else
\* refers to.
LEMMA ClaimStep ==
  ASSUME IInv, NEW w \in Workers, NEW r \in Runs, Claim(w, r)
  PROVE  IInv'
  <1>0. TypeOK /\ ExType /\ "worker" \in Slots
    BY DEF IInv, TypeOK, ExType, Slots
  <1>1. TypeOK'
    BY <1>0, WorkerType DEF WorkerStep
  <1>2. /\ row[r] = "queued" /\ mgr # "down"
        /\ UNCHANGED <<job, enq, ab, re, pauses, mgr, todo, faults>>
    BY DEF Claim
  <1>3. row'[r] = "running" /\ \A q \in Runs : q # r => row'[q] = row[q]
    BY <1>0 DEF TypeOK, Claim
  <1>4. /\ worker'[w].pc = "exec" /\ worker'[w].run = r
        /\ \A v \in Workers : v # w => worker'[v] = worker[v]
    BY <1>0 DEF TypeOK, Claim
  <1>5. /\ ex'["worker"][r].pc = "attach"
        /\ \A t \in Slots, q \in Runs :
             t # "worker" \/ q # r => ex'[t][q] = ex[t][q]
    <2> DEFINE e == [pc |-> "attach", ctx |-> "live", gen |-> 1, st |-> "none"]
    <2>1. e \in ExecRecs /\ e.pc = "attach"
      BY DEF ExecRecs, ExecPcs, LivePcs, Contexts
    <2>2. ExecTo("worker", r, e)
      BY DEF Claim
    <2> HIDE DEF e
    <2> QED
      BY <1>0, <2>1, <2>2, ExecToEffect
  <1>6. pauses[r] = 0
    BY <1>2 DEF IInv, RowInv
  <1>7. RowInv'
    BY <1>2, <1>3, <1>5 DEF IInv, RowInv, Slots
  <1>8. WorkerExecInv'
    BY <1>2, <1>3, <1>5, <1>6 DEF IInv, WorkerExecInv, Slots
  <1>9. ContExecInv'
    BY <1>2, <1>3, <1>5 DEF IInv, ContExecInv, Slots
  <1>10. DecidedInv'
    BY <1>2, <1>3, <1>5 DEF IInv, DecidedInv, FinishPcs, FinishedRows
  <1>11. AbortInv' /\ ResumeInv'
    BY <1>0, <1>2, <1>3, RunsReferred DEF IInv, AbortInv, ResumeInv
  <1>12. WorkerInv'
    BY <1>0, <1>2, <1>3, <1>4, RunsReferred DEF IInv, WorkerInv
  <1>13. DownInv'
    BY <1>2 DEF DownInv
  <1>14. StartInv'
    BY <1>0, <1>2, <1>3, <1>5, RunsReferred DEF IInv, StartInv
  <1>15. FinishedJobMatchesRow'
    BY <1>2, <1>3 DEF IInv, FinishedJobMatchesRow, FinishedRows
  <1>16. RunningRowOwned'
    BY <1>0, <1>2, <1>3, <1>5 DEF IInv, RunningRowOwned, Up, AgentPcs
  <1> QED
    BY <1>1, <1>7, <1>8, <1>9, <1>10, <1>11, <1>12, <1>13, <1>14, <1>15, <1>16
    DEF IInv

\* A worker that waits, wakes or looks for the next run.
LEMMA WorkerMoves ==
  ASSUME IInv, NEW w \in Workers,
         ClaimNothing(w) \/ WorkerWake(w) \/ WorkerReturn(w)
  PROVE  IInv'
  <1>0. TypeOK
    BY DEF IInv
  <1>1. TypeOK'
    BY <1>0, WorkerType DEF WorkerStep
  <1>2. UNCHANGED <<row, job, enq, ex, ab, re, pauses, mgr, todo>>
    BY DEF ClaimNothing, WorkerWake, WorkerReturn
  <1>3. faults' = 0 => faults = 0
    <2>1. faults \in Nat
      BY <1>0 DEF TypeOK
    <2>2. faults' = faults \/ faults' = faults + 1
      BY DEF ClaimNothing, WorkerWake, WorkerReturn
    <2> QED
      BY <2>1, <2>2
  <1>4. /\ worker'[w].pc # "exec"
        /\ \A v \in Workers : v # w => worker'[v] = worker[v]
    BY <1>0 DEF TypeOK, WorkerRecs, ClaimNothing, WorkerWake, WorkerReturn
  <1>5. RowInv' /\ WorkerExecInv' /\ ContExecInv' /\ DecidedInv'
    BY <1>2 DEF IInv, RowInv, WorkerExecInv, ContExecInv, DecidedInv
  <1>6. AbortInv' /\ ResumeInv' /\ DownInv' /\ StartInv'
    BY <1>2 DEF IInv, AbortInv, ResumeInv, DownInv, StartInv
  <1>7. WorkerInv'
    BY <1>2, <1>4 DEF IInv, WorkerInv
  <1>8. FinishedJobMatchesRow' /\ RunningRowOwned'
    BY <1>2, <1>3 DEF IInv, FinishedJobMatchesRow, RunningRowOwned, Up
  <1> QED
    BY <1>1, <1>5, <1>6, <1>7, <1>8 DEF IInv

\* Ticks, and a Stop that cancels every context, move nothing.
LEMMA TickAndStop ==
  ASSUME IInv, RecoveryTick \/ Stop
  PROVE  IInv'
  <1>0. TypeOK /\ ExType
    BY DEF IInv, TypeOK, ExType
  <1>1. TypeOK'
    BY <1>0, ProcessType
  <1>2. /\ UNCHANGED <<row, job, enq, worker, ab, re, pauses, todo, faults>>
        /\ mgr # "down" /\ mgr' # "down"
    BY DEF RecoveryTick, Stop
  <1>3. SamePlaces
    <2>1. CASE RecoveryTick
      BY <2>1 DEF RecoveryTick, SamePlaces
    <2>2. CASE Stop
      <3>1. \A s \in Slots, r \in Runs : ex[s][r] \in ExecRecs
        BY <1>0 DEF ExType
      <3>2. \A s \in Slots, r \in Runs :
              ex'[s][r] = CancelContext(ex[s][r], ex[s][r].gen)
        BY <2>2 DEF Stop
      <3> QED
        BY <3>1, <3>2, CancelContextEffect DEF SamePlaces
    <2> QED
      BY <2>1, <2>2
  <1>4. RowInv' /\ WorkerExecInv' /\ ContExecInv'
    BY <1>2, <1>3
    DEF IInv, RowInv, WorkerExecInv, ContExecInv, SamePlaces, Slots
  <1>5. DecidedInv'
    BY <1>2, <1>3 DEF IInv, DecidedInv, SamePlaces
  <1>6. AbortInv' /\ ResumeInv' /\ WorkerInv' /\ DownInv'
    BY <1>2 DEF IInv, AbortInv, ResumeInv, WorkerInv, DownInv
  <1>7. StartInv'
    BY <1>0, <1>2, <1>3, RunsReferred DEF IInv, StartInv, SamePlaces
  <1>8. FinishedJobMatchesRow' /\ RunningRowOwned'
    BY <1>2, <1>3
    DEF IInv, FinishedJobMatchesRow, RunningRowOwned, SamePlaces, Up
  <1> QED
    BY <1>1, <1>4, <1>5, <1>6, <1>7, <1>8 DEF IInv

\* A crash leaves the rows and nothing else.
LEMMA CrashStep ==
  ASSUME IInv, Crash
  PROVE  IInv'
  <1>0. TypeOK
    BY DEF IInv
  <1>1. TypeOK'
    BY <1>0, ProcessType
  <1>2. /\ UNCHANGED <<row, pauses>>
        /\ mgr' = "down"
        /\ todo'.rows = {}
        /\ \A r \in Runs : /\ ~job'[r].present /\ ~job'[r].terminal
                           /\ enq'[r] = enq[r] \/ enq'[r] = "done"
                           /\ enq'[r] \in {"idle", "done"}
        /\ \A w \in Workers : worker'[w].pc = "scan"
    BY DEF Crash, NothingToDo, NoJob, IdleWorker
  <1>3. /\ \A s \in Slots, r \in Runs : ex'[s][r].pc = "off"
    BY DEF Crash, NoExec
  <1>4. /\ \A a \in AbortCalls : ab'[a].pc \in {"idle", "returned"}
        /\ \A p \in Resumers : re'[p].pc \in {"idle", "done"}
    BY <1>0 DEF Crash, TypeOK, AbortRecs, ResumeRecs
  <1>5. RowInv'
    BY <1>2, <1>3 DEF IInv, RowInv, Slots
  <1>6. WorkerExecInv' /\ ContExecInv' /\ DecidedInv'
    BY <1>3
    DEF WorkerExecInv, ContExecInv, DecidedInv, Deciding, AgentPcs, FinishPcs, Slots
  <1>7. AbortInv' /\ ResumeInv' /\ WorkerInv'
    BY <1>2, <1>4 DEF AbortInv, ResumeInv, WorkerInv
  <1>8. DownInv' /\ StartInv'
    BY <1>2, <1>3, <1>4 DEF DownInv, StartInv
  <1>9. FinishedJobMatchesRow' /\ RunningRowOwned'
    BY <1>2 DEF FinishedJobMatchesRow, RunningRowOwned, Up
  <1> QED
    BY <1>1, <1>5, <1>6, <1>7, <1>8, <1>9 DEF IInv

\* Start lists every open row, while nothing runs.
LEMMA StartStep ==
  ASSUME IInv, Start \/ StartSignal
  PROVE  IInv'
  <1>0. TypeOK
    BY DEF IInv
  <1>1. TypeOK'
    BY <1>0, ProcessType
  <1>2. /\ UNCHANGED <<row, job, enq, worker, ex, ab, re, pauses, faults>>
        /\ mgr' # "down"
    BY DEF Start, StartSignal
  <1>3. RowInv' /\ WorkerExecInv' /\ ContExecInv' /\ DecidedInv'
    BY <1>2 DEF IInv, RowInv, WorkerExecInv, ContExecInv, DecidedInv
  <1>4. AbortInv' /\ ResumeInv' /\ WorkerInv' /\ DownInv'
    BY <1>2 DEF IInv, AbortInv, ResumeInv, WorkerInv, DownInv
  <1>5. FinishedJobMatchesRow'
    BY <1>2 DEF IInv, FinishedJobMatchesRow
  <1>6. StartInv' /\ RunningRowOwned'
    <2>1. CASE Start
      <3>1. mgr = "down" /\ todo'.rows = {r \in Runs : row[r] \in OpenRows}
        BY <2>1 DEF Start
      <3>2. \A r \in Runs : row[r] \in OpenRows => enq[r] = "done"
        BY <3>1 DEF IInv, DownInv, RowInv, OpenRows
      <3>3. StartInv'
        BY <1>2, <3>1, <3>2 DEF IInv, DownInv, StartInv, OpenRows
      <3>4. RunningRowOwned'
        BY <1>2, <3>1 DEF RunningRowOwned, OpenRows
      <3> QED
        BY <3>3, <3>4
    <2>2. CASE StartSignal
      <3>1. mgr # "down" /\ todo.rows = {} /\ todo'.rows = {}
        BY <2>2 DEF StartSignal, NothingToDo
      <3> QED
        BY <1>2, <3>1 DEF IInv, StartInv, RunningRowOwned, Up
    <2> QED
      BY <2>1, <2>2
  <1> QED
    BY <1>1, <1>3, <1>4, <1>5, <1>6 DEF IInv

\* A reconciled row has no execution, no entry and no resumption.
LEMMA ReconcileStep ==
  ASSUME IInv, NEW r \in Runs, Reconcile(r)
  PROVE  IInv'
  <1>0. TypeOK
    BY DEF IInv
  <1>1. TypeOK'
    BY <1>0, ProcessType
  <1>2. /\ UNCHANGED <<enq, worker, ex, ab, re, pauses, mgr>>
        /\ r \in todo.rows /\ mgr # "down"
        /\ todo'.rows = todo.rows \ {r}
    BY <1>0 DEF Reconcile, TypeOK, StartWork
  <1>3. job[r] \in JobRecs /\ ~job[r].present
    BY <1>0, <1>2 DEF TypeOK, IInv, StartInv
  <1>4. job' = job
    <2>1. JobMarkTerminal(job[r], "aborted") = job[r]
      BY <1>3, JobMarkKeeps
    <2> QED
      BY <1>0, <2>1 DEF Reconcile, TypeOK
  <1>5. \A q \in Runs : \/ row'[q] = row[q]
                        \/ q = r /\ row[r] \in OpenRows /\ row'[r] = "aborted"
    BY <1>0 DEF Reconcile, TypeOK
  <1>6. faults' = 0 => faults = 0 /\ row'[r] # "running"
    <2>1. faults \in Nat
      BY <1>0 DEF TypeOK
    <2>2. faults' # faults + 1 => faults' = faults /\ row'[r] # "running"
      BY <1>0 DEF Reconcile, TypeOK, OpenRows
    <2> QED
      BY <2>1, <2>2
  <1>7. \A s \in Slots : ex[s][r].pc = "off"
    BY <1>2 DEF IInv, StartInv
  <1>8. RowInv'
    BY <1>2, <1>5 DEF IInv, RowInv, OpenRows
  <1>9. WorkerExecInv' /\ ContExecInv'
    BY <1>2, <1>5, <1>7
    DEF IInv, WorkerExecInv, ContExecInv, Slots, Deciding, AgentPcs
  <1>10. DecidedInv'
    BY <1>2, <1>5, <1>7 DEF IInv, DecidedInv, FinishPcs
  <1>11. AbortInv' /\ ResumeInv'
    BY <1>0, <1>2, <1>5, RunsReferred DEF IInv, AbortInv, ResumeInv, OpenRows
  <1>12. WorkerInv'
    BY <1>0, <1>2, <1>5, RunsReferred DEF IInv, WorkerInv
  <1>13. DownInv' /\ StartInv'
    BY <1>0, <1>2, <1>4, <1>5, RunsReferred DEF IInv, DownInv, StartInv
  <1>14. FinishedJobMatchesRow'
    BY <1>4, <1>5 DEF IInv, FinishedJobMatchesRow, FinishedRows, OpenRows
  <1>15. RunningRowOwned'
    BY <1>2, <1>5, <1>6 DEF IInv, RunningRowOwned, Up
  <1> QED
    BY <1>1, <1>8, <1>9, <1>10, <1>11, <1>12, <1>13, <1>14, <1>15 DEF IInv

-----------------------------------------------------------------------------
(* The invariant, and what follows from it.                                  *)

\* The invariant holds initially: nothing has happened.
LEMMA InvInit == Init => IInv
  <1> SUFFICES ASSUME Init PROVE IInv
    OBVIOUS
  <1>1. TypeOK
    BY TypeInit
  <1>2. /\ \A r \in Runs : /\ row[r] = "none" /\ pauses[r] = 0
                           /\ ~job[r].terminal
        /\ \A s \in Slots, r \in Runs : ex[s][r].pc = "off"
    BY DEF Init, NoJob, NoExec
  <1>3. /\ \A w \in Workers : worker[w].pc = "scan"
        /\ \A a \in AbortCalls : ab[a].pc = "idle"
        /\ \A p \in Resumers : re[p].pc = "idle"
        /\ mgr = "started" /\ todo.rows = {}
    BY DEF Init, IdleWorker, IdleAbort, IdleResume, NothingToDo
  <1>4. RowInv /\ WorkerExecInv /\ ContExecInv /\ DecidedInv
    BY <1>2 DEF RowInv, WorkerExecInv, ContExecInv, DecidedInv, Deciding,
       AgentPcs, FinishPcs, Slots
  <1>5. AbortInv /\ ResumeInv /\ WorkerInv /\ DownInv /\ StartInv
    BY <1>3 DEF AbortInv, ResumeInv, WorkerInv, DownInv, StartInv
  <1>6. FinishedJobMatchesRow /\ RunningRowOwned
    BY <1>2 DEF FinishedJobMatchesRow, RunningRowOwned
  <1> QED
    BY <1>1, <1>4, <1>5, <1>6 DEF IInv

\* An execution preserves it.
LEMMA InvExecution ==
  ASSUME IInv, NEW s \in Slots, NEW r \in Runs, Execution(s, r)
  PROVE  IInv'
  BY QuietExecSteps, MarkSteps, DecidingSteps, FinalizeStep, PauseStep
  DEF Execution

\* Every step preserves it.
LEMMA InvStep == IInv /\ [Next]_vars => IInv'
  <1> SUFFICES ASSUME IInv, [Next]_vars PROVE IInv'
    OBVIOUS
  <1>1. CASE UNCHANGED vars
    <2>1. TypeOK' /\ RowInv' /\ WorkerExecInv' /\ ContExecInv' /\ DecidedInv'
      BY <1>1 DEF vars, IInv, TypeOK, RowInv, WorkerExecInv, ContExecInv,
         DecidedInv
    <2>2. AbortInv' /\ ResumeInv' /\ WorkerInv' /\ DownInv' /\ StartInv'
      BY <1>1 DEF vars, IInv, AbortInv, ResumeInv, WorkerInv, DownInv, StartInv
    <2>3. FinishedJobMatchesRow' /\ RunningRowOwned'
      BY <1>1 DEF vars, IInv, FinishedJobMatchesRow, RunningRowOwned, Up
    <2> QED
      BY <2>1, <2>2, <2>3 DEF IInv
  <1>2. ASSUME NEW r \in Runs, EnqueueStamp(r) \/ EnqueueStep(r) PROVE IInv'
    BY <1>2, EnqueueSteps
  <1>3. ASSUME NEW w \in Workers, WorkerStep(w) PROVE IInv'
    BY <1>3, ClaimStep, WorkerMoves DEF WorkerStep
  <1>4. ASSUME NEW r \in Runs,
               \/ \E s \in Slots : Execution(s, r)
               \/ ExecDeadline(r) \/ ExecBreaks(r)
        PROVE  IInv'
    <2>1. "worker" \in Slots
      BY DEF Slots
    <2> QED
      BY <1>4, <2>1, InvExecution, DeadlineStep, DecidingSteps
  <1>5. ASSUME NEW a \in AbortCalls,
               (\E r \in Runs : AbortCall(a, r)) \/ AbortStep(a)
        PROVE  IInv'
    BY <1>5, QuietAbortSteps, AbortMarkStep, AbortRowSteps DEF AbortStep
  <1>6. ASSUME NEW p \in Resumers,
               (\E r \in Runs : ResumeCall(p, r)) \/ ResumeStep(p)
        PROVE  IInv'
    BY <1>6, ResumeCallStep, QuietResumeSteps, ResumeBeginStep, ResumeRowStep
    DEF ResumeStep
  <1>7. CASE RecoveryTick \/ Stop \/ Crash \/ Start \/ StartSignal
    BY <1>7, TickAndStop, CrashStep, StartStep
  <1>8. ASSUME NEW r \in Runs, Reconcile(r) PROVE IInv'
    BY <1>8, ReconcileStep
  <1>9. CASE Next
    BY <1>9, <1>2, <1>3, <1>4, <1>5, <1>6, <1>7, <1>8 DEF Next
  <1> QED
    BY <1>1, <1>9

\* The inductive invariant holds in every state the manager reaches.
THEOREM Invariant == Spec => []IInv
  BY InvInit, InvStep, PTL DEF Spec

\* At most one agent works on a run, whatever claims, approvals, aborts and
\* restarts do: before the first pause only the claiming worker, after it only
\* the registered continuation.
THEOREM AtMostOneExecution == Spec => []OneExecution
  <1>1. IInv => OneExecution
    <2> SUFFICES ASSUME IInv PROVE OneExecution
      OBVIOUS
    <2>1. \A r \in Runs : ~(/\ ex["worker"][r].pc \in AgentPcs
                            /\ ex["cont"][r].pc \in AgentPcs)
      BY DEF IInv, WorkerExecInv, ContExecInv, Deciding, AgentPcs
    <2>2. \A r \in Runs, v \in Workers, w \in Workers :
            worker[v].pc = "exec" /\ worker[w].pc = "exec"
              /\ worker[v].run = r /\ worker[w].run = r => v = w
      BY DEF IInv, WorkerInv
    <2> QED
      BY <2>1, <2>2 DEF OneExecution
  <1> QED
    BY <1>1, Invariant, PTL

\* What the registry shows as finished, the row has, with the same outcome:
\* every Complete and Fail follows a conditional update that applied.
THEOREM FinishedJobsMatch == Spec => []FinishedJobMatchesRow
  <1>1. IInv => FinishedJobMatchesRow
    BY DEF IInv
  <1> QED
    BY <1>1, Invariant, PTL

\* Unless a SQL statement failed, a running row has an execution that will
\* decide about it, or is listed for reconciliation.
THEOREM RunningRowsOwned == Spec => []RunningRowOwned
  <1>1. IInv => RunningRowOwned
    BY DEF IInv
  <1> QED
    BY <1>1, Invariant, PTL

\* Start aborts runs of the previous process only, although its lists are old
\* by the time it works on them and workers already run.
THEOREM OrphansOnly == Spec => []ReconcileOnlyOrphans
  <1>1. IInv => ReconcileOnlyOrphans
    BY DEF IInv, StartInv, ReconcileOnlyOrphans
  <1> QED
    BY <1>1, Invariant, PTL

-----------------------------------------------------------------------------
(* The rows implement the life cycle.                                        *)

\* One row moves along an edge of the life cycle.
RowMoves == \E r \in Runs :
              \/ Life!Enqueue(r) \/ Life!Claim(r) \/ Life!AbortQueued(r)
              \/ Life!AbortPaused(r) \/ Life!Pause(r) \/ Life!Resume(r)
              \/ \E st \in FinishedRows : Life!Finish(r, st)

\* A step moves no row, or one row along an edge of the life cycle.
LEMMA RowSteps ==
  ASSUME IInv, Next
  PROVE  row' = row \/ RowMoves
  <1> USE DEF RowMoves, Life!Enqueue, Life!Claim, Life!AbortQueued,
          Life!AbortPaused, Life!Pause, Life!Resume, Life!Finish, Life!Move, Life!FinishedRows
  <1>0. TypeOK
    BY DEF IInv
  <1>1. ASSUME NEW r \in Runs, EnqueueStamp(r) \/ EnqueueStep(r)
        PROVE  row' = row \/ RowMoves
    <2>1. enq[r] = "insert" => row[r] = "none"
      BY DEF IInv, RowInv
    <2>2. row' = row \/ (row[r] = "none" /\ row' = [row EXCEPT ![r] = "queued"])
      BY <1>1, <2>1 DEF EnqueueStamp, EnqueueStep, EnqueueInsert,
         EnqueueRegister, EnqueuePublish, EnqueueSignal
    <2> QED
      BY <2>2
  <1>2. ASSUME NEW w \in Workers, WorkerStep(w) PROVE row' = row \/ RowMoves
    BY <1>2 DEF WorkerStep, Claim, ClaimNothing, WorkerWake, WorkerReturn
  <1>3. ASSUME NEW s \in Slots, NEW r \in Runs, Execution(s, r)
        PROVE  row' = row \/ RowMoves
    <2>1. CASE ExecFinalize(s, r)
      <3>1. /\ ex[s][r].pc = "finalize"
            /\ ex[s][r].st \in FinishedRows
            /\ row[r] # "approval_required"
        BY <2>1 DEF ExecFinalize, IInv, DecidedInv, WorkerExecInv, ContExecInv,
           FinishPcs, Deciding, FinishedRows, Slots
      <3>2. row' = row \/ (row[r] \in OpenRows
                            /\ row' = [row EXCEPT ![r] = ex[s][r].st])
        BY <2>1 DEF ExecFinalize
      <3>3. row' = row \/ Life!Finish(r, ex[s][r].st)
        BY <3>1, <3>2 DEF OpenRows, FinishedRows
      <3> QED
        BY <3>1, <3>3
    <2>2. CASE PauseRow(s, r)
      BY <2>2 DEF PauseRow
    <2>3. CASE row' = row
      BY <2>3
    <2> QED
      BY <1>3, <2>1, <2>2, <2>3 DEF Execution, ExecAttach, ExecStarted,
         ExecAsksApproval, ExecEnds, ExecEmit, ExecPublish, ExecMark, PauseEmit,
         PausePublish, PauseMark
  <1>4. ASSUME NEW r \in Runs, ExecDeadline(r) \/ ExecBreaks(r)
        PROVE  row' = row \/ RowMoves
    BY <1>4 DEF ExecDeadline, ExecBreaks
  <1>5. ASSUME NEW a \in AbortCalls,
               (\E r \in Runs : AbortCall(a, r)) \/ AbortStep(a)
        PROVE  row' = row \/ RowMoves
    <2> DEFINE q == ab[a].run
    <2>0. q \in Runs /\ "aborted" \in FinishedRows
      BY <1>0, RunsReferred DEF FinishedRows
    <2>1. CASE AbortFinalize(a)
      <3>1. row' = row \/ (row[q] \in OpenRows
                            /\ row' = [row EXCEPT ![q] = "aborted"])
        BY <2>1 DEF AbortFinalize
      <3> QED
        BY <2>0, <3>1 DEF OpenRows
    <2>2. CASE AbortQueued(a)
      <3>1. row' = row \/ (row[q] = "queued" /\ row' = [row EXCEPT ![q] = "aborted"])
        BY <2>2 DEF AbortQueued
      <3> QED
        BY <2>0, <3>1
    <2>3. CASE row' = row
      BY <2>3
    <2> QED
      BY <1>5, <2>1, <2>2, <2>3 DEF AbortStep, AbortCall, AppCancel,
         AbortCancelCont, AbortWaitCont, AbortCancel, AbortRead, AbortReopen,
         AbortPublish, AbortMark
  <1>6. ASSUME NEW p \in Resumers,
               (\E r \in Runs : ResumeCall(p, r)) \/ ResumeStep(p)
        PROVE  row' = row \/ RowMoves
    <2> DEFINE q == re[p].run
    <2>0. q \in Runs /\ row \in [Runs -> RowStatuses]
      BY <1>0, RunsReferred DEF TypeOK
    <2>1. CASE ResumeRow(p)
      <3>1. row' = row \/ (row[q] \in OpenRows
                            /\ row' = [row EXCEPT ![q] = "running"])
        BY <2>1 DEF ResumeRow
      <3>2. row[q] = "running" => [row EXCEPT ![q] = "running"] = row
        BY <2>0
      <3> QED
        BY <2>0, <3>1, <3>2 DEF OpenRows
    <2>2. CASE row' = row
      BY <2>2
    <2> QED
      BY <1>6, <2>1, <2>2 DEF ResumeCall, ResumeStep, ResumeCheck,
         ResumeReopen, ResumePublish, ResumeBegin, ResumeReturn
  <1>7. CASE RecoveryTick \/ Stop \/ Crash \/ Start \/ StartSignal
    BY <1>7 DEF RecoveryTick, Stop, Crash, Start, StartSignal
  <1>8. ASSUME NEW r \in Runs, Reconcile(r) PROVE row' = row \/ RowMoves
    <2>1. "aborted" \in FinishedRows
      BY DEF FinishedRows
    <2>2. row' = row \/ (row[r] \in OpenRows
                          /\ row' = [row EXCEPT ![r] = "aborted"])
      BY <1>8 DEF Reconcile
    <2> QED
      BY <2>1, <2>2 DEF OpenRows
  <1> HIDE DEF RowMoves, Life!Enqueue, Life!Claim, Life!AbortQueued,
           Life!AbortPaused, Life!Pause, Life!Resume, Life!Finish, Life!Move,
           Life!FinishedRows
  <1>9. ASSUME NEW r \in Runs,
               \/ \E s \in Slots : Execution(s, r)
               \/ ExecDeadline(r) \/ ExecBreaks(r)
        PROVE  row' = row \/ RowMoves
    BY <1>3, <1>4, <1>9
  <1> QED
    BY <1>1, <1>2, <1>5, <1>6, <1>7, <1>8, <1>9 DEF Next

\* The detailed manager implements RunLifecycle: every step of every goroutine
\* moves the rows along the life cycle or not at all.
THEOREM ImplementsLifecycle == Spec => Lifecycle
  <1>1. Init => Life!Init
    BY DEF Init, Life!Init
  <1>2. IInv /\ [Next]_vars => [Life!Next]_row
    <2> SUFFICES ASSUME IInv, [Next]_vars PROVE [Life!Next]_row
      OBVIOUS
    <2>1. CASE UNCHANGED vars
      BY <2>1 DEF vars
    <2>2. CASE Next
      BY <2>2, RowSteps DEF RowMoves, Life!Next, Life!FinishedRows, FinishedRows
    <2> QED
      BY <2>1, <2>2
  <1> QED
    BY <1>1, <1>2, Invariant, PTL DEF Spec, Lifecycle, Life!Spec
=============================================================================
