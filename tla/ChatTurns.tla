------------------------------ MODULE ChatTurns ------------------------------
(* The turns of one runner chat session: chat_manager.go over the tables of  *)
(* runner_chat_store.go. A turn is written by four kinds of goroutine that   *)
(* share no lock: the StartTurn call, the mirror that follows the job's      *)
(* events, AbortTurn, and RespondToTurnApproval with the continuation it     *)
(* spawns. FinalizeRunnerChatTurn has no status guard, so the last one wins. *)
(*                                                                           *)
(* The manager and the registry below are what RunnerRuns and JobRegistry    *)
(* model in detail; here a run and its job are one record.                   *)
EXTENDS Naturals, FiniteSets

CONSTANTS
  MaxTurns,      \* bound on the turns of the session
  Asking,        \* the turns whose agent asks for permissions
  MaxResumes,    \* bound on approvals that continue one turn
  MaxFaults,     \* bound on failing store calls and crashes together
  MaxAborts      \* bound on calls of AbortTurn

ASSUME BoundsAreNat ==
  {MaxTurns, MaxResumes, MaxFaults, MaxAborts} \subseteq Nat

VARIABLES
  turn,     \* runner_chat_turns: status, runner_job_id, last approval event
  msg,      \* status in the assistant message's payload
  job,      \* the run and its job in the registry
  start,    \* where StartTurn stands
  mirror,   \* mirrorJobEventsAfter, one goroutine for each leg of a turn
  leg,      \* the number of continuations of a turn so far
  abort,    \* where AbortTurn stands, and whether it saw a job id
  reply,    \* where RespondToTurnApproval or its continuation stands
  service,  \* "up" or "down"
  overlap,  \* history: turns continued while a mirror still followed them
  lost,     \* history: turns whose writer's last call has failed
  count     \* faults and aborts so far

vars == <<turn, msg, job, start, mirror, leg, abort, reply, service, overlap,
          lost, count>>

Turns == 1..MaxTurns   \* by their sequence number
Legs == 0..MaxResumes
Mirrors == Turns \X Legs

\* The statuses the partial unique index of runner_chat_turns covers.
Active == {"queued", "running"}
Ended == {"succeeded", "failed", "aborted"}
TurnStatuses == {"none", "approval_required"} \cup Active \cup Ended

\* "asking": the agent published a permission request and its executor is on
\* the way to pause. "reopened": Reopen ran, the executor does not yet.
\* "revived": Reopen ran on a run that has ended; its job never ends again.
\* A job that completed while its runtime reported a failed turn counts as
\* failed, as captureRuntimeTerminalState makes it.
OpenJobs == {"active", "asking", "approval_required", "reopened"}
FinishedJobs == {"completed", "failed", "aborted"}
JobStatuses == {"none", "revived"} \cup OpenJobs \cup FinishedJobs

\* isTerminalJobStatus: a paused job closes its subscribers' channels too.
IsTerminal(s) == s \in FinishedJobs \cup {"approval_required"}

\* (Mutant: the job's status is stored as it is.)
MutMapJobStatus(s) == s

\* mapJobStatusToTurnStatus; a job that has not ended counts as failed.
MapJobStatus(s) ==
  CASE s = "completed" -> "succeeded"
    [] s \in {"approval_required", "aborted"} -> s
    [] OTHER -> "failed"

IdleMirror == [pc |-> "off", seen |-> "none", closed |-> FALSE,
               todo |-> "no", perm |-> FALSE]

Init ==
  /\ turn = [t \in Turns |-> [st |-> "none", jobID |-> FALSE,
                              ref |-> "none", req |-> "none"]]
  /\ msg = [t \in Turns |-> "none"]
  /\ job = [t \in Turns |-> [st |-> "none", tracked |-> FALSE, asked |-> "no"]]
  /\ start = [t \in Turns |-> "idle"]
  /\ mirror = [m \in Mirrors |-> IdleMirror]
  /\ leg = [t \in Turns |-> 0]
  /\ abort = [t \in Turns |-> [pc |-> "idle", jobID |-> FALSE]]
  /\ reply = [t \in Turns |-> "idle"]
  /\ service = "up"
  /\ overlap = {}
  /\ lost = {}
  /\ count = [faults |-> 0, aborts |-> 0]

-----------------------------------------------------------------------------
(* Writes of the store and of the manager.                                   *)

FinalizeRunnerChatTurn(t, s) == turn' = [turn EXCEPT ![t].st = s]

\* A job reaches status s: subscribers see the event, and a terminal status
\* closes their channels.
JobBecomes(t, s, asked) ==
  /\ job' = [job EXCEPT ![t].st = s, ![t].asked = asked]
  /\ mirror' = [m \in Mirrors |->
       IF m[1] = t /\ mirror[m].pc = "drain" /\ ~mirror[m].closed
       THEN [mirror[m] EXCEPT
               !.closed = IsTerminal(s),
               !.todo = IF asked # job[t].asked THEN asked ELSE @]
       ELSE mirror[m]]

\* Manager.Abort: an open run is finished as aborted, any other one is left.
ManagerAbort(t) ==
  IF job[t].st \in OpenJobs
  THEN JobBecomes(t, "aborted", job[t].asked)
  ELSE UNCHANGED <<job, mirror>>

\* A mirror of turn t is under way.
Followed(t) == \E k \in Legs : mirror[<<t, k>>].pc # "off"

NoActiveTurn == \A u \in Turns : turn[u].st \notin Active

Fault == count.faults < MaxFaults /\ count' = [count EXCEPT !.faults = @ + 1]

\* A goroutine that was to write the status of turn t, or to have it written,
\* gives up because its call fails. The error is logged at most.
Lose(t) == Fault /\ lost' = lost \cup {t}

\* A goroutine's last word on turn t. A failed update is not repeated.
Finalize(t, s) ==
  \/ FinalizeRunnerChatTurn(t, s) /\ UNCHANGED <<lost, count>>
  \/ Lose(t) /\ UNCHANGED turn

-----------------------------------------------------------------------------
(* StartTurn.                                                                *)

\* The row is inserted as queued; the unique index refuses a second active
\* turn (ErrRunnerChatTurnActive).
CreateTurn(t) ==
  /\ service = "up" /\ NoActiveTurn
  /\ start[t] = "idle" /\ \A u \in 1..(t - 1) : start[u] # "idle"
  /\ FinalizeRunnerChatTurn(t, "queued")
  /\ start' = [start EXCEPT ![t] = "persist"]
  /\ UNCHANGED <<msg, job, mirror, leg, abort, reply, service, overlap, lost,
                 count>>

\* (Mutant: the call returns its error and leaves the row.)
MutFailStart(t) ==
  /\ Fault
  /\ start' = [start EXCEPT ![t] = "done"]
  /\ UNCHANGED <<turn, lost>>

\* A step that fails marks the turn failed, when it can, and gives the call up.
FailStart(t) ==
  /\ Fault
  /\ \/ FinalizeRunnerChatTurn(t, "failed") /\ UNCHANGED lost
     \/ lost' = lost \cup {t} /\ UNCHANGED turn
  /\ start' = [start EXCEPT ![t] = "done"]

\* The session's cwd, the user message, its id in the row.
PersistUserMessage(t) ==
  /\ start[t] = "persist"
  /\ \/ /\ start' = [start EXCEPT ![t] = "enqueue"]
        /\ UNCHANGED <<turn, lost, count>>
     \/ FailStart(t)
  /\ UNCHANGED <<msg, job, mirror, leg, abort, reply, service, overlap>>

EnqueueRun(t) ==
  /\ start[t] = "enqueue"
  /\ \/ /\ start' = [start EXCEPT ![t] = "mark"]
        /\ job' = [job EXCEPT ![t].st = "active", ![t].tracked = TRUE]
        /\ UNCHANGED <<turn, lost, count>>
     \/ FailStart(t) /\ UNCHANGED job
  /\ UNCHANGED <<msg, mirror, leg, abort, reply, service, overlap>>

\* Only a turn that is still queued becomes running and learns its job id; an
\* error is logged and the call goes on.
MarkStarted(t) ==
  /\ start[t] = "mark"
  /\ \/ /\ turn' = IF turn[t].st = "queued"
                   THEN [turn EXCEPT ![t].st = "running", ![t].jobID = TRUE]
                   ELSE turn
        /\ UNCHANGED count
     \/ Fault /\ UNCHANGED turn
  /\ start' = [start EXCEPT ![t] = "placeholder"]
  /\ UNCHANGED <<msg, job, mirror, leg, abort, reply, service, overlap, lost>>

\* (Mutant: when the placeholder fails, the run is aborted and that is all.)
MutPersistPlaceholder(t) ==
  /\ start[t] = "placeholder"
  /\ start' = [start EXCEPT ![t] = "done"]
  /\ \/ /\ msg' = [msg EXCEPT ![t] = "running"]
        /\ mirror' = [mirror EXCEPT ![<<t, 0>>].pc = "subscribe"]
        /\ UNCHANGED <<job, count>>
     \/ Fault /\ ManagerAbort(t) /\ UNCHANGED msg
  /\ UNCHANGED <<turn, leg, abort, reply, service, overlap, lost>>

\* The assistant's placeholder and its id; then the mirror is spawned. When
\* either fails the run is aborted, if that succeeds, before the turn is marked
\* failed.
PersistPlaceholder(t) ==
  /\ start[t] = "placeholder"
  /\ \/ /\ msg' = [msg EXCEPT ![t] = "running"]
        /\ mirror' = [mirror EXCEPT ![<<t, 0>>].pc = "subscribe"]
        /\ start' = [start EXCEPT ![t] = "done"]
        /\ UNCHANGED <<job, count>>
     \/ /\ Fault
        /\ ManagerAbort(t) \/ UNCHANGED <<job, mirror>>
        /\ start' = [start EXCEPT ![t] = "giveup"]
        /\ UNCHANGED msg
  /\ UNCHANGED <<turn, leg, abort, reply, service, overlap, lost>>

GiveUp(t) ==
  /\ start[t] = "giveup"
  /\ Finalize(t, "failed")
  /\ start' = [start EXCEPT ![t] = "done"]
  /\ UNCHANGED <<msg, job, mirror, leg, abort, reply, service, overlap>>

StartStep(t) ==
  \/ PersistUserMessage(t) \/ EnqueueRun(t) \/ MarkStarted(t)
  \/ PersistPlaceholder(t) \/ GiveUp(t)

-----------------------------------------------------------------------------
(* The run: its agent asks, pauses and ends. The registry drops jobs that    *)
(* are terminal, paused ones included.                                       *)

MayAsk(t) == t \in Asking /\ leg[t] < MaxResumes

JobAsks(t) ==
  /\ service = "up" /\ job[t].st = "active" /\ MayAsk(t)
  /\ JobBecomes(t, "asking", "native")
  /\ UNCHANGED <<turn, msg, start, leg, abort, reply, service, overlap, lost,
                 count>>

JobPauses(t) ==
  /\ service = "up" /\ job[t].st = "asking"
  /\ JobBecomes(t, "approval_required", job[t].asked)
  /\ UNCHANGED <<turn, msg, start, leg, abort, reply, service, overlap, lost,
                 count>>

\* The final text of an agent may itself ask for a permission.
JobEnds(t) ==
  /\ service = "up" /\ job[t].st = "active"
  /\ \E s \in FinishedJobs \ {"aborted"} :
       \E asked \in {job[t].asked} \cup
                    (IF MayAsk(t) THEN {"text"} ELSE {}) :
         JobBecomes(t, s, asked)
  /\ UNCHANGED <<turn, msg, start, leg, abort, reply, service, overlap, lost,
                 count>>

\* The retention is long against a goroutine's step, but not against a user.
EvictJob(t) ==
  /\ service = "up" /\ job[t].tracked /\ IsTerminal(job[t].st)
  /\ ~Followed(t)
  /\ start[t] = "done"
  /\ job' = [job EXCEPT ![t].tracked = FALSE]
  /\ UNCHANGED <<turn, msg, start, mirror, leg, abort, reply,
                 service, overlap, lost, count>>

-----------------------------------------------------------------------------
(* mirrorJobEventsAfter.                                                     *)

\* A job that the registry no longer tracks ends the mirror, and nothing is
\* written to the turn.
MirrorSubscribe(m) ==
  LET j == job[m[1]] IN
  /\ mirror[m].pc = "subscribe"
  /\ mirror' = [mirror EXCEPT ![m] =
       IF j.tracked
       THEN [IdleMirror EXCEPT !.pc = "drain", !.seen = j.st, !.todo = j.asked,
                               !.closed = IsTerminal(j.st)]
       ELSE IdleMirror]
  /\ UNCHANGED <<turn, msg, job, start, leg, abort, reply, service,
                 overlap, lost, count>>

\* persistJobEvent on a permission request: the broker either opens a request,
\* or has nothing to ask for or fails. The request is attached to the turn by
\* an event; when that cannot be appended the user has nothing to answer.
MirrorPersist(m) ==
  LET t == m[1] IN
  /\ mirror[m].pc = "drain" /\ mirror[m].todo # "no"
  /\ \/ /\ \/ /\ turn' = [turn EXCEPT ![t].ref = mirror[m].todo,
                                     ![t].req = "pending"]
              /\ UNCHANGED count
           \/ Fault /\ UNCHANGED turn
        /\ mirror' = [mirror EXCEPT ![m].todo = "no", ![m].perm = TRUE]
     \/ /\ mirror' = [mirror EXCEPT ![m].todo = "no"]
        /\ UNCHANGED <<turn, count>>
  /\ UNCHANGED <<msg, job, start, leg, abort, reply, service, overlap, lost>>

\* (Mutant: the snapshot of the subscription is used.)
MutMirrorSnapshot(m) ==
  /\ mirror[m].pc = "drain" /\ mirror[m].todo = "no" /\ mirror[m].closed
  /\ mirror' = [mirror EXCEPT ![m].pc = "message"]
  /\ UNCHANGED <<turn, msg, job, start, leg, abort, reply, service,
                 overlap, lost, count>>

\* The channel is closed: one more snapshot unless a terminal one was seen.
MirrorSnapshot(m) ==
  LET j == job[m[1]] IN
  /\ mirror[m].pc = "drain" /\ mirror[m].todo = "no" /\ mirror[m].closed
  /\ mirror' = [mirror EXCEPT ![m].pc = "message",
       ![m].seen = IF ~IsTerminal(@) /\ j.tracked THEN j.st ELSE @]
  /\ UNCHANGED <<turn, msg, job, start, leg, abort, reply, service,
                 overlap, lost, count>>

\* finalizeFromSnapshot: a captured permission overrides the job's status.
Outcome(m) ==
  IF mirror[m].perm THEN "approval_required" ELSE MapJobStatus(mirror[m].seen)

MirrorMessage(m) ==
  /\ mirror[m].pc = "message"
  /\ \/ msg' = [msg EXCEPT ![m[1]] = Outcome(m)] /\ UNCHANGED count
     \/ Fault /\ UNCHANGED msg
  /\ mirror' = [mirror EXCEPT ![m].pc = "finalize"]
  /\ UNCHANGED <<turn, job, start, leg, abort, reply, service, overlap, lost>>

\* The mirror ends whether its update succeeds or not.
MirrorFinalize(m) ==
  /\ mirror[m].pc = "finalize"
  /\ Finalize(m[1], Outcome(m))
  /\ mirror' = [mirror EXCEPT ![m] = IdleMirror]
  /\ UNCHANGED <<msg, job, start, leg, abort, reply, service, overlap>>

MirrorStep(m) ==
  \/ MirrorSubscribe(m) \/ MirrorPersist(m) \/ MirrorSnapshot(m)
  \/ MirrorMessage(m) \/ MirrorFinalize(m)

-----------------------------------------------------------------------------
(* AbortTurn: reads the row, aborts the run it names, overwrites the status. *)

AbortRead(t) ==
  /\ service = "up" /\ abort[t].pc = "idle" /\ count.aborts < MaxAborts
  /\ turn[t].st \in Active \cup {"approval_required"}
  /\ abort' = [abort EXCEPT ![t] = [pc |-> "cancel", jobID |-> turn[t].jobID]]
  /\ count' = [count EXCEPT !.aborts = @ + 1]
  /\ UNCHANGED <<turn, msg, job, start, mirror, leg, reply, service, overlap,
                 lost>>

\* A failed Manager.Abort is ignored: the call goes on as if it knew no run.
AbortCancel(t) ==
  /\ abort[t].pc = "cancel"
  /\ \/ /\ IF abort[t].jobID THEN ManagerAbort(t) ELSE UNCHANGED <<job, mirror>>
        /\ abort' = [abort EXCEPT ![t].pc = "finalize"]
        /\ UNCHANGED count
     \/ /\ abort[t].jobID /\ Fault
        /\ abort' = [abort EXCEPT ![t] = [pc |-> "finalize", jobID |-> FALSE]]
        /\ UNCHANGED <<job, mirror>>
  /\ UNCHANGED <<turn, msg, start, leg, reply, service, overlap, lost>>

\* The caller learns of a failed update.
AbortFinalize(t) ==
  /\ abort[t].pc = "finalize"
  /\ \/ /\ FinalizeRunnerChatTurn(t, "aborted")
        /\ abort' = [abort EXCEPT ![t].pc = "done"]
        /\ UNCHANGED <<lost, count>>
     \/ /\ Lose(t)
        /\ abort' = [abort EXCEPT ![t].pc = "failed"]
        /\ UNCHANGED turn
  /\ UNCHANGED <<msg, job, start, mirror, leg, reply, service, overlap>>

AbortStep(t) == AbortCancel(t) \/ AbortFinalize(t)

-----------------------------------------------------------------------------
(* RespondToTurnApproval.                                                    *)

ReplyRead(t) ==
  /\ service = "up" /\ reply[t] = "idle"
  /\ turn[t].st = "approval_required" /\ turn[t].ref # "none"
  /\ reply' = [reply EXCEPT ![t] = "broker"]
  /\ UNCHANGED <<turn, msg, job, start, mirror, leg, abort, service,
                 overlap, lost, count>>

\* The broker resolves a pending request once; a later decision is refused.
ReplyBroker(t) ==
  /\ reply[t] = "broker"
  /\ IF turn[t].req = "pending"
     THEN /\ turn' = [turn EXCEPT ![t].req = "resolved"]
          /\ \E next \in {"refuse",
                          IF turn[t].ref = "native" THEN "respond"
                                                    ELSE "fallback"} :
               reply' = [reply EXCEPT ![t] = next]
     ELSE reply' = [reply EXCEPT ![t] = "idle"] /\ UNCHANGED turn
  /\ UNCHANGED <<msg, job, start, mirror, leg, abort, service, overlap, lost,
                 count>>

\* Deny and cancel: the run is aborted, then the turn is marked failed, even
\* when the abort failed.
ReplyRefuse(t) ==
  /\ reply[t] = "refuse"
  /\ \/ /\ IF turn[t].jobID THEN ManagerAbort(t) ELSE UNCHANGED <<job, mirror>>
        /\ UNCHANGED count
     \/ turn[t].jobID /\ Fault /\ UNCHANGED <<job, mirror>>
  /\ reply' = [reply EXCEPT ![t] = "close"]
  /\ UNCHANGED <<turn, msg, start, leg, abort, service, overlap, lost>>

\* The native runtime takes an answer only for a request that is still open.
ReplyRespond(t) ==
  /\ reply[t] = "respond"
  /\ \/ /\ job[t].st \in {"asking", "approval_required"}
        /\ reply' = [reply EXCEPT ![t] = "mark"]
        /\ overlap' = IF Followed(t) THEN overlap \cup {t} ELSE overlap
     \/ reply' = [reply EXCEPT ![t] = "fallback"] /\ UNCHANGED overlap
  /\ UNCHANGED <<turn, msg, job, start, mirror, leg, abort, service, lost,
                 count>>

\* Without a continuation the turn is closed; the token serves its retry.
ReplyClose(t) ==
  /\ reply[t] \in {"close", "fallback"}
  /\ Finalize(t, "failed")
  /\ reply' = [reply EXCEPT ![t] = "closed"]
  /\ UNCHANGED <<msg, job, start, mirror, leg, abort, service, overlap>>

\* (Mutant: the update has no condition on the status.)
MutReplyMark(t) ==
  /\ reply[t] = "mark"
  /\ turn' = IF NoActiveTurn THEN [turn EXCEPT ![t].st = "running"] ELSE turn
  /\ reply' = [reply EXCEPT ![t] = "message"]
  /\ UNCHANGED <<msg, job, start, mirror, leg, abort, service, overlap, lost,
                 count>>

\* MarkRunnerChatTurnApprovalResumed: conditional on the status, and refused
\* by the unique index when another turn is active. The error is dropped.
ReplyMark(t) ==
  /\ reply[t] = "mark"
  /\ \/ /\ turn' = IF turn[t].st = "approval_required" /\ NoActiveTurn
                   THEN [turn EXCEPT ![t].st = "running"] ELSE turn
        /\ UNCHANGED count
     \/ Fault /\ UNCHANGED turn
  /\ reply' = [reply EXCEPT ![t] = "message"]
  /\ UNCHANGED <<msg, job, start, mirror, leg, abort, service, overlap, lost>>

ReplyMessage(t) ==
  /\ reply[t] = "message"
  /\ \/ msg' = [msg EXCEPT ![t] = "running"] /\ UNCHANGED count
     \/ Fault /\ UNCHANGED msg
  /\ reply' = [reply EXCEPT ![t] = "resume"]
  /\ UNCHANGED <<turn, job, start, mirror, leg, abort, service, overlap, lost>>

\* resumeTurnAfterNativeApproval: skipped when the run has ended or the row
\* names none, and given up when the run cannot be read. The turn has been
\* marked as running before.
ReplyResume(t) ==
  /\ reply[t] = "resume"
  /\ \/ /\ reply' = [reply EXCEPT
             ![t] = IF job[t].st \in OpenJobs /\ turn[t].jobID THEN "reopen"
                                                              ELSE "idle"]
        /\ UNCHANGED <<lost, count>>
     \/ turn[t].jobID /\ Lose(t) /\ reply' = [reply EXCEPT ![t] = "idle"]
  /\ UNCHANGED <<turn, msg, job, start, mirror, leg, abort, service, overlap>>

\* Reopen, of a job that the registry tracks; even one that was aborted since
\* the check.
Reopened(j) ==
  CASE ~j.tracked -> j.st
    [] j.st = "approval_required" -> "reopened"
    [] j.st \in FinishedJobs -> "revived"
    [] OTHER -> j.st

\* The job is reopened, and a second mirror follows it from here on. When turn
\* or session cannot be read, no mirror is spawned and nothing continues.
ReplyReopen(t) ==
  /\ reply[t] = "reopen"
  /\ job' = [job EXCEPT ![t].asked = "no", ![t].st = Reopened(job[t])]
  /\ \/ /\ leg' = [leg EXCEPT ![t] = @ + 1]
        /\ mirror' = [mirror EXCEPT ![<<t, leg[t] + 1>>].pc = "subscribe"]
        /\ reply' = [reply EXCEPT ![t] = "continue"]
        /\ UNCHANGED <<lost, count>>
     \/ /\ Lose(t)
        /\ reply' = [reply EXCEPT ![t] = "idle"]
        /\ UNCHANGED <<leg, mirror>>
  /\ UNCHANGED <<turn, msg, start, abort, service, overlap>>

\* ResumeNativeRunAfterApproval continues a paused run; when it returns an
\* error the run is aborted, unless that fails as well.
ReplyContinue(t) ==
  /\ reply[t] = "continue"
  /\ \/ /\ \/ /\ job[t].st \in {"reopened", "approval_required"}
              /\ JobBecomes(t, "active", job[t].asked)
           \/ ManagerAbort(t)
        /\ UNCHANGED <<lost, count>>
     \/ Lose(t) /\ UNCHANGED <<job, mirror>>
  /\ reply' = [reply EXCEPT ![t] = "idle"]
  /\ UNCHANGED <<turn, msg, start, leg, abort, service, overlap>>

ReplyStep(t) ==
  \/ ReplyBroker(t) \/ ReplyRefuse(t) \/ ReplyRespond(t) \/ ReplyClose(t)
  \/ ReplyMark(t) \/ ReplyMessage(t) \/ ReplyResume(t)
  \/ ReplyReopen(t) \/ ReplyContinue(t)

-----------------------------------------------------------------------------
(* Crash and restart. The listener accepts no call before both               *)
(* reconciliations ran.                                                      *)

Crash ==
  /\ service = "up" /\ Fault
  /\ service' = "down"
  /\ start' = [t \in Turns |-> IF start[t] = "idle" THEN "idle" ELSE "done"]
  /\ mirror' = [m \in Mirrors |-> IdleMirror]
  /\ abort' = [t \in Turns |-> [abort[t] EXCEPT !.pc = "idle"]]
  /\ reply' = [t \in Turns |-> "idle"]
  /\ job' = [t \in Turns |-> [job[t] EXCEPT !.tracked = FALSE]]
  /\ UNCHANGED <<turn, msg, leg, overlap, lost>>

ReconcileOnStartup ==
  /\ service = "down"
  /\ service' = "up"
  /\ turn' = [t \in Turns |-> [turn[t] EXCEPT
       !.st = IF @ \in Active \cup {"approval_required"} THEN "aborted" ELSE @]]
  /\ job' = [t \in Turns |-> [job[t] EXCEPT
       !.st = IF @ \in OpenJobs THEN "aborted" ELSE @]]
  /\ UNCHANGED <<msg, start, mirror, leg, abort, reply, count, overlap, lost>>

Next ==
  \/ \E t \in Turns :
       \/ CreateTurn(t) \/ StartStep(t)
       \/ JobAsks(t) \/ JobPauses(t) \/ JobEnds(t)
       \/ AbortRead(t) \/ AbortStep(t)
       \/ ReplyRead(t) \/ ReplyStep(t)
  \/ \E m \in Mirrors : MirrorStep(m)
  \/ Crash \/ ReconcileOnStartup

\* Goroutines keep running and an agent that works ends or asks. Nobody has
\* to abort a turn or to answer a request.
Progress ==
  /\ \A t \in Turns :
       /\ WF_vars(StartStep(t)) /\ WF_vars(AbortStep(t)) /\ WF_vars(ReplyStep(t))
       /\ WF_vars(JobPauses(t) \/ JobEnds(t))
  /\ \A m \in Mirrors : WF_vars(MirrorStep(m))
  /\ WF_vars(ReconcileOnStartup)

\* A registry that keeps the jobs of turns that wait for approval.
Spec == Init /\ [][Next]_vars /\ Progress

\* A registry that applies its retention to them, as cleanupLocked does.
SpecEvicting == Init /\ [][Next \/ \E t \in Turns : EvictJob(t)]_vars /\ Progress

-----------------------------------------------------------------------------
(* Properties.                                                               *)

\* The types of rows, jobs and goroutines.
TypeOK ==
  /\ turn \in [Turns -> [st : TurnStatuses, jobID : BOOLEAN,
                         ref : {"none", "text", "native"},
                         req : {"none", "pending", "resolved"}]]
  /\ msg \in [Turns -> TurnStatuses]
  /\ job \in [Turns -> [st : JobStatuses,
                        tracked : BOOLEAN, asked : {"no", "text", "native"}]]
  /\ start \in [Turns -> {"idle", "persist", "enqueue", "mark", "placeholder",
                          "giveup", "done"}]
  /\ mirror \in [Mirrors ->
       [pc : {"off", "subscribe", "drain", "message", "finalize"},
        seen : JobStatuses,
        closed : BOOLEAN, todo : {"no", "text", "native"}, perm : BOOLEAN]]
  /\ leg \in [Turns -> Legs]
  /\ abort \in [Turns -> [pc : {"idle", "cancel", "finalize", "done", "failed"},
                          jobID : BOOLEAN]]
  /\ reply \in [Turns -> {"idle", "broker", "refuse", "respond", "close",
                          "fallback", "closed", "mark", "message", "resume",
                          "reopen", "continue"}]
  /\ service \in {"up", "down"}
  /\ overlap \in SUBSET Turns
  /\ lost \in SUBSET Turns
  /\ count \in [faults : Nat, aborts : Nat]

\* A goroutine that will still write the status of turn t.
Owned(t) ==
  \/ start[t] \notin {"idle", "done"}
  \/ Followed(t)
  \/ abort[t].pc \in {"cancel", "finalize"}
  \/ reply[t] \notin {"idle", "broker", "closed"}

\* No turn is left marked as queued or running with nobody to finish it: the
\* unique index would refuse every further turn of the session.
NoTurnFalselyRunning ==
  service = "up" => \A t \in Turns : turn[t].st \in Active => Owned(t)

\* An approval is answered while an earlier mirror of the turn has still to
\* write: another turn was active when the turn was resumed, the index refused
\* the mark, and the row went on to say approval_required. Whatever that mirror
\* writes later competes with the continuation. The properties below are about
\* the other turns.
Regular == Turns \ overlap

\* The same for turns whose row names its run: they are not stranded by a
\* failed StartTurn, by an abort that races the mirror or a continuation, or
\* by an approval that the runtime takes while the run ends. Only a failed call
\* of its last writer strands one: the update of its status, or what its
\* continuation reads before it goes on. The other failing calls do not.
TurnOwned ==
  service = "up" =>
    \A t \in Regular \ lost :
      turn[t].st \in Active /\ turn[t].jobID => Owned(t)

\* The session becomes free again: an active turn ends or waits for approval,
\* unless its last writer's call has failed.
TurnEnds ==
  \A t \in Turns :
    (turn[t].st \in Active /\ (turn[t].jobID \/ start[t] # "done"))
      ~> (turn[t].st \notin Active \/ t \in overlap \cup lost)

\* An abort that ended the run is final: the turn is never active again,
\* whichever mirror, approval or continuation was under way, and even if it
\* was stranded before.
AbortIsFinal ==
  \A t \in Regular :
    abort[t].pc = "done" /\ abort[t].jobID => turn[t].st \notin Active

\* Without an abort or a refusal, a turn at rest shows what its run did: row
\* and assistant message agree with each other and with the job, however the
\* snapshots, pauses and continuations interleaved.
RestAgrees ==
  \A t \in Regular :
    /\ start[t] = "done" /\ count.faults = 0
    /\ ~Owned(t) /\ abort[t].pc = "idle" /\ reply[t] = "idle"
    => /\ msg[t] = turn[t].st
       /\ \/ turn[t].st = MapJobStatus(job[t].st)
          \/ turn[t].st = "approval_required" /\ turn[t].req = "pending"
=============================================================================
