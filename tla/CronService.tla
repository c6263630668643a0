----------------------------- MODULE CronService -----------------------------
(* The cron service: internal/cron/cron.go. Every operation locks s.mu and   *)
(* the store file, loads the file, changes it and saves it, so it is one     *)
(* step; but a job runs between two such steps, without a lock, and what the *)
(* service has armed in memory is a second copy of what the file says.       *)
(* The file is shared with the command line's process, which arms nothing.   *)
EXTENDS Naturals, FiniteSets

CONSTANTS
  Jobs,       \* ids; a user may choose one that was used before
  Threads,    \* goroutines in runJobByID: fired timers, entries and RunNow
  MaxNow,     \* bound on the clock
  MaxFaults,  \* bound on failing locks, loads and saves of the file
  MaxEdits,   \* bound on operations of users
  MaxStops    \* bound on restarts of the service

ASSUME CronAssumption ==
  {MaxNow, MaxFaults, MaxEdits, MaxStops} \subseteq Nat

VARIABLES
  now,
  store,    \* the file: the jobs with their schedules
  armed,    \* entries and timers of this process
  started,  \* s.c # nil
  thread,   \* where the calls of runJobByID stand
  last,     \* State.LastStatus in the file
  count     \* faults, stops, edits, and those of the command line, so far

vars == <<now, store, armed, started, thread, last, count>>

\* A schedule is an interval ("every" and "cron"), or a time: the jobs of the
\* second kind are those that are usually deleted after they ran.
Every == 0
Schedules == {Every} \cup 1..MaxNow
JobRecords == [stored : BOOLEAN, enabled : BOOLEAN,
               at : Schedules, once : BOOLEAN]
NoJob == "no job"

\* What is armed for a job: nothing, a cron entry, a timer for a time, or a
\* timer that has fired and is still in the map.
ArmedStates == [st : {"off", "entry", "timer", "fired"}, at : Schedules]
Armed(st, at) == [st |-> st, at |-> at]
Off == Armed("off", Every)

Init ==
  /\ now = 0
  /\ store = [j \in Jobs |-> [stored |-> FALSE, enabled |-> FALSE,
                              at |-> Every, once |-> FALSE]]
  /\ armed = [j \in Jobs |-> Off]
  /\ started = FALSE
  /\ thread = [r \in Threads |-> [pc |-> "idle", job |-> NoJob, force |-> FALSE]]
  /\ last = [j \in Jobs |-> "none"]
  /\ count = [faults |-> 0, edits |-> 0, stops |-> 0, cli |-> 0]

Stored(j) == store[j].stored

-----------------------------------------------------------------------------
(* Helpers.                                                                  *)

\* armJobLocked: nothing for a disabled job or for a time that has passed.
Arming(job) ==
  CASE job.enabled /\ job.at = Every -> Armed("entry", Every)
    [] job.enabled /\ job.at > now -> Armed("timer", job.at)
    [] OTHER -> Off

ArmJob(j, job) == armed' = [armed EXCEPT ![j] = IF started THEN Arming(job) ELSE Off]
UnarmJob(j) == armed' = [armed EXCEPT ![j] = Off]

\* The file's lock, its load or its save fails. save writes a temporary file
\* and renames it, so it happens or it does not.
StoreFails ==
  count.faults < MaxFaults /\ count' = [count EXCEPT !.faults = @ + 1]

Edit == count.edits < MaxEdits /\ count' = [count EXCEPT !.edits = @ + 1]

-----------------------------------------------------------------------------
(* Operations of users, in the service's process.                            *)

Add(j) ==
  /\ ~Stored(j)
  /\ \E job \in JobRecords :
       /\ job.stored
       /\ store' = [store EXCEPT ![j] = job]
       /\ ArmJob(j, job)
  /\ last' = [last EXCEPT ![j] = "none"]
  /\ Edit
  /\ UNCHANGED <<now, started, thread>>

\* The job is unarmed, saved and armed. When the save fails it stays unarmed,
\* although the file still has it as it was.
Replace(j, job, status) ==
  \/ /\ store' = [store EXCEPT ![j] = job]
     /\ last' = [last EXCEPT ![j] = status]
     /\ ArmJob(j, job)
     /\ Edit
  \/ StoreFails /\ UnarmJob(j) /\ UNCHANGED <<store, last>>

\* Update takes the state of the job from its caller, who sends none.
Update(j) ==
  /\ Stored(j)
  /\ \E job \in JobRecords : job.stored /\ Replace(j, job, "none")
  /\ UNCHANGED <<now, started, thread>>

SetEnabled(j) ==
  /\ Stored(j)
  /\ \E e \in BOOLEAN : Replace(j, [store[j] EXCEPT !.enabled = e], last[j])
  /\ UNCHANGED <<now, started, thread>>

Remove(j) ==
  /\ Stored(j)
  /\ UnarmJob(j)
  /\ \/ store' = [store EXCEPT ![j].stored = FALSE] /\ Edit
     \/ StoreFails /\ UNCHANGED store
  /\ UNCHANGED <<now, started, thread, last>>

\* The command line has a service of its own on the same file, which is never
\* started: add, remove, pause and resume, and a run, which may delete the
\* job. Nothing is armed or unarmed here.
EditElsewhere(j) ==
  /\ \/ /\ ~Stored(j)
        /\ \E job \in JobRecords : job.stored /\ store' = [store EXCEPT ![j] = job]
        /\ last' = [last EXCEPT ![j] = "none"]
     \/ /\ Stored(j)
        /\ \/ store' = [store EXCEPT ![j].stored = FALSE] /\ UNCHANGED last
           \/ store' = [store EXCEPT ![j].enabled = ~@] /\ UNCHANGED last
           \/ /\ \E outcome \in {"ok", "error"} : last' = [last EXCEPT ![j] = outcome]
              /\ UNCHANGED store
  /\ count.edits < MaxEdits
  /\ count' = [count EXCEPT !.edits = @ + 1, !.cli = @ + 1]
  /\ UNCHANGED <<now, armed, started, thread>>

-----------------------------------------------------------------------------
(* Start, Stop and a restart of the process.                                 *)

Start ==
  /\ ~started
  /\ started' = TRUE
  /\ armed' = [j \in Jobs |-> IF Stored(j) THEN Arming(store[j]) ELSE Off]
  /\ UNCHANGED <<now, store, thread, last, count>>

\* The service is gone, with all that it had armed.
Halt ==
  /\ started /\ count.stops < MaxStops
  /\ started' = FALSE
  /\ armed' = [j \in Jobs |-> Off]
  /\ count' = [count EXCEPT !.stops = @ + 1]
  /\ UNCHANGED <<now, store, last>>

\* Stop clears the maps. Runs under way go on, with a canceled context.
Stop == Halt /\ UNCHANGED thread

\* The process ends, and the runs under way with it.
Crash ==
  /\ Halt
  /\ thread' = [r \in Threads |-> [pc |-> "idle", job |-> NoJob, force |-> FALSE]]

-----------------------------------------------------------------------------
(* runJobByID.                                                               *)

Call(r, j, force) ==
  /\ thread[r].pc = "idle"
  /\ thread' = [thread EXCEPT ![r] = [pc |-> "load", job |-> j, force |-> force]]

\* A timer fires once, an entry again and again. What fires may be a job that
\* another process has removed or disabled.
Fire(r, j) ==
  /\ \/ armed[j].st = "entry" /\ UNCHANGED armed
     \/ /\ armed[j].st = "timer" /\ now >= armed[j].at
        /\ armed' = [armed EXCEPT ![j] = Armed("fired", Every)]
  /\ Call(r, j, FALSE)
  /\ UNCHANGED <<now, store, started, last, count>>

RunNow(r, j) ==
  /\ \E force \in BOOLEAN : Call(r, j, force)
  /\ Edit
  /\ UNCHANGED <<now, store, armed, started, last>>

Done(r) ==
  thread' = [thread EXCEPT ![r] = [pc |-> "idle", job |-> NoJob, force |-> FALSE]]

\* (Mutant: whether the job is enabled is not looked at.)
MutLoadJob(r) ==
  /\ thread[r].pc = "load"
  /\ IF Stored(thread[r].job)
     THEN thread' = [thread EXCEPT ![r].pc = "run"]
     ELSE Done(r)
  /\ UNCHANGED <<now, store, armed, started, last, count>>

\* A call that cannot load the file returns, also one that a timer made.
LoadJob(r) ==
  LET t == thread[r] IN
  /\ t.pc = "load"
  /\ \/ /\ IF Stored(t.job) /\ (t.force \/ store[t.job].enabled)
           THEN thread' = [thread EXCEPT ![r].pc = "run"]
           ELSE Done(r)
        /\ UNCHANGED count
     \/ StoreFails /\ Done(r)
  /\ UNCHANGED <<now, store, armed, started, last>>

\* (Mutant: a third outcome that nothing handles.)
MutRunJob(r) ==
  /\ thread[r].pc = "run"
  /\ \E outcome \in {"ok", "error", "skipped"} :
       thread' = [thread EXCEPT ![r].pc = outcome]
  /\ UNCHANGED <<now, store, armed, started, last, count>>

\* (Mutant: when the runner fails, the call returns.)
MutRunJobQuits(r) ==
  /\ thread[r].pc = "run"
  /\ \/ thread' = [thread EXCEPT ![r].pc = "ok"]
     \/ Done(r)
  /\ UNCHANGED <<now, store, armed, started, last, count>>

\* The runner enqueues a run, or fails. No lock is held.
RunJob(r) ==
  /\ thread[r].pc = "run"
  /\ \E outcome \in {"ok", "error"} :
       thread' = [thread EXCEPT ![r].pc = outcome]
  /\ UNCHANGED <<now, store, armed, started, last, count>>

\* (Mutant: the job is deleted from the file and stays armed.)
MutFinishRun(r) ==
  LET j == thread[r].job IN
  LET outcome == thread[r].pc IN
  LET deletes == store[j].once /\ outcome = "ok" IN
  /\ outcome \in {"ok", "error"}
  /\ IF Stored(j)
     THEN /\ store' = [store EXCEPT ![j].stored = ~deletes]
          /\ last' = [last EXCEPT ![j] = IF deletes THEN @ ELSE outcome]
     ELSE UNCHANGED <<store, last>>
  /\ Done(r)
  /\ UNCHANGED <<now, armed, started, count>>

\* (Mutant: the copy of the job from before the run is written back.)
MutFinishRunStale(r) ==
  LET j == thread[r].job IN
  LET outcome == thread[r].pc IN
  LET deletes == store[j].once /\ outcome = "ok" IN
  /\ outcome \in {"ok", "error"}
  /\ store' = [store EXCEPT ![j].stored = ~deletes]
  /\ last' = [last EXCEPT ![j] = IF deletes THEN @ ELSE outcome]
  /\ IF deletes THEN UnarmJob(j) ELSE UNCHANGED armed
  /\ Done(r)
  /\ UNCHANGED <<now, started, count>>

\* The job is looked up again: it may be gone, or changed. Without the file
\* the result is dropped.
FinishRun(r) ==
  LET j == thread[r].job IN
  LET outcome == thread[r].pc IN
  LET deletes == store[j].once /\ outcome = "ok" IN
  /\ outcome \in {"ok", "error"}
  /\ \/ ~Stored(j) /\ UNCHANGED <<store, armed, last, count>>
     \/ StoreFails /\ UNCHANGED <<store, armed, last>>
     \/ /\ Stored(j)
        /\ IF deletes THEN UnarmJob(j) ELSE UNCHANGED armed
        /\ \/ /\ store' = [store EXCEPT ![j].stored = ~deletes]
              /\ last' = [last EXCEPT ![j] = IF deletes THEN @ ELSE outcome]
              /\ UNCHANGED count
           \/ StoreFails /\ UNCHANGED <<store, last>>
  /\ Done(r)
  /\ UNCHANGED <<now, started>>

RunStep(r) == LoadJob(r) \/ RunJob(r) \/ FinishRun(r)

Tick ==
  /\ now < MaxNow
  /\ now' = now + 1
  /\ UNCHANGED <<store, armed, started, thread, last, count>>

Next ==
  \/ \E j \in Jobs :
       \/ Add(j) \/ Update(j) \/ SetEnabled(j) \/ Remove(j) \/ EditElsewhere(j)
  \/ Start \/ Stop \/ Crash \/ Tick
  \/ \E r \in Threads :
       \/ \E j \in Jobs : Fire(r, j) \/ RunNow(r, j)
       \/ RunStep(r)

\* Goroutines run, the clock goes on, and what is armed fires.
Progress ==
  /\ WF_vars(Tick)
  /\ \A r \in Threads : WF_vars(RunStep(r))
  /\ \A j \in Jobs : WF_vars(\E r \in Threads : Fire(r, j))

Spec == Init /\ [][Next]_vars /\ Progress

-----------------------------------------------------------------------------
(* Properties.                                                               *)

\* The types of the file, of what is armed and of the calls.
TypeOK ==
  /\ now \in 0..MaxNow
  /\ store \in [Jobs -> JobRecords]
  /\ armed \in [Jobs -> ArmedStates]
  /\ started \in BOOLEAN
  /\ thread \in [Threads -> [pc : {"idle", "load", "run", "ok", "error"},
                             job : Jobs \cup {NoJob}, force : BOOLEAN]]
  /\ last \in [Jobs -> {"none", "ok", "error"}]
  /\ count \in [faults : Nat, edits : Nat, stops : Nat, cli : Nat]

\* A run that was under way when its job was removed, here or by the command
\* line, never writes the job back into the file: only a user's Add does.
RemovedStaysRemoved ==
  [][\A j \in Jobs :
       ~Stored(j) /\ Stored(j)' => count'.edits = count.edits + 1]_vars

\* Memory and file agree: what is armed is stored and enabled, whatever load or
\* save failed and whichever run deleted its job; and as long as none failed,
\* every enabled job with a run to come is armed in a started service.
ArmedMatchesFile ==
  count.cli = 0 =>
    \A j \in Jobs :
      /\ armed[j].st \in {"entry", "timer"} => Stored(j) /\ store[j].enabled
      /\ /\ started /\ Stored(j) /\ store[j].enabled /\ count.faults = 0
         /\ store[j].at = Every \/ store[j].at > now
         => armed[j].st # "off"

\* A job that stays disabled or removed is soon run no more, although the
\* command line leaves its entry armed in the service.
QuietWhenDisabled ==
  \A j \in Jobs :
    <>[](~Stored(j) \/ ~store[j].enabled)
      => <>[](\A r \in Threads :
               thread[r].job = j => thread[r].force \/ thread[r].pc = "load")

\* An armed job is served: it runs and leaves its result in the file, unless
\* it is removed, disabled or unarmed. A failing load or save costs an interval
\* one of its runs; only a timer has then fired for nothing.
ArmedJobRuns ==
  \A j \in Jobs :
    armed[j].st \in {"entry", "timer"}
      ~> \/ last[j] # "none" \/ ~Stored(j) \/ ~store[j].enabled
         \/ armed[j].st = "off"
         \/ armed[j].st = "fired" /\ count.faults > 0
=============================================================================
