# A TLA+ model of or3-intern

or3-intern is a Go service that runs external coding agents ("runners") on
behalf of chat turns, channels, cron jobs and the command line. This directory
holds TLA+ modules for its core, the TLC configurations that check them on
small instances, and TLAPS proofs that hold for every instance. All paths below
are relative to `src/`.

## 1. Inventory

| component | source | state | operations |
|---|---|---|---|
| job registry | `internal/jobs/registry.go` | in-memory entries: status, event log, subscribers, done channel, cancel function | Register, AttachCancel, Cancel, Publish, Complete, Fail, PauseForApproval, Reopen, Subscribe, Wait, clean-up |
| run table | `internal/db/runner_run_store.go` | table `runner_runs`: status, requested_at, previews; `runner_run_events` | limited insert, claim, abort of a queued run, pause, resume, finalize, lists |
| runner manager | `internal/runners/manager.go` | worker goroutines, notify channel, continuation map, started/stopping | Start, Stop, Enqueue, Abort, runOnce, executeRun, pause, resume, finalizeRun, recovery ticker |
| chat turns | `internal/runners/chat_manager.go`, `internal/db/runner_chat_store.go` | sessions, turns, chat events | StartTurn, AbortTurn, RespondToTurnApproval, the mirror of job events, startup reconciliation |
| service facade | `internal/app/service_app.go` | none of its own | AbortJob and forwards |
| approval broker | `internal/approval`, `internal/db/approval_store.go` | requests, tokens, allow lists, pairings, devices | create, decide, expire, issue and consume tokens, pair |
| native runtimes | `internal/runners/native_runtime.go`, `opencode_lifecycle.go`, `codex_session.go`, `process.go` | managed servers with their watchdogs, agent sessions | ensure a server, execute, stream, respond, continue, abort, stop |
| cron | `internal/cron`, `internal/cronrunner`, `cmd/or3-intern/cron_cmd.go` | job file, armed entries and timers | Add, Update, SetEnabled, Remove, Start, Stop, RunNow, firing |
| event bus, heartbeat, triggers | `internal/bus`, `internal/heartbeat`, `internal/triggers` | a bounded channel, timers | publish, consume |
| secure connections | `internal/secureconn`, `internal/connect`, `internal/db/relay_store.go` | enrolments, sessions, relay queues | enrol, connect, revoke, relay |
| authentication, audit | `internal/auth`, `internal/security` | sessions, challenges, hash chain | login, step-up, append, verify |
| memory | `internal/memory`, `internal/memorysvc` | notes, consolidation cursor | search, consolidate |
| surface | `internal/channels`, `internal/controlplane`, `cmd/or3-intern`, `internal/config`... | configuration and I/O | |

**How they interact.** A chat turn calls `Manager.Enqueue`, which inserts a
`queued` row, registers a job and puts a token into the notify channel. A worker
claims the oldest queued row with one `UPDATE ... RETURNING`, attaches a cancel
function to the job and drives the agent. The agent ends (the row is finalized
and then the job is completed), or it asks for an approval: the row becomes
`approval_required`, the job becomes terminal in the registry, and the worker
goes on with other runs. An approval reopens the job and starts a continuation,
which is not a worker: it is known to the manager through a map keyed by job.
`Abort` can come at any time, from the HTTP service (through
`ServiceApp.AbortJob`), from a chat turn, or from a resumption that failed. Chat
turns follow the job through `Subscribe`; other callers block in `Wait`. A turn's
row is written by the call that starts it, by the mirror goroutine that follows
its job, by `AbortTurn` and by the approval that continues it. What an agent may
do without a question is the approval broker's decision: a question opens a
request, an operator's answer issues a token, and the retried call consumes it.
Runs with a native OpenCode runtime share one managed server. Cron jobs enqueue
runs; their file is shared with the command line.

**What is hard.** Two records of one run (the row and the job) are written in
separate steps by several goroutines; finishing a job takes two critical
sections; abort, pause and resume each take several steps that interleave; the
process can stop or crash between any two steps, and a restart runs its workers
while it still reconciles; the notify channel drops tokens; SQL statements
fail; turn rows, approval requests and tokens are read in one statement and
written in another; a shared server is started, probed and replaced without a
lock; a cron job runs while its file is edited. The list of hazards, each at its line, is in `PROJECT.json`.

**What makes each component correct.**
- registry: a subscriber sees an unbroken stream after its snapshot and is
  never left on a channel that nobody closes; a waiter can be woken; active jobs
  are never evicted; a terminal job is frozen until it is reopened;
- run table and manager: at most one agent per run; rows only move along the
  life cycle; the registry never shows a result the row does not have; a running
  row has an owner; a restart aborts orphans only; an acknowledged abort takes
  effect; queued rows are served, running rows end, Abort returns;
- chat turns: one active turn per session, which ends as long as its last writer can
  write; an aborted turn is
  never active again; a turn at rest shows what its run did;
- approval broker: a request is decided once, a token admits one execution, of
  the subject that was approved, and one live request stands for all who wait for it;
- cron: what is armed is what the file says, a removed job stays removed, a
  disabled one is not run, an armed one is;
- OpenCode runtime: a clean-up never stops the replacement of the server it was for, no
  server outlives its use, every call returns.

## 2. Modules

| module | what it is |
|---|---|
| `JobRegistry` | the registry alone, with its event logs, subscribers, waiters and eviction |
| `RunLifecycle` | abstract specification of one run's row: the allowed status changes |
| `RunnerRuns` | the manager, the run table and the manager's view of the registry, with workers, continuations, aborts, resumptions, restart and failures |
| `ChatTurns` | the turns of one session with their four kinds of writer, over a run and its job as one record |
| `ApprovalBroker` | evaluations, requests, tokens and the allowlist |
| `CronService` | the job file, what is armed, the runs, and the command line on the same file |
| `OpenCodeRuntime` | the managed OpenCode servers, the runs that share them, and the watchdogs |
| `MCRunnerRuns` | `RunnerRuns` for TLC, with symmetry sets |
| `RunnerRunsProofs` | type correctness of `RunnerRuns` |
| `RunnerRunsSafety` | the inductive invariant, the safety theorems and the refinement of `RunLifecycle` |
| `RunnerRunsAborts` | what an acknowledged abort means |
| `JobRegistryProofs`, `ChatTurnsProofs`, `ApprovalBrokerProofs`, `CronServiceProofs`, `OpenCodeRuntimeProofs` | type correctness and all safety properties of these modules |

The other modules have no MC module: their configurations name them directly, as
their constants need no definitions.

**JobRegistry.** A method that holds `r.mu` throughout is one action.
`Complete`, `Fail` and `PauseForApproval` publish in one critical section and
mark the job terminal in another, so they are two actions (`FinishPublish`,
`MarkTerminal`) of a finisher process; `Wait` is `WaitBegin`,
`WaitDone`/`WaitCtxDone` and `WaitReturn`. An event is its sequence number. Time
is the relation `older`, the order of `updatedAt`; the retention period is over for
any set of oldest terminal entries (`OldestTerminal`), because only the age of an
entry counts. Each registration first cleans up, as in the code. The jobs outside
`Busy` are only registered: they are there for the clean-up.

**RunnerRuns.** A step is one SQL statement or transaction, one critical section
of the registry, or one of `m.mu`. Each goroutine is a record with a program
counter:

| variable | code |
|---|---|
| `row`, `requestedAt` | columns of `runner_runs` |
| `job` | the registry entry: presence, status, terminal flag, which execution's cancel function is attached |
| `enq` | a caller of `Enqueue`: stamp, insert, register, publish, signal |
| `worker` | `workerLoop`: claiming, waiting for a token, executing |
| `ex["worker"]`, `ex["cont"]` | an `executeRun`, and a continuation of `ResumeNativeRunAfterApproval` (present in `m.continuations` unless `off`) |
| `ab` | a call of `Manager.Abort` or `ServiceApp.AbortJob`; a failed resumption makes one too |
| `re` | `resumeTurnAfterNativeApproval` |
| `notify` | number of tokens in `m.notifyCh` |
| `mgr`, `todo` | the process, and what `Start` has listed and not yet reconciled |
| `pauses`, `crashes`, `faults` | counters for the bounds |

Failures: any SQL statement of an enqueue, a worker, a finalizer, an abort, a
resumption or the reconciliation may fail, and so may the preparation of a
continuation (`faults`); a `Start` whose listing fails leaves the process down
and is not a step. A resumption whose continuation is over returns before a
later one of the same run registers (`Unreturned`): its return changes nothing
another goroutine reads. `Stop` cancels the contexts and waits;
`Crash` ends the process between any two steps, keeping the rows, and the answers
that callers already have; `Start`
lists the interrupted rows, starts the workers and then reconciles while they
run.

Abstractions. `Runtimes.ForEach(Abort)` at the head of `Manager.Abort` tells an
agent to end, and an agent may end at any time anyway. `workerLoop`'s exit when
the database is closed is left out, as no step follows it. A recovered panic is
an execution that fails (`ExecBreaks`). A continuation leaves the map in the
same step as its last effect, so an approval that arrives before that finds it
there, and its failure aborts the run, as in the code. The answers
`AbortJob` derives from a snapshot when `Manager.Abort` refused are all "not
acknowledged" or "already finished" and are not told apart. Command lines,
environments, previews and the persisted event rows are left out.

**ChatTurns.** `turn` is the row (status, whether it names its job, which kind of
permission request is attached and whether it is open); `msg` the status in the
assistant message; `start`, `mirror`, `abort` and `reply` are the goroutines of
`StartTurn`, `mirrorJobEventsAfter` (one for each continuation), `AbortTurn` and
`RespondToTurnApproval`. A step is one statement on the turn or the message, one
call of the manager, or one of the registry. The run and its job are one record,
`job`, that changes as `RunnerRuns` and `JobRegistry` let it: `Manager.Abort` is
one step, and so is a pause. `asking` is an agent whose request is published and
whose run has not paused yet; a job that was finished and then reopened by a late
approval is `revived` and never ends again. Any call of the store or of the
manager may fail, and the process may crash (`count.faults`): `StartTurn` then
gives up (`FailStart`, `GiveUp`), a mirror and `AbortTurn` end without having
written the status (`Finalize`), and a continuation returns, before or after it
has reopened the job (`ReplyResume`, `ReplyReopen`); other errors are only logged.
A timeout is a failure; a runtime that reports a failed turn fails its job. `Spec`
has a registry that keeps the jobs of paused turns, `SpecEvicting` the registry as
it is. The agents of the turns in `Asking` ask.

Two history variables name what the properties except. `lost` has the turns one of
whose goroutines gave up because its own call failed, after which the turn may be
left active with nobody to write it; `TurnOwned` and `TurnEnds` except these, and
so say that nothing else leaves a turn active: no abort, no answer, no ordering of
the four writers, no crash, and no failure that the code handles. `overlap` has the
turns that were continued while an earlier mirror still followed them; the
properties are about the others, the `Regular` turns. How a turn comes to be in
either set, and what then goes wrong, is described below.

**ApprovalBroker.** A call of `evaluate` is up to four steps, one for each access
to the database: verify the token, consume it, apply mode, allowlist and
autopilot, create or find the request. Approval is one transaction; denial and
cancellation read and then write; the sweep is one statement. The subjects differ
in what an allowlist matcher ignores, so one allowlist row is enough. Times are
small numbers, and the boundary cases (`expires_at` equal to the clock) are as in
the statements: a request at its expiry is no longer found but still approved, a
token at its expiry is still good. Signatures and hashes are not modelled: a
token is the id of its request, which carries the subject.

**CronService.** Each operation holds the mutex and the file lock from load to
save, and is one step with two outcomes, saved and not saved. `runJobByID` is
three: load, run, record; the first and the last may fail to lock or to load the
file, and then return without running the job or without recording its result. `armed` is the maps of entries and timers, with the time
a timer was set for; a fired timer stays in its map, as in the code.
`EditElsewhere` is the command line, which has a service of its own on the same
file. Intervals and cron expressions are one kind of schedule, which may fire at
any time. `Stop` leaves runs under way alone, `Crash` ends them.

**OpenCodeRuntime.** `server` is a process with its lifecycle and watchdog;
`runtime` the fields of `OpenCodeNativeRuntime`; `call` a run's `Execute`, or
`ContinuePendingTurn` after an approval, with its local variables `endpoint` and
`lc`; `session` its session on a server and what the agent does there.
`ensureServer` is six steps, as it takes the lock only to read and to write the
fields and calls itself after a clean-up. A request fails when its server is down
or its context is done, and may fail on a server that is up (`ServerError`). So
may the probe, which has two seconds and takes any answer but a 2xx for a failure:
`late` in `call` remembers that the server was up. The stream of events may break, or begin too late, at any
time, so an agent's question may be missed. What a canceled run's agent goes on to
do on the server is not followed, nor is the second execution that mode `auto`
makes with the command line after an error.

## 3. Runs

All runs set `CHECK_DEADLOCK FALSE`: every caller makes a bounded number of
calls, and when they have returned the service is idle, which is no error.

| run | instance | checks |
|---|---|---|
| `registry` | 3 jobs, of which 1 is used after its registration, room for 1; 2 finishers, 1 subscriber, 1 waiter, 3 events, 1 Reopen, a log and a buffer of 2 | types, `GapFreeDelivery`, `NoStrandedSubscriber`, `ReplayWindow`, `WaitersWakeable`, `TerminalFrozen`, `SubscriptionsEnd`, `ActiveNeverEvicted`, `RegisterRestoresTarget` |
| `runs_batch` | 1 run, 1 pause, 2 workers, an Abort and an AbortJob, 1 stop or crash with a restart | types, `AbortSettles`, `AbortStopsExecution` |
| `runs_approval` | 1 run, 2 pauses, 2 resumptions, 1 Abort, 1 stop or crash with a restart | `OneExecution`, `FinishedJobMatchesRow`, `RunningRowOwned`, `ReconcileOnlyOrphans`, refinement of `RunLifecycle` (`Lifecycle`) |
| `runs_waiting` | 1 run, 1 pause, 1 resumption, 1 Abort, 1 failed statement | `AbortReturns`, `QueuedIsServed` |
| `runs_tokens` | 2 runs, 1 worker (one token), no ticker | `QueuedIsServed`, `RunningEnds` |
| `chat_turns` | 2 turns, one of which asks, 1 continuation, 1 abort, 2 failing calls or crashes | types, `TurnOwned`, `AbortIsFinal`, `RestAgrees`, `TurnEnds` |
| `approvals` | 2 calls, 1 operator, 2 subjects, 2 requests, clock 0..2, lifetimes of 1 | types, `TokenOnce`, `TokenBacked`, `SharedRequest`, `ResolvedOnce` |
| `cron` | 1 job, 2 overlapping runs, 3 edits, 1 failing load or save, 1 restart, clock 0..2 | types, `ArmedMatchesFile`, `RemovedStaysRemoved`, `QuietWhenDisabled`, `ArmedJobRuns` |
| `opencode` | 2 runs, one of which asks up to twice, 2 servers, 1 crash or Stop | types, `CleanupSparesHealthy`, `ServersReclaimed`, `CallsReturn` |
| `runs_abort_paused` | violation | `AckedAbortSettles` |
| `approvals_expired` | violation; 1 call, made again | `ExpiredIsReplaced` |
| `chat_evicted` | violation; 1 turn, 1 continuation, registry with retention | `NoTurnFalselyRunning` |

**Bounds.** Two finishers are enough for a step between the halves of the other;
three events overflow both the log (2) and the subscriber's buffer (2). Three
jobs in a registry with room for one make the clean-up drop one, two or none, the
job with the subscriber and the waiter included.
Two workers and one run are the race for a claim; two runs and one worker with a
channel of one token are the smallest instance where a token is dropped. Two
pauses let the second pause of a continuation meet the second resumption. One
crash is enough, as `Start` begins from the rows only. Runs share no row and no
job, so one run is enough where neither the queue nor the tokens matter; the
proofs cover any number, and also failed statements, which only `runs_waiting` has.
Two turns are what the unique index is about, and one
continuation gives a turn two mirrors; the second failure is one in the handling of
the first. With one continuation no turn overlaps, so that run checks the
properties without that exception; the proofs are for any number of
continuations. Two calls are the race for a token, and the
clock passes the expiry and the instant before it. Cron jobs share only the locked
file; three edits add, change and remove a job, or remove it and add it again,
while a run is under way. Two servers are a server and its replacement, or one for
each run; a run that needs a third fails to start it, as when the binary is
missing. The symmetry sets permute ids that the actions treat alike; records of
idle goroutines hold a chosen id that nothing reads before it is overwritten.

**Fairness.** Weak fairness of every goroutine's next step: the Go scheduler
runs each runnable goroutine, and SQL statements return. In `RunnerRuns` an agent
eventually ends or asks. For batch runs a deadline guarantees that
(`manager.go:282-294`), and `RunningEnds` is checked with such runs; chat runs have
none, so for `AbortReturns` with its continuation and for `TurnEnds` it is an
assumption about the agent. `CallsReturn` does without it: no agent has to end,
and what ends the call is the two-minute wait of a continuation or the idle
watchdog of its server. A service that stops exits, and one that is down is
started again (it runs under a supervisor). `Spec` of `RunnerRuns` also lets the
recovery ticker tick; `SpecNoTick` does not, so that what the tokens guarantee by
themselves is visible. In `CronService` what is armed fires and the clock goes on;
nothing makes the service start. Nothing anywhere makes a caller call, an operator
answer, a statement fail or the process crash.

### What the violations show

- `runs_abort_paused`: a run that paused for approval keeps the cancel function
  of the execution that ended in the pause. `AbortJob` finds it, calls it,
  reports success and never reaches `Manager.Abort`, which would finish the row.
  The same lost abort exists without `AbortJob`: a cancel between
  `executeRun`'s look at the context (`manager.go:525`) and the pause of the row
  (`manager.go:804`) is acknowledged, and the row becomes `approval_required`.
- `chat_evicted`: the registry drops terminal jobs after its retention, and a
  paused job is terminal. When the user approves after that, the turn is marked
  running, `Reopen` finds nothing, the mirror for the continuation cannot
  subscribe and returns, and the continuation's result reaches nobody. The turn
  stays `running` and the session's unique index refuses every further turn until
  a restart aborts it.
- `approvals_expired`: `docs/security-and-hardening.md:166` says that after a
  request expired the next attempt creates a fresh one. Until an operator runs the
  sweep, the expired row still holds the unique index on pending requests, is not
  found as pending, and the attempt ends in an error (`RequireApproval`).
  `SharedRequest` is about live requests and says nothing of this.

Met while modelling, without a run of their own:
- `Abort` looks for a continuation, cancels the attached function and reads the
  row. A resumption that registers after the first and makes the row running
  before the last leaves `Abort` with a cancelled dead execution and the answer
  "running, cancelled", while the agent works on. `AbortStopsExecution` and
  `AbortSettles` are therefore about runs that have not paused.
- `pauseRunForNativeApproval` writes the row before the registry, so `Abort`'s
  Reopen can come before the pause of the job, whose status then stays at
  `approval_required`.
- Some error paths leave a turn `running` with nobody to write it, until `AbortTurn`
  or a restart; the session's index refuses other turns meanwhile. The continuation
  of an approved turn has marked it running when it returns because the run, the
  turn or the session cannot be read (`chat_manager.go:614-618`, `643-652`), the
  latter with the job already reopened. The mirror only logs a failed update and ends
  (`917-925`), `StartTurn` drops the error of its last update, and a failed
  `AbortTurn` returns one to its caller (`371`). These are the turns of `lost`.
- While a turn is paused, another turn of its session can become active. The
  approval of the first then continues its run, but the index refuses to mark the
  turn running, and that error is dropped (`chat_manager.go:482`): the row says
  `approval_required` while the continuation works and a mirror follows it. If the
  agent asks again and is answered before that mirror has written, two mirrors and
  a mark compete for the row, and a turn that was aborted can become active again.
  These are the turns of `overlap`; a proof attempt of `AbortIsFinal` found them.
- An always-allow that meets an expired but enabled allowlist row keeps that row
  (`AllowWith`), and so allows nothing beyond its token.
- `Update`, `SetEnabled` and `Remove` of cron disarm before they save: after a
  failed save the job is stored but not armed until a restart. A job added or
  resumed on the command line is not armed either, and a one-shot whose time
  passes while the service is down is not made up for.
- A timer that fires while the file cannot be locked or loaded (`cron.go:605-614`)
  has fired for nothing: the job is not run, and no restart sets the timer again, as
  its time has passed. An interval fires again, and its job is run. `ArmedJobRuns` excepts just the first.
- A probe of the shared OpenCode server fails when the server answers late or with
  an error, and when the run that probes was canceled (`native_runtime.go:770`,
  `915-922`). The run then takes the server for dead and stops it (`802-804`) under
  the other runs, whose requests fail. `CleanupSparesHealthy` says that no server
  suffers this but the very one that was probed, and none after a probe that found
  its server down; it does not say that a busy server is spared. The watchdog counts from the last `ensureServer`, so a run
  that is longer than the idle timeout loses its server.

## 4. Proofs

Every safety invariant and every safety action property that a passing run checks
is also a theorem about the same specification, for all values of the constants.
The assumptions are the named ones of each module: bounds are natural numbers,
sizes of logs, buffers and registries are positive, `Runs`, `Workers` and `Jobs` of
the registry are not empty, and in `RunnerRuns` the sets of runs, workers and
resumptions are finite and the kinds of callers disjoint. None of them restricts
the program.

In each module the properties are not inductive as they stand. An invariant `IInv`
adds what they depend on, `Init` implies it, each action has a lemma that it
preserves it, and the theorems follow. The invariants were first checked with TLC
on the instances of the runs.

**RunnerRuns** (`RunnerRunsProofs`, `RunnerRunsSafety`): `TypeOK`, `OneExecution`,
`FinishedJobMatchesRow`, `RunningRowOwned`, `ReconcileOnlyOrphans`, and the
refinement of `RunLifecycle`. `IInv` says who may still decide about
a run. Before the first pause (`pauses = 0`) only the worker that claimed the
row decides, and the row is `running` until it has (`WorkerExecInv`); after it
only a continuation, which the map keeps unique, and an abort of a paused row can
(`ContExecInv`, `AbortInv`, `ResumeInv`). A decided execution has its status in
the row before it tells the registry (`DecidedInv`), so a finished job matches.
A claimed run belongs to one worker (`WorkerInv`). A process that is down has
neither goroutines nor registry (`DownInv`), so what `Start` lists has no
execution, and keeps having none, since a claim takes queued rows only
(`StartInv`). The refinement follows from `RowSteps`: a step moves no row, or one
row along an edge of the life cycle.

**Aborts** (`RunnerRunsAborts`): `AbortStopsExecution` and `AbortSettles`. The key
is `Stopped`: the run was claimed, and the worker's agent, if it is still at work,
has a context that is done. Nothing undoes it: rows do not go back, and only a
claim makes a live context (`StoppedStays`). A call that has cancelled something,
or has answered yes, has found its run stopped, or the run has paused (`TookInv`),
because an attached function belongs to a claimed run and before the first pause
to the worker's execution (`CancelInv`, `FirstExecInv`). With `RunningRowOwned` a
stopped run that nothing moves any more is finished.

**JobRegistry** (`JobRegistryProofs`): `TypeOK`, `GapFreeDelivery`,
`NoStrandedSubscriber`, `ReplayWindow`, `WaitersWakeable`, `TerminalFrozen`,
`ActiveNeverEvicted`, `RegisterRestoresTarget`. `SubInv` ties the two ends of a
subscription together: a channel in an entry's list is open, read by its client,
and the entry is tracked and active. `OrderInv` makes `older` a total order of
finitely many tracked jobs, so a clean-up that is over its target always finds
an oldest terminal one.

**ChatTurns** (`ChatTurnsProofs`): `TypeOK`, `TurnOwned`, `AbortIsFinal`,
`RestAgrees`. The invariant is turn by turn. `StartInv`: nothing of a turn is under
way before `StartTurn` is done. `MirrorInv`: there is one mirror for each
continuation, and the channel of a paused or finished job is closed. `TicketInv`: a
request of the agent is in one place at a time, the job, the newest mirror, the row
or the answer, and an answer uses it up. `AbortInv`: a run that `AbortTurn` has
aborted stays so, and a regular turn has one follower at a time. `OwnInv`: who
finishes an active turn that is not in `lost`. `RestInv`: what the newest mirror of an undisturbed turn
knows is the job's status. A step of one turn leaves the others alone (`Frame`).

**ApprovalBroker** (`ApprovalBrokerProofs`): `TypeOK`, `TokenOnce`, `TokenBacked`,
`SharedRequest`, `ResolvedOnce`. A token exists for approved requests only and an
approval is for good (`TokenInv`), a subject has one pending request (`PendingInv`),
and a call compares subjects before it consumes, and is alone with the token that
it used (`CallInv`, `TokenOnce`).

**CronService** (`CronServiceProofs`): `TypeOK`, `ArmedMatchesFile`,
`RemovedStaysRemoved`. `ArmedMatchesFile` is nearly inductive; the proof adds that
a call under way is about a job (`ThreadInv`).

**OpenCodeRuntime** (`OpenCodeRuntimeProofs`): `TypeOK`, `CleanupSparesHealthy`.
Endpoint and lifecycle always name the same server (`Refers`), a server that is
down stays down (`ServersAge`), and a call that is about to clean up knows whether
its probe found the server down (`Remembers`).

**Only model-checked.** Everything with fairness, as the prover has no support for
it: `SubscriptionsEnd`, `QueuedIsServed`, `RunningEnds`, `AbortReturns`, `TurnEnds`,
`ArmedJobRuns`, `QuietWhenDisabled`, `ServersReclaimed`, `CallsReturn`. The
violations (`AckedAbortSettles` without the restriction to runs that have not
paused, `NoTurnFalselyRunning`, `ExpiredIsReplaced`) are found by TLC; a proof cannot show them.

## 5. Plan

1. Safety parts of the liveness properties, where they are worth stating: that a
   waiting `Abort` always has a continuation that is cancelled, and that a server
   that nobody uses has an armed watchdog.
2. `RunnerRuns` after the first pause: which acknowledged aborts still hold when no
   resumption overlaps them.
3. `ChatTurns` as an implementation of an abstract session with one active turn.

## 6. Not modelled

- Event bus, heartbeat and triggers: a buffered channel, timers and handlers that
  put an event into it; they keep no state that steps could disagree about.
- Codex sessions and the one-shot command line adapters: a protocol of text lines
  with a child process. `RunnerRuns` sees them as an execution that may end, fail
  or ask.
- The persisted-output budget: it bounds stored previews only.
- Pairing, devices, authentication, secure connections and the relay: their core
  is cryptography and token formats, which a model would have to assume.
- The audit chain: one append under one lock.
- Memory, messages and artifacts: text processing, scoring and row storage.
- Channels, configuration, skills, the HTTP and command line surface, clients and
  scripts: I/O, parsing and formatting.
