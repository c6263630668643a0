--------------------------- MODULE OpenCodeRuntime ---------------------------
(* The native OpenCode runtime: native_runtime.go and opencode_lifecycle.go, *)
(* as tryExecuteNativeRun of the manager drives it. Runs share one managed   *)
(* server, which the first of them starts, an idle watchdog stops, and any   *)
(* run replaces that finds it unhealthy. ensureServer holds the lock only to *)
(* read and to write the fields, so starts, probes, clean-ups and stops of   *)
(* several runs interleave, and a server can lose its last reference.        *)
(*                                                                           *)
(* A configured external server, which is probed and never started or        *)
(* stopped, and Info, which reads, are left out.                             *)
EXTENDS Naturals

CONSTANTS
  Runs,
  Askers,       \* the runs whose agent asks for permissions
  MaxServers,   \* bound on servers started
  MaxFaults,    \* bound on servers that die and calls of Stop
  MaxAsks       \* bound on permission requests

ASSUME RuntimeAssumption ==
  Askers \subseteq Runs /\ {MaxServers, MaxFaults, MaxAsks} \subseteq Nat

VARIABLES
  server,    \* the processes, each with its lifecycle
  runtime,   \* the fields endpoint and lifecycle, 0 for none
  call,      \* Execute or ContinuePendingTurn of a run
  session,   \* the run's session on a server, and the agent that works on it
  count      \* faults and permission requests so far

vars == <<server, runtime, call, session, count>>

Servers == 1..MaxServers
None == 0

\* lifecycle.process is held until a Stop takes it; the watchdog is off, armed,
\* or has found the server idle.
NewServer == [st |-> "none", held |-> FALSE, idle |-> FALSE, watch |-> "off"]

NewCall == [pc |-> "ensure", leg |-> "execute", ctx |-> TRUE,
            endpoint |-> None, lifecycle |-> None, late |-> FALSE,
            seen |-> "no"]
NewSession == [on |-> None, agent |-> "none", tracked |-> FALSE]

Init ==
  /\ server = [s \in Servers |-> NewServer]
  /\ runtime = [endpoint |-> None, lifecycle |-> None]
  /\ call = [r \in Runs |-> NewCall]
  /\ session = [r \in Runs |-> NewSession]
  /\ count = [faults |-> 0, asks |-> 0]

Ended == {"ok", "failed"}

Up(s) == s # None /\ server[s].st = "up"
Go(r, pc) == call' = [call EXCEPT ![r].pc = pc]

\* The call returns and the run is over. What its agent, told to stop or not,
\* does on the server afterwards is not followed.
Return(r, result) ==
  /\ call' = [call EXCEPT ![r] = [NewCall EXCEPT !.pc = result]]
  /\ session' = [session EXCEPT ![r] = NewSession]

\* A lifecycle whose process is taken from it and, if it held one, killed.
Released(lifecycle, watch) ==
  [st |-> IF lifecycle.held THEN "killed" ELSE lifecycle.st,
   held |-> FALSE, idle |-> FALSE, watch |-> watch]

\* openCodeLifecycle.Stop: ends the watchdog, takes the process, kills it.
StopServer(s) ==
  server' = [server EXCEPT ![s] =
    Released(@, IF @.watch = "armed" THEN "off" ELSE @.watch)]

-----------------------------------------------------------------------------
(* ensureServer.                                                             *)

EnsureRead(r) ==
  /\ call[r].pc = "ensure"
  /\ call' = [call EXCEPT ![r] =
       [@ EXCEPT !.pc = IF runtime.endpoint = None THEN "start" ELSE "probe",
                 !.endpoint = runtime.endpoint,
                 !.lifecycle = runtime.lifecycle]]
  /\ UNCHANGED <<server, runtime, session, count>>

\* The call has its server: Execute creates a session, ContinuePendingTurn
\* subscribes to the events of its own, of which it misses the earlier ones.
Served(r) == Go(r, IF call[r].leg = "execute" THEN "session" ELSE "follow")

\* The probe has two seconds and the run's context. It fails when the server is
\* down, and also when a server that is up answers late or with an error, or
\* when the run was canceled: `late' tells these cases from the first.
EnsureProbe(r) ==
  /\ call[r].pc = "probe"
  /\ \/ /\ Up(call[r].endpoint) /\ call[r].ctx
        /\ server' = [server EXCEPT ![call[r].lifecycle].idle = FALSE]
        /\ Served(r)
     \/ /\ call' = [call EXCEPT ![r].pc = "cleanup",
                                ![r].late = Up(call[r].endpoint)]
        /\ UNCHANGED server
  /\ UNCHANGED <<runtime, session, count>>

\* (Mutant: the server to stop is read from the fields again.)
MutEnsureCleanup(r) ==
  /\ call[r].pc = "cleanup"
  /\ IF runtime.lifecycle = None THEN UNCHANGED server
                                 ELSE StopServer(runtime.lifecycle)
  /\ Go(r, "clear")
  /\ UNCHANGED <<runtime, session, count>>

EnsureCleanup(r) ==
  /\ call[r].pc = "cleanup"
  /\ StopServer(call[r].lifecycle)
  /\ Go(r, "clear")
  /\ UNCHANGED <<runtime, session, count>>

\* (Mutant: the endpoint is kept.)
MutEnsureClear(r) ==
  /\ call[r].pc = "clear"
  /\ call' = [call EXCEPT ![r].pc = "ensure", ![r].endpoint = None,
                          ![r].lifecycle = None, ![r].late = FALSE]
  /\ UNCHANGED <<server, runtime, session, count>>

\* The fields are cleared, whatever they hold by now, and all starts again.
EnsureClear(r) ==
  /\ call[r].pc = "clear"
  /\ runtime' = [endpoint |-> None, lifecycle |-> None]
  /\ call' = [call EXCEPT ![r].pc = "ensure", ![r].endpoint = None,
                          ![r].lifecycle = None, ![r].late = FALSE]
  /\ UNCHANGED <<server, session, count>>

\* (Mutant: the context's error is taken for a result.)
MutFail(r) ==
  Return(r, IF call[r].ctx THEN "failed" ELSE "canceled")

\* An error. In mode auto tryExecuteNativeRun then runs the task again with
\* the command line, which is not part of this runtime.
Fail(r) == Return(r, "failed")

\* adoptProcess starts the lifecycle's watchdog.
AdoptProcess(s) ==
  server' = [server EXCEPT ![s] = [st |-> "up", held |-> TRUE, idle |-> FALSE,
                                   watch |-> "armed"]]

\* openCodeStart: the server gets ready within its startup budget or is killed.
\* The process belongs to the service's context, not to the run's.
EnsureStart(r) ==
  /\ call[r].pc = "start"
  /\ \/ \E s \in Servers :
          /\ server[s].st = "none"
          /\ \A u \in 1..(s - 1) : server[u].st # "none"
          /\ AdoptProcess(s)
          /\ call' = [call EXCEPT ![r].pc = "store", ![r].endpoint = s,
                                  ![r].lifecycle = s]
          /\ UNCHANGED session
     \/ Fail(r) /\ UNCHANGED server
  /\ UNCHANGED <<runtime, count>>

EnsureStore(r) ==
  /\ call[r].pc = "store"
  /\ runtime' = [endpoint |-> call[r].endpoint, lifecycle |-> call[r].lifecycle]
  /\ Served(r)
  /\ UNCHANGED <<server, session, count>>

-----------------------------------------------------------------------------
(* Execute. A request to a server fails when the server is down or the run's *)
(* context is done; ServerError below is a server that refuses it.           *)

Reachable(r) == Up(call[r].endpoint) /\ call[r].ctx

CreateSession(r) ==
  /\ call[r].pc = "session"
  /\ \/ /\ Reachable(r)
        /\ session' = [session EXCEPT ![r].on = call[r].endpoint,
                                      ![r].tracked = TRUE]
        /\ Go(r, "message")
     \/ ~Reachable(r) /\ Fail(r)
  /\ UNCHANGED <<server, runtime, count>>

\* The event stream is opened next to the message.
SendMessage(r) ==
  /\ call[r].pc = "message"
  /\ \/ /\ Reachable(r)
        /\ session' = [session EXCEPT ![r].agent = "working"]
        /\ Go(r, "wait")
     \/ ~Reachable(r) /\ Fail(r)
  /\ UNCHANGED <<server, runtime, count>>

\* The message returns: a permission request on the stream cancels it, the
\* agent ends, the server dies, or the context is done. Every way out of
\* Execute untracks the session.
MessageReturns(r) ==
  /\ call[r].pc = "wait"
  /\ \/ /\ call[r].ctx /\ call[r].seen = "asked"
        /\ Go(r, "paused")
        /\ session' = [session EXCEPT ![r].tracked = FALSE]
     \/ /\ ~(call[r].ctx /\ call[r].seen = "asked")
        /\ \/ /\ Reachable(r) /\ session[r].agent = "ended"
              /\ Return(r, "ok") \/ Fail(r)
           \/ ~Reachable(r) /\ Fail(r)
  /\ UNCHANGED <<server, runtime, count>>

\* A server that is up answers a session or a message with an error. After a
\* permission request the error is taken for the pause.
ServerError(r) ==
  /\ call[r].pc \in {"session", "message", "wait"} /\ Reachable(r)
  /\ ~(call[r].pc = "wait" /\ call[r].seen = "asked")
  /\ Fail(r)
  /\ UNCHANGED <<server, runtime, count>>

-----------------------------------------------------------------------------
(* RespondToNativeRequest and ContinuePendingTurn.                           *)

\* The answer goes to the current server. Without a delivery, and when the
\* operator refuses, the run is closed.
RespondToNativeRequest(r) ==
  /\ call[r].pc = "paused"
  /\ \/ /\ Up(runtime.endpoint) /\ session[r].on = runtime.endpoint
        /\ session[r].agent = "asked"
        /\ session' = [session EXCEPT ![r].agent = "working"]
        /\ call' = [call EXCEPT ![r] =
             [@ EXCEPT !.pc = "ensure", !.leg = "continue", !.ctx = TRUE,
                       !.seen = "no"]]
     \/ Return(r, "failed")
  /\ UNCHANGED <<server, runtime, count>>

\* A permission request pauses the run again, the first text ends it.
FollowReturns(r) ==
  /\ call[r].pc = "follow"
  /\ \/ call[r].seen = "asked" /\ Go(r, "paused") /\ UNCHANGED session
     \/ call[r].seen = "text" /\ Return(r, "ok")
     \/ ~call[r].ctx /\ call[r].seen # "asked" /\ Return(r, "failed")
  /\ UNCHANGED <<server, runtime, count>>

-----------------------------------------------------------------------------
(* The agent of a run, on a server that is up.                               *)

Works(r) == session[r].agent = "working" /\ Up(session[r].on)
Streams(r) ==
  call[r].pc \in {"wait", "follow"} /\ session[r].on = call[r].endpoint

\* The event is missed by a call that has not subscribed, that listens to
\* another server, or whose stream broke.
AgentAsks(r) ==
  /\ Works(r) /\ r \in Askers /\ count.asks < MaxAsks
  /\ count' = [count EXCEPT !.asks = @ + 1]
  /\ session' = [session EXCEPT ![r].agent = "asked"]
  /\ \/ Streams(r) /\ call' = [call EXCEPT ![r].seen = "asked"]
     \/ UNCHANGED call
  /\ UNCHANGED <<server, runtime>>

AgentText(r) ==
  /\ Works(r) /\ Streams(r) /\ call[r].pc = "follow" /\ call[r].seen = "no"
  /\ call' = [call EXCEPT ![r].seen = "text"]
  /\ UNCHANGED <<server, runtime, session, count>>

AgentFinishes(r) ==
  /\ Works(r)
  /\ session' = [session EXCEPT ![r].agent = "ended"]
  /\ UNCHANGED <<server, runtime, call, count>>

-----------------------------------------------------------------------------
(* Abort, deadlines, Stop, the watchdogs and crashes.                        *)

Underway(r) == call[r].pc \notin {"paused"} \cup Ended

\* Abort tells the current server about a session that is still tracked. The
\* manager then cancels the context, as Cancel does.
Abort(r) ==
  /\ session[r].tracked /\ session[r].agent \in {"working", "asked"}
  /\ Up(runtime.endpoint) /\ session[r].on = runtime.endpoint
  /\ session' = [session EXCEPT ![r].agent = "ended"]
  /\ UNCHANGED <<server, runtime, call, count>>

\* The run's context is canceled, by the manager's Abort or by a shutdown. A
\* chat run, and no other has a native runtime, has no deadline.
Cancel(r) ==
  /\ Underway(r) /\ call[r].ctx
  /\ call' = [call EXCEPT ![r].ctx = FALSE]
  /\ UNCHANGED <<server, runtime, session, count>>

\* The two minutes that a continuation waits for output are over.
WaitOver(r) == call[r].pc = "follow" /\ Cancel(r)

\* The fields are cleared under the lock; then the lifecycle they held, which
\* only calls that read it before can still reach, is stopped.
Stop ==
  /\ count.faults < MaxFaults
  /\ count' = [count EXCEPT !.faults = @ + 1]
  /\ runtime' = [endpoint |-> None, lifecycle |-> None]
  /\ IF runtime.lifecycle = None THEN UNCHANGED server
                                 ELSE StopServer(runtime.lifecycle)
  /\ UNCHANGED <<call, session>>

\* The idle timeout passes since the last touch.
Idle(s) ==
  /\ server[s].watch = "armed" /\ ~server[s].idle
  /\ server' = [server EXCEPT ![s].idle = TRUE]
  /\ UNCHANGED <<runtime, call, session, count>>

WatchCheck(s) ==
  /\ server[s].watch = "armed" /\ server[s].idle
  /\ server' = [server EXCEPT ![s].watch = "firing"]
  /\ UNCHANGED <<runtime, call, session, count>>

\* (Mutant: the watchdog stops its server only while it is the current one.)
MutWatchStop(s) ==
  /\ server[s].watch = "firing"
  /\ server' = [server EXCEPT ![s] =
       IF runtime.lifecycle = s
       THEN Released(@, "off")
       ELSE [@ EXCEPT !.watch = "off"]]
  /\ UNCHANGED <<runtime, call, session, count>>

WatchStop(s) ==
  /\ server[s].watch = "firing"
  /\ server' = [server EXCEPT ![s] = Released(@, "off")]
  /\ UNCHANGED <<runtime, call, session, count>>

Crash(s) ==
  /\ server[s].st = "up" /\ count.faults < MaxFaults
  /\ server' = [server EXCEPT ![s].st = "crashed"]
  /\ count' = [count EXCEPT !.faults = @ + 1]
  /\ UNCHANGED <<runtime, call, session>>

-----------------------------------------------------------------------------
CallStep(r) ==
  \/ EnsureRead(r) \/ EnsureProbe(r) \/ EnsureCleanup(r) \/ EnsureClear(r)
  \/ EnsureStart(r) \/ EnsureStore(r)
  \/ CreateSession(r) \/ SendMessage(r) \/ MessageReturns(r)
  \/ FollowReturns(r)

WatchStep(s) == Idle(s) \/ WatchCheck(s) \/ WatchStop(s)

Next ==
  \/ \E r \in Runs :
       \/ CallStep(r) \/ ServerError(r) \/ RespondToNativeRequest(r)
       \/ AgentAsks(r) \/ AgentText(r) \/ AgentFinishes(r)
       \/ Abort(r) \/ Cancel(r)
  \/ \E s \in Servers : WatchStep(s) \/ Crash(s)
  \/ Stop

\* Goroutines run; a continuation's wait and a server's idle time pass. No
\* agent has to end, no operator has to answer or to abort.
Progress ==
  /\ \A r \in Runs : WF_vars(CallStep(r) \/ WaitOver(r))
  /\ \A s \in Servers : WF_vars(WatchStep(s))

Spec == Init /\ [][Next]_vars /\ Progress

-----------------------------------------------------------------------------
(* Properties.                                                               *)

\* The types of servers, fields, calls and sessions.
TypeOK ==
  /\ server \in [Servers ->
       [st : {"none", "up", "crashed", "killed"}, held : BOOLEAN,
        idle : BOOLEAN, watch : {"off", "armed", "firing"}]]
  /\ runtime \in [endpoint : {None} \cup Servers,
                  lifecycle : {None} \cup Servers]
  /\ call \in [Runs ->
       [pc : {"ensure", "probe", "cleanup", "clear", "start",
              "store", "session", "message", "wait", "follow",
              "paused", "ok", "failed"},
        leg : {"execute", "continue"}, ctx : BOOLEAN,
        endpoint : {None} \cup Servers, lifecycle : {None} \cup Servers,
        late : BOOLEAN, seen : {"no", "asked", "text"}]]
  /\ session \in [Runs ->
       [on : {None} \cup Servers,
        agent : {"none", "working", "asked", "ended"},
        tracked : BOOLEAN]]
  /\ count \in [faults : Nat, asks : Nat]

\* A run's clean-up never takes down a server that another run started in the
\* meantime: it stops an up server only if that is the very one it probed, and
\* only if the probe itself found it up, answering late or with an error, or
\* was canceled. A run that found its server dead stops none that is up.
CleanupSparesHealthy ==
  [][\A r \in Runs, s \in Servers :
       /\ call[r].pc = "cleanup" /\ call'[r].pc = "clear"
       /\ Up(s) /\ ~(s = call[r].endpoint /\ call[r].late)
       => server'[s].st = "up"]_vars

\* No server outlives its use: when the runs are over, all are stopped, even
\* one that lost its last reference because two runs started one each, or a
\* clean-up or a Stop cleared the fields while another run was storing its own.
ServersReclaimed == <>[](\A s \in Servers : ~Up(s))

\* Every call returns, although a chat run has no deadline: replacing dead
\* servers comes to an end, and when an event is lost or an agent hangs, the
\* idle watchdog takes the server down and with it the pending message.
CallsReturn == \A r \in Runs : Underway(r) ~> ~Underway(r)
=============================================================================
