------------------------ MODULE OpenCodeRuntimeProofs ------------------------
(***************************************************************************)
(* Proofs about OpenCodeRuntime, for every set of runs and every bound on  *)
(* servers, faults and permission requests.                                *)
(***************************************************************************)
EXTENDS OpenCodeRuntime, TLAPS

-----------------------------------------------------------------------------
(* The inductive invariant.                                                  *)

\* A reference names one server, as endpoint and as lifecycle, that was
\* started.
Refers(k, srv) ==
  /\ k.endpoint = k.lifecycle
  /\ k.endpoint # None => srv[k.endpoint].st # "none"

\* What a call remembers of its server: a probe is of a server, and the one
\* that it found down is not up when it is cleaned up.
Remembers(k, srv) ==
  /\ Refers(k, srv)
  /\ k.pc \in {"probe", "cleanup"} => k.endpoint # None
  /\ k.pc = "cleanup" /\ ~k.late => srv[k.endpoint].st # "up"

CallInv == \A r \in Runs : Remembers(call[r], server)

IInv == TypeOK /\ Refers(runtime, server) /\ CallInv

\* A server that is started stays so, and one that is down stays down: its
\* place is taken by another one.
ServersAge ==
  \A s \in Servers : server[s].st # "none" =>
    server'[s].st # "none" /\ (server[s].st # "up" => server'[s].st # "up")

-----------------------------------------------------------------------------
(* Types.                                                                    *)

ServerRecs == [st : {"none", "up", "crashed", "killed"}, held : BOOLEAN,
               idle : BOOLEAN, watch : {"off", "armed", "firing"}]
RuntimeRecs == [endpoint : {None} \cup Servers, lifecycle : {None} \cup Servers]
PCs == {"ensure", "probe", "cleanup", "clear", "start", "store", "session",
        "message", "wait", "follow", "paused", "ok", "failed"}
CallRecs == [pc : PCs, leg : {"execute", "continue"}, ctx : BOOLEAN,
             endpoint : {None} \cup Servers, lifecycle : {None} \cup Servers,
             late : BOOLEAN, seen : {"no", "asked", "text"}]
SessionRecs == [on : {None} \cup Servers,
                agent : {"none", "working", "asked", "ended"},
                tracked : BOOLEAN]
Counts == [faults : Nat, asks : Nat]

\* TypeOK in terms of these sets.
LEMMA Types ==
  TypeOK <=> /\ server \in [Servers -> ServerRecs] /\ runtime \in RuntimeRecs
             /\ call \in [Runs -> CallRecs] /\ session \in [Runs -> SessionRecs]
             /\ count \in Counts
  BY DEF TypeOK, ServerRecs, RuntimeRecs, CallRecs, PCs, SessionRecs, Counts

\* A call that has just begun, or that returned, refers to no server.
LEMMA NewTypes ==
  /\ NewCall \in CallRecs
  /\ \A pc \in PCs :
       /\ [NewCall EXCEPT !.pc = pc] \in CallRecs
       /\ [NewCall EXCEPT !.pc = pc].pc = pc
       /\ [NewCall EXCEPT !.pc = pc].endpoint = None
       /\ [NewCall EXCEPT !.pc = pc].lifecycle = None
  /\ NewSession \in SessionRecs
  /\ NewServer \in ServerRecs
  BY DEF NewCall, NewSession, NewServer, CallRecs, PCs, SessionRecs, ServerRecs

\* A step that changes at most one call, ages the servers and replaces the
\* fields by a consistent pair.
LEMMA OneStep ==
  ASSUME IInv, NEW r \in Runs, NEW k \in CallRecs,
         server' = server \/ server' \in [Servers -> ServerRecs], ServersAge,
         runtime' = runtime \/ (runtime' \in RuntimeRecs /\ Refers(runtime', server')),
         call' = [call EXCEPT ![r] = k], Remembers(k, server'),
         session' = session \/ session' \in [Runs -> SessionRecs],
         count' = count \/ count' \in Counts
  PROVE  IInv'
<1>1. /\ server \in [Servers -> ServerRecs] /\ runtime \in RuntimeRecs
      /\ call \in [Runs -> CallRecs] /\ session \in [Runs -> SessionRecs]
      /\ count \in Counts
  BY Types DEF IInv
<1>2. call' \in [Runs -> CallRecs]
  BY <1>1
<1>3. TypeOK'
  BY <1>1, <1>2
  DEF TypeOK, ServerRecs, RuntimeRecs, CallRecs, PCs, SessionRecs, Counts
<1>4. \A i \in {None} \cup Servers :
        /\ i # None /\ server[i].st # "none" => server'[i].st # "none"
        /\ i # None /\ server[i].st # "none" /\ server[i].st # "up"
             => server'[i].st # "up"
  BY DEF ServersAge
<1>5. Refers(runtime', server')
  <2>1. CASE runtime' = runtime
    <3>1. runtime.endpoint \in {None} \cup Servers
      BY <1>1 DEF RuntimeRecs
    <3> QED
      BY <2>1, <3>1, <1>4 DEF IInv, Refers
  <2> QED
    BY <2>1
<1>6. CallInv'
  <2> SUFFICES ASSUME NEW q \in Runs PROVE Remembers(call'[q], server')
    BY DEF CallInv
  <2>1. CASE q = r
    BY <1>1, <2>1
  <2>2. CASE q # r
    <3>1. call'[q] = call[q] /\ Remembers(call[q], server)
      BY <1>1, <2>2 DEF IInv, CallInv
    <3>2. call[q].endpoint \in {None} \cup Servers
      BY <1>1 DEF CallRecs
    <3> QED
      BY <3>1, <3>2, <1>4 DEF Remembers, Refers
  <2> QED
    BY <2>1, <2>2
<1> QED
  BY <1>3, <1>5, <1>6 DEF IInv, Refers

\* The same when no call changes.
LEMMA NoCallStep ==
  ASSUME IInv, server' = server \/ server' \in [Servers -> ServerRecs], ServersAge,
         runtime' = runtime \/ (runtime' \in RuntimeRecs /\ Refers(runtime', server')),
         call' = call,
         session' = session \/ session' \in [Runs -> SessionRecs],
         count' = count \/ count' \in Counts
  PROVE  IInv'
<1>1. /\ server \in [Servers -> ServerRecs] /\ runtime \in RuntimeRecs
      /\ call \in [Runs -> CallRecs] /\ session \in [Runs -> SessionRecs]
      /\ count \in Counts
  BY Types DEF IInv
<1>2. TypeOK'
  BY <1>1
  DEF TypeOK, ServerRecs, RuntimeRecs, CallRecs, PCs, SessionRecs, Counts
<1>3. \A i \in {None} \cup Servers :
        /\ i # None /\ server[i].st # "none" => server'[i].st # "none"
        /\ i # None /\ server[i].st # "none" /\ server[i].st # "up"
             => server'[i].st # "up"
  BY DEF ServersAge
<1>4. Refers(runtime', server')
  <2>1. CASE runtime' = runtime
    <3>1. runtime.endpoint \in {None} \cup Servers
      BY <1>1 DEF RuntimeRecs
    <3> QED
      BY <2>1, <3>1, <1>3 DEF IInv, Refers
  <2> QED
    BY <2>1
<1>5. CallInv'
  <2> SUFFICES ASSUME NEW q \in Runs PROVE Remembers(call[q], server')
    BY DEF CallInv
  <2>1. Remembers(call[q], server)
    BY DEF IInv, CallInv
  <2>2. call[q].endpoint \in {None} \cup Servers
    BY <1>1 DEF CallRecs
  <2> QED
    BY <2>1, <2>2, <1>3 DEF Remembers, Refers
<1> QED
  BY <1>2, <1>4, <1>5 DEF IInv, Refers

-----------------------------------------------------------------------------
(* Effects of the helpers.                                                   *)

\* Only the pc of a call changes.
LEMMA GoEffect ==
  ASSUME TypeOK, NEW r \in Runs, NEW pc \in PCs, Go(r, pc)
  PROVE  /\ call' = [call EXCEPT ![r] = [call[r] EXCEPT !.pc = pc]]
         /\ [call[r] EXCEPT !.pc = pc] \in CallRecs
         /\ [call[r] EXCEPT !.pc = pc].pc = pc
         /\ [call[r] EXCEPT !.pc = pc].late = call[r].late
         /\ [call[r] EXCEPT !.pc = pc].endpoint = call[r].endpoint
         /\ [call[r] EXCEPT !.pc = pc].lifecycle = call[r].lifecycle
<1>1. call \in [Runs -> CallRecs]
  BY Types
<1> QED
  BY <1>1 DEF Go, CallRecs

\* A step that moves a call past its probe, with servers that only age.
LEMMA GoStep ==
  ASSUME IInv, NEW r \in Runs, NEW pc \in PCs \ {"probe", "cleanup"}, Go(r, pc),
         server' = server \/ server' \in [Servers -> ServerRecs], ServersAge,
         runtime' = runtime \/ (runtime' \in RuntimeRecs /\ Refers(runtime', server')),
         session' = session \/ session' \in [Runs -> SessionRecs],
         count' = count \/ count' \in Counts
  PROVE  IInv'
<1> DEFINE k == [call[r] EXCEPT !.pc = pc]
<1>1. TypeOK /\ call[r] \in CallRecs
  BY Types DEF IInv
<1>2. /\ call' = [call EXCEPT ![r] = k] /\ k \in CallRecs /\ k.pc = pc
      /\ k.endpoint = call[r].endpoint /\ k.lifecycle = call[r].lifecycle
  BY <1>1, GoEffect
<1>3. Remembers(k, server')
  <2>1. Remembers(call[r], server) /\ call[r].endpoint \in {None} \cup Servers
    BY <1>1 DEF IInv, CallInv, CallRecs
  <2>2. Refers(k, server')
    BY <1>2, <2>1 DEF Remembers, Refers, ServersAge
  <2> QED
    BY <1>2, <2>2 DEF Remembers
<1> HIDE DEF k
<1> QED
  BY <1>2, <1>3, OneStep

\* A call that returns refers to no server.
LEMMA ReturnStep ==
  ASSUME IInv, NEW r \in Runs, NEW result \in {"ok", "failed"}, Return(r, result),
         UNCHANGED <<server, runtime, count>>
  PROVE  IInv'
<1> DEFINE k == [NewCall EXCEPT !.pc = result]
<1>1. k \in CallRecs /\ k.pc = result /\ k.endpoint = None /\ k.lifecycle = None
  BY NewTypes DEF PCs
<1>2. call' = [call EXCEPT ![r] = k]
  BY DEF Return
<1>3. Remembers(k, server')
  BY <1>1 DEF Remembers, Refers
<1>4. session' \in [Runs -> SessionRecs]
  <2>1. session \in [Runs -> SessionRecs] /\ NewSession \in SessionRecs
    BY Types, NewTypes DEF IInv
  <2> QED
    BY <2>1 DEF Return
<1>5. ServersAge
  BY DEF ServersAge
<1> HIDE DEF k
<1> QED
  BY <1>1, <1>2, <1>3, <1>4, <1>5, OneStep

\* A released lifecycle is well typed, and its process not started again.
LEMMA ReleasedType ==
  ASSUME NEW v \in ServerRecs, NEW w \in {"off", "armed", "firing"}
  PROVE  /\ Released(v, w) \in ServerRecs
         /\ Released(v, w).st \in {v.st, "killed"}
<1> DEFINE t == IF v.held THEN "killed" ELSE v.st
<1>1. t \in {"none", "up", "crashed", "killed"} /\ t \in {v.st, "killed"}
  BY DEF ServerRecs
<1>2. Released(v, w) = [st |-> t, held |-> FALSE, idle |-> FALSE, watch |-> w]
  BY DEF Released
<1> HIDE DEF t
<1> QED
  BY <1>1, <1>2 DEF ServerRecs

\* Stop of a lifecycle kills its own process, at most.
LEMMA StopEffect ==
  ASSUME TypeOK, NEW s \in Servers, StopServer(s)
  PROVE  /\ server' \in [Servers -> ServerRecs]
         /\ server'[s].st \in {server[s].st, "killed"}
         /\ \A u \in Servers \ {s} : server'[u] = server[u]
<1>1. server \in [Servers -> ServerRecs]
  BY Types
<1> DEFINE w == IF server[s].watch = "armed" THEN "off" ELSE server[s].watch
<1>2. server' = [server EXCEPT ![s] = Released(server[s], w)]
  BY DEF StopServer
<1>3. w \in {"off", "armed", "firing"}
  BY <1>1 DEF ServerRecs
<1> HIDE DEF w
<1>4. /\ Released(server[s], w) \in ServerRecs
      /\ Released(server[s], w).st \in {server[s].st, "killed"}
  BY <1>1, <1>3, ReleasedType
<1> QED
  BY <1>1, <1>2, <1>4

\* Stopping a started server ages the servers.
LEMMA StopAges ==
  ASSUME TypeOK, NEW s \in Servers, StopServer(s)
  PROVE  server' \in [Servers -> ServerRecs] /\ ServersAge
  BY StopEffect DEF ServersAge

\* Servers that are left alone have aged.
LEMMA SameAges == ASSUME server' = server PROVE ServersAge
  BY DEF ServersAge

-----------------------------------------------------------------------------
(* ensureServer.                                                             *)

\* A call reads the fields.
LEMMA EnsureReadStep == ASSUME IInv, NEW r \in Runs, EnsureRead(r) PROVE IInv'
<1> DEFINE pc == IF runtime.endpoint = None THEN "start" ELSE "probe"
           k == [call[r] EXCEPT !.pc = pc, !.endpoint = runtime.endpoint,
                                !.lifecycle = runtime.lifecycle]
<1>1. call[r] \in CallRecs /\ runtime \in RuntimeRecs
  BY Types DEF IInv
<1>2. call' = [call EXCEPT ![r] = k]
  BY DEF EnsureRead
<1>3. pc \in PCs /\ pc # "cleanup" /\ (pc = "probe" => runtime.endpoint # None)
  BY DEF PCs
<1> HIDE DEF pc
<1>4. /\ k \in CallRecs /\ k.pc = pc
      /\ k.endpoint = runtime.endpoint /\ k.lifecycle = runtime.lifecycle
  BY <1>1, <1>3 DEF CallRecs, RuntimeRecs
<1>5. UNCHANGED <<server, runtime, session, count>>
  BY DEF EnsureRead
<1>6. Remembers(k, server')
  BY <1>3, <1>4, <1>5 DEF IInv, Remembers, Refers
<1> HIDE DEF k
<1> QED
  BY <1>2, <1>4, <1>5, <1>6, SameAges, OneStep

\* Served and every other move of a call goes to a pc past the probe.
LEMMA ServedGoes ==
  ASSUME NEW r \in Runs, Served(r)
  PROVE  \E pc \in PCs \ {"probe", "cleanup"} : Go(r, pc)
<1>1. CASE call[r].leg = "execute"
  BY <1>1 DEF Served, PCs
<1>2. CASE call[r].leg # "execute"
  BY <1>2 DEF Served, PCs
<1> QED
  BY <1>1, <1>2

\* A healthy server is touched and used; a call whose probe fails goes on to
\* clean up and remembers whether its server was up.
LEMMA EnsureProbeStep == ASSUME IInv, NEW r \in Runs, EnsureProbe(r) PROVE IInv'
<1>1. /\ TypeOK /\ call[r] \in CallRecs /\ server \in [Servers -> ServerRecs]
      /\ Remembers(call[r], server)
  BY Types DEF IInv, CallInv
<1>2. /\ call[r].endpoint = call[r].lifecycle /\ call[r].lifecycle \in Servers
      /\ server[call[r].endpoint].st # "none"
  BY <1>1 DEF EnsureProbe, Remembers, Refers, CallRecs
<1>3. UNCHANGED <<runtime, session, count>>
  BY DEF EnsureProbe
<1>4. CASE /\ server' = [server EXCEPT ![call[r].lifecycle].idle = FALSE]
           /\ Served(r)
  <2>1. /\ server' \in [Servers -> ServerRecs]
        /\ \A s \in Servers : server'[s].st = server[s].st
    BY <1>1, <1>2, <1>4 DEF ServerRecs
  <2>2. ServersAge
    BY <2>1 DEF ServersAge
  <2> QED
    BY <1>3, <1>4, <2>1, <2>2, ServedGoes, GoStep
<1>5. CASE /\ call' = [call EXCEPT ![r].pc = "cleanup",
                                   ![r].late = Up(call[r].endpoint)]
           /\ UNCHANGED server
  <2> DEFINE up == Up(call[r].endpoint)
             k == [call[r] EXCEPT !.pc = "cleanup", !.late = up]
  <2>1. up \in BOOLEAN /\ "cleanup" \in PCs
    BY DEF Up, PCs
  <2>2. call' = [call EXCEPT ![r] = k]
    BY <1>1, <1>5
  <2>3. call[r].endpoint # None /\ (~up => server[call[r].endpoint].st # "up")
    BY <1>1 DEF EnsureProbe, Remembers, Up
  <2> HIDE DEF up
  <2>4. /\ k \in CallRecs /\ k.pc = "cleanup" /\ k.late = up
        /\ k.endpoint = call[r].endpoint /\ k.lifecycle = call[r].lifecycle
    BY <1>1, <2>1 DEF CallRecs
  <2>5. Remembers(k, server')
    BY <1>2, <1>5, <2>3, <2>4 DEF Remembers, Refers
  <2> HIDE DEF k
  <2> QED
    BY <1>3, <1>5, <2>2, <2>4, <2>5, SameAges, OneStep
<1> QED
  BY <1>4, <1>5 DEF EnsureProbe

\* The clean-up stops the server that the call remembers.
LEMMA EnsureCleanupStep == ASSUME IInv, NEW r \in Runs, EnsureCleanup(r) PROVE IInv'
<1>1. TypeOK /\ call[r] \in CallRecs /\ Remembers(call[r], server)
  BY Types DEF IInv, CallInv
<1>2. call[r].lifecycle \in Servers
  BY <1>1 DEF EnsureCleanup, Remembers, Refers, CallRecs
<1>3. server' \in [Servers -> ServerRecs] /\ ServersAge
  BY <1>1, <1>2, StopAges DEF EnsureCleanup
<1>4. Go(r, "clear") /\ "clear" \in PCs \ {"probe", "cleanup"}
  BY DEF EnsureCleanup, PCs
<1>5. UNCHANGED <<runtime, session, count>>
  BY DEF EnsureCleanup
<1> QED
  BY <1>3, <1>4, <1>5, GoStep

\* The fields and the call refer to nothing.
LEMMA EnsureClearStep == ASSUME IInv, NEW r \in Runs, EnsureClear(r) PROVE IInv'
<1> DEFINE k == [call[r] EXCEPT !.pc = "ensure", !.endpoint = None,
                                !.lifecycle = None, !.late = FALSE]
<1>1. call[r] \in CallRecs /\ call \in [Runs -> CallRecs]
  BY Types DEF IInv
<1>2. call' = [call EXCEPT ![r] = k]
  BY <1>1 DEF EnsureClear
<1>3. k \in CallRecs /\ k.pc = "ensure" /\ k.endpoint = None /\ k.lifecycle = None
  BY <1>1 DEF CallRecs, PCs
<1>4. runtime' \in RuntimeRecs /\ Refers(runtime', server')
  BY DEF EnsureClear, RuntimeRecs, Refers
<1>5. Remembers(k, server')
  BY <1>3 DEF Remembers, Refers
<1>6. UNCHANGED <<server, session, count>>
  BY DEF EnsureClear
<1> HIDE DEF k
<1> QED
  BY <1>2, <1>3, <1>4, <1>5, <1>6, SameAges, OneStep

\* A server is started in a place that no reference names.
LEMMA EnsureStartStep == ASSUME IInv, NEW r \in Runs, EnsureStart(r) PROVE IInv'
<1>1. /\ call[r] \in CallRecs /\ call \in [Runs -> CallRecs]
      /\ server \in [Servers -> ServerRecs]
  BY Types DEF IInv
<1>2. UNCHANGED <<runtime, count>>
  BY DEF EnsureStart
<1>3. CASE Fail(r) /\ UNCHANGED server
  BY <1>2, <1>3, ReturnStep DEF Fail
<1>4. ASSUME NEW s \in Servers, server[s].st = "none", AdoptProcess(s),
             call' = [call EXCEPT ![r].pc = "store", ![r].endpoint = s,
                                  ![r].lifecycle = s],
             UNCHANGED session
      PROVE  IInv'
  <2> DEFINE k == [call[r] EXCEPT !.pc = "store", !.endpoint = s, !.lifecycle = s]
             v == [st |-> "up", held |-> TRUE, idle |-> FALSE, watch |-> "armed"]
  <2>1. call' = [call EXCEPT ![r] = k]
    BY <1>1, <1>4
  <2>2. k \in CallRecs /\ k.pc = "store" /\ k.endpoint = s /\ k.lifecycle = s
    BY <1>1 DEF CallRecs, PCs
  <2>3. v \in ServerRecs /\ v.st = "up"
    BY DEF ServerRecs
  <2>4. server' = [server EXCEPT ![s] = v]
    BY <1>4 DEF AdoptProcess
  <2> HIDE DEF k, v
  <2>5. server' \in [Servers -> ServerRecs] /\ server'[s].st = "up"
    BY <1>1, <2>3, <2>4
  <2>6. ServersAge
    BY <1>1, <1>4, <2>3, <2>4 DEF ServersAge
  <2>7. Remembers(k, server')
    BY <2>2, <2>5 DEF Remembers, Refers
  <2> QED
    BY <1>2, <1>4, <2>1, <2>2, <2>5, <2>6, <2>7, OneStep
<1> QED
  BY <1>3, <1>4 DEF EnsureStart

\* The fields get the server that the call started.
LEMMA EnsureStoreStep == ASSUME IInv, NEW r \in Runs, EnsureStore(r) PROVE IInv'
<1>1. call[r] \in CallRecs /\ Remembers(call[r], server)
  BY Types DEF IInv, CallInv
<1>2. UNCHANGED <<server, session, count>>
  BY DEF EnsureStore
<1>3. runtime' \in RuntimeRecs
  BY <1>1 DEF EnsureStore, RuntimeRecs, CallRecs
<1>4. /\ runtime'.endpoint = call[r].endpoint
      /\ runtime'.lifecycle = call[r].lifecycle
  BY DEF EnsureStore
<1>5. Refers(runtime', server')
  BY <1>1, <1>2, <1>4 DEF Remembers, Refers
<1>6. PICK pc \in PCs \ {"probe", "cleanup"} : Go(r, pc)
  BY ServedGoes DEF EnsureStore
<1> QED
  BY <1>2, <1>3, <1>5, <1>6, SameAges, GoStep

-----------------------------------------------------------------------------
(* The turn of a run.                                                        *)

\* Steps of Execute and ContinuePendingTurn once they have their server.
LEMMA TurnStep ==
  ASSUME IInv, NEW r \in Runs,
         \/ CreateSession(r) \/ SendMessage(r) \/ MessageReturns(r)
         \/ FollowReturns(r)
  PROVE  IInv'
<1>1. UNCHANGED <<server, runtime, count>>
  BY DEF CreateSession, SendMessage, MessageReturns, FollowReturns
<1>2. session \in [Runs -> SessionRecs] /\ call[r] \in CallRecs
  BY Types DEF IInv
<1>3. CASE \E result \in {"ok", "failed"} : Return(r, result)
  BY <1>1, <1>3, ReturnStep
<1>4. ASSUME NEW pc \in {"message", "wait", "paused"}, Go(r, pc),
             session' \in [Runs -> SessionRecs]
      PROVE  IInv'
  <2>1. pc \in PCs \ {"probe", "cleanup"}
    BY DEF PCs
  <2> QED
    BY <1>1, <1>4, <2>1, SameAges, GoStep
<1>5. CASE CreateSession(r)
  <2>1. CASE /\ session' = [session EXCEPT ![r].on = call[r].endpoint,
                                           ![r].tracked = TRUE]
             /\ Go(r, "message")
    <3>1. session' \in [Runs -> SessionRecs]
      <4> DEFINE e == call[r].endpoint
      <4>1. e \in {None} \cup Servers
        BY <1>2 DEF CallRecs
      <4>2. session' = [session EXCEPT ![r].on = e, ![r].tracked = TRUE]
        BY <2>1
      <4> HIDE DEF e
      <4> QED
        BY <1>2, <4>1, <4>2 DEF SessionRecs
    <3> QED
      BY <1>4, <2>1, <3>1
  <2> QED
    BY <1>3, <1>5, <2>1 DEF CreateSession, Fail
<1>6. CASE SendMessage(r)
  <2>1. CASE session' = [session EXCEPT ![r].agent = "working"] /\ Go(r, "wait")
    <3>1. session' \in [Runs -> SessionRecs]
      BY <1>2, <2>1 DEF SessionRecs
    <3> QED
      BY <1>4, <2>1, <3>1
  <2> QED
    BY <1>3, <1>6, <2>1 DEF SendMessage, Fail
<1>7. CASE MessageReturns(r)
  <2>1. CASE Go(r, "paused") /\ session' = [session EXCEPT ![r].tracked = FALSE]
    <3>1. session' \in [Runs -> SessionRecs]
      BY <1>2, <2>1 DEF SessionRecs
    <3> QED
      BY <1>4, <2>1, <3>1
  <2> QED
    BY <1>3, <1>7, <2>1 DEF MessageReturns, Fail
<1>8. CASE FollowReturns(r)
  <2>1. CASE Go(r, "paused") /\ UNCHANGED session
    BY <1>2, <1>4, <2>1
  <2> QED
    BY <1>3, <1>8, <2>1 DEF FollowReturns
<1> QED
  BY <1>5, <1>6, <1>7, <1>8

\* A step that changes what a call has seen, or its leg and context, and not
\* its server or what it knows of it.
LEMMA SeenStep ==
  ASSUME IInv, NEW r \in Runs, NEW k \in CallRecs, call' = [call EXCEPT ![r] = k],
         k.endpoint = call[r].endpoint, k.lifecycle = call[r].lifecycle,
         \/ k.pc = call[r].pc /\ k.late = call[r].late
         \/ k.pc = "ensure",
         session' \in [Runs -> SessionRecs], count' \in Counts,
         UNCHANGED <<server, runtime>>
  PROVE  IInv'
<1>1. Remembers(call[r], server)
  BY DEF IInv, CallInv
<1>2. Remembers(k, server')
  BY <1>1 DEF Remembers, Refers
<1> QED
  BY <1>2, SameAges, OneStep

\* An answer that is delivered starts the continuation; without one the run is
\* closed.
LEMMA RespondStep ==
  ASSUME IInv, NEW r \in Runs, RespondToNativeRequest(r) PROVE IInv'
<1>1. /\ call[r] \in CallRecs /\ session \in [Runs -> SessionRecs]
      /\ count \in Counts
  BY Types DEF IInv
<1>2. UNCHANGED <<server, runtime, count>>
  BY DEF RespondToNativeRequest
<1>3. CASE Return(r, "failed")
  BY <1>2, <1>3, ReturnStep
<1>4. CASE /\ session' = [session EXCEPT ![r].agent = "working"]
           /\ call' = [call EXCEPT ![r] = [call[r] EXCEPT
                         !.pc = "ensure", !.leg = "continue", !.ctx = TRUE,
                         !.seen = "no"]]
  <2> DEFINE k == [call[r] EXCEPT !.pc = "ensure", !.leg = "continue",
                                  !.ctx = TRUE, !.seen = "no"]
  <2>1. /\ k \in CallRecs /\ k.pc = "ensure"
        /\ k.endpoint = call[r].endpoint /\ k.lifecycle = call[r].lifecycle
    BY <1>1 DEF CallRecs, PCs
  <2>2. session' \in [Runs -> SessionRecs]
    BY <1>1, <1>4 DEF SessionRecs
  <2>3. call' = [call EXCEPT ![r] = k]
    BY <1>4
  <2> HIDE DEF k
  <2> QED
    BY <1>1, <1>2, <2>1, <2>2, <2>3, SeenStep
<1> QED
  BY <1>3, <1>4 DEF RespondToNativeRequest

\* The agent of a run.
LEMMA AgentStep ==
  ASSUME IInv, NEW r \in Runs, AgentAsks(r) \/ AgentText(r) \/ AgentFinishes(r)
  PROVE  IInv'
<1>1. /\ call \in [Runs -> CallRecs] /\ session \in [Runs -> SessionRecs]
      /\ count \in Counts
  BY Types DEF IInv
<1>2. UNCHANGED <<server, runtime>>
  BY DEF AgentAsks, AgentText, AgentFinishes
<1>3. session' \in [Runs -> SessionRecs]
  <2>1. \/ UNCHANGED session
        \/ \E a \in {"asked", "ended"} : session' = [session EXCEPT ![r].agent = a]
    BY DEF AgentAsks, AgentText, AgentFinishes
  <2> QED
    BY <1>1, <2>1 DEF SessionRecs
<1>4. count' \in Counts
  <2>1. \/ UNCHANGED count \/ count' = [count EXCEPT !.asks = @ + 1]
    BY DEF AgentAsks, AgentText, AgentFinishes
  <2> QED
    BY <1>1, <2>1 DEF Counts
<1>5. CASE UNCHANGED call
  BY <1>2, <1>3, <1>4, <1>5, SameAges, NoCallStep
<1>6. ASSUME NEW v \in {"asked", "text"}, call' = [call EXCEPT ![r].seen = v]
      PROVE  IInv'
  <2> DEFINE k == [call[r] EXCEPT !.seen = v]
  <2>1. /\ k \in CallRecs /\ k.pc = call[r].pc /\ k.late = call[r].late
        /\ k.endpoint = call[r].endpoint /\ k.lifecycle = call[r].lifecycle
    BY <1>1 DEF CallRecs
  <2>2. call' = [call EXCEPT ![r] = k]
    BY <1>1, <1>6
  <2> HIDE DEF k
  <2> QED
    BY <1>2, <1>3, <1>4, <2>1, <2>2, SeenStep
<1> QED
  BY <1>5, <1>6 DEF AgentAsks, AgentText, AgentFinishes

-----------------------------------------------------------------------------
(* Abort, Cancel, Stop, the watchdogs and crashes.                           *)

\* A canceled call remembers its server.
LEMMA CancelStep == ASSUME IInv, NEW r \in Runs, Cancel(r) PROVE IInv'
<1> DEFINE k == [call[r] EXCEPT !.ctx = FALSE]
<1>1. /\ call \in [Runs -> CallRecs] /\ session \in [Runs -> SessionRecs]
      /\ count \in Counts
  BY Types DEF IInv
<1>2. /\ k \in CallRecs /\ k.pc = call[r].pc /\ k.late = call[r].late
      /\ k.endpoint = call[r].endpoint /\ k.lifecycle = call[r].lifecycle
  BY <1>1 DEF CallRecs
<1>3. call' = [call EXCEPT ![r] = k] /\ UNCHANGED <<server, runtime, session, count>>
  BY <1>1 DEF Cancel
<1> HIDE DEF k
<1> QED
  BY <1>1, <1>2, <1>3, SeenStep

\* Abort tells the agent to end.
LEMMA AbortStep == ASSUME IInv, NEW r \in Runs, Abort(r) PROVE IInv'
<1>1. session \in [Runs -> SessionRecs]
  BY Types DEF IInv
<1>2. session' \in [Runs -> SessionRecs]
  BY <1>1 DEF Abort, SessionRecs
<1> QED
  BY <1>2, SameAges, NoCallStep DEF Abort

\* Stop clears the fields and stops the server they held.
LEMMA StopStep == ASSUME IInv, Stop PROVE IInv'
<1>1. TypeOK /\ runtime \in RuntimeRecs /\ count \in Counts
  BY Types DEF IInv
<1>2. count' \in Counts
  BY <1>1 DEF Stop, Counts
<1>3. runtime' \in RuntimeRecs /\ Refers(runtime', server')
  BY DEF Stop, RuntimeRecs, Refers
<1>4. (server' = server \/ server' \in [Servers -> ServerRecs]) /\ ServersAge
  <2>1. CASE runtime.lifecycle = None
    BY <2>1, SameAges DEF Stop
  <2>2. CASE runtime.lifecycle # None
    <3>1. runtime.lifecycle \in Servers
      BY <1>1, <2>2 DEF RuntimeRecs
    <3> QED
      BY <1>1, <2>2, <3>1, StopAges DEF Stop
  <2> QED
    BY <2>1, <2>2
<1>5. UNCHANGED <<call, session>>
  BY DEF Stop
<1> QED
  BY <1>2, <1>3, <1>4, <1>5, NoCallStep

\* The watchdog of a server, and its death.
LEMMA ServerStep ==
  ASSUME IInv, NEW s \in Servers, WatchStep(s) \/ Crash(s) PROVE IInv'
<1>1. server \in [Servers -> ServerRecs] /\ count \in Counts
  BY Types DEF IInv
<1>2. UNCHANGED <<runtime, call, session>>
  BY DEF WatchStep, Idle, WatchCheck, WatchStop, Crash
<1>3. count' \in Counts
  BY <1>1 DEF WatchStep, Idle, WatchCheck, WatchStop, Crash, Counts
<1>4. CASE Idle(s)
  <2>1. /\ server' \in [Servers -> ServerRecs]
        /\ \A u \in Servers : server'[u].st = server[u].st
    BY <1>1, <1>4 DEF Idle, ServerRecs
  <2> QED
    BY <1>2, <1>3, <2>1, NoCallStep DEF ServersAge
<1>5. CASE WatchCheck(s)
  <2>1. /\ server' \in [Servers -> ServerRecs]
        /\ \A u \in Servers : server'[u].st = server[u].st
    BY <1>1, <1>5 DEF WatchCheck, ServerRecs
  <2> QED
    BY <1>2, <1>3, <2>1, NoCallStep DEF ServersAge
<1>6. CASE WatchStop(s)
  <2>1. server' = [server EXCEPT ![s] = Released(server[s], "off")]
    BY <1>6 DEF WatchStop
  <2>2. /\ Released(server[s], "off") \in ServerRecs
        /\ Released(server[s], "off").st \in {server[s].st, "killed"}
    BY <1>1, ReleasedType
  <2>3. server' \in [Servers -> ServerRecs] /\ ServersAge
    BY <1>1, <2>1, <2>2 DEF ServersAge
  <2> QED
    BY <1>2, <1>3, <2>3, NoCallStep
<1>7. CASE Crash(s)
  <2>1. /\ server' \in [Servers -> ServerRecs]
        /\ server'[s].st = "crashed"
        /\ \A u \in Servers \ {s} : server'[u] = server[u]
    BY <1>1, <1>7 DEF Crash, ServerRecs
  <2> QED
    BY <1>2, <1>3, <2>1, NoCallStep DEF ServersAge
<1> QED
  BY <1>4, <1>5, <1>6, <1>7 DEF WatchStep

-----------------------------------------------------------------------------
(* The theorems.                                                             *)

\* No server and no reference to one.
LEMMA InvInit == Init => IInv
<1> SUFFICES ASSUME Init PROVE IInv
  OBVIOUS
<1>1. /\ server \in [Servers -> ServerRecs] /\ call \in [Runs -> CallRecs]
      /\ session \in [Runs -> SessionRecs]
  BY NewTypes DEF Init
<1>2. runtime \in RuntimeRecs /\ count \in Counts
  BY DEF Init, RuntimeRecs, Counts
<1>3. TypeOK
  BY <1>1, <1>2, Types
<1>4. Refers(runtime, server)
  BY DEF Init, Refers
<1>5. \A r \in Runs : call[r].pc = "ensure" /\ call[r].endpoint = None
                      /\ call[r].lifecycle = None
  BY DEF Init, NewCall
<1>6. CallInv
  BY <1>5 DEF CallInv, Remembers, Refers
<1> QED
  BY <1>3, <1>4, <1>6 DEF IInv

\* Every step keeps the invariant.
LEMMA InvNext == IInv /\ [Next]_vars => IInv'
<1> SUFFICES ASSUME IInv, [Next]_vars PROVE IInv'
  OBVIOUS
<1>1. ASSUME NEW r \in Runs, CallStep(r) PROVE IInv'
  BY <1>1, EnsureReadStep, EnsureProbeStep, EnsureCleanupStep, EnsureClearStep,
     EnsureStartStep, EnsureStoreStep, TurnStep
  DEF CallStep
<1>2. ASSUME NEW r \in Runs, RespondToNativeRequest(r) PROVE IInv'
  BY <1>2, RespondStep
<1>3. ASSUME NEW r \in Runs, AgentAsks(r) \/ AgentText(r) \/ AgentFinishes(r)
      PROVE  IInv'
  BY <1>3, AgentStep
<1>4. ASSUME NEW r \in Runs, Abort(r) PROVE IInv'
  BY <1>4, AbortStep
<1>5. ASSUME NEW r \in Runs, Cancel(r) PROVE IInv'
  BY <1>5, CancelStep
<1>6. ASSUME NEW s \in Servers, WatchStep(s) \/ Crash(s) PROVE IInv'
  BY <1>6, ServerStep
<1>7. CASE Stop
  BY <1>7, StopStep
<1>8. ASSUME NEW r \in Runs, ServerError(r) PROVE IInv'
  BY <1>8, ReturnStep DEF ServerError, Fail
<1>9. CASE UNCHANGED vars
  BY <1>9, SameAges, NoCallStep DEF vars
<1> QED
  BY <1>1, <1>2, <1>3, <1>4, <1>5, <1>6, <1>7, <1>8, <1>9 DEF Next

\* The invariant holds throughout.
THEOREM Invariant == Spec => []IInv
  BY InvInit, InvNext, PTL DEF Spec

\* Servers, fields, calls and sessions are well typed: in particular no call
\* stops or touches a lifecycle that it does not have.
THEOREM TypeCorrect == Spec => []TypeOK
<1>1. IInv => TypeOK
  BY DEF IInv
<1> QED
  BY <1>1, Invariant, PTL

\* A clean-up takes down no server that is up but the one that its own probe
\* found up and failed on, however many runs start, replace, stop and reclaim
\* servers meanwhile.
THEOREM CleanupSafe == Spec => CleanupSparesHealthy
<1> DEFINE Spares == \A r \in Runs, s \in Servers :
                       /\ call[r].pc = "cleanup" /\ call'[r].pc = "clear"
                       /\ Up(s) /\ ~(s = call[r].endpoint /\ call[r].late)
                       => server'[s].st = "up"
<1>1. IInv /\ [Next]_vars => [Spares]_vars
  <2> SUFFICES ASSUME IInv, Next, NEW r \in Runs, NEW s \in Servers,
                      call[r].pc = "cleanup", call'[r].pc = "clear",
                      Up(s), ~(s = call[r].endpoint /\ call[r].late)
               PROVE  server'[s].st = "up"
    OBVIOUS
  <2>1. /\ TypeOK /\ call \in [Runs -> CallRecs] /\ Remembers(call[r], server)
    BY Types DEF IInv, CallInv
  <2>2. CASE UNCHANGED server
    BY <2>2 DEF Up
  <2>3. CASE EnsureCleanup(r)
    <3>1. /\ call[r].lifecycle \in Servers
          /\ ~call[r].late => server[call[r].lifecycle].st # "up"
          /\ call[r].endpoint = call[r].lifecycle
      BY <2>1 DEF Remembers, Refers, CallRecs
    <3>2. s # call[r].lifecycle /\ server[s].st = "up"
      BY <2>1, <3>1 DEF Up, CallRecs
    <3>3. server'[s] = server[s]
      BY <2>1, <2>3, <3>1, <3>2, StopEffect DEF EnsureCleanup
    <3> QED
      BY <3>2, <3>3
  <2>4. ASSUME NEW q \in Runs, q # r, CallStep(q) PROVE FALSE
    <3>1. call'[r] = call[r]
      BY <2>1, <2>4
      DEF CallStep, EnsureRead, EnsureProbe, EnsureCleanup, EnsureClear,
          EnsureStart, EnsureStore, CreateSession, SendMessage, MessageReturns,
          FollowReturns, Served, Go, Fail, Return
    <3> QED
      BY <3>1
  <2>5. CASE CallStep(r)
    BY <2>3, <2>5
    DEF CallStep, EnsureRead, EnsureProbe, EnsureClear, EnsureStart, EnsureStore,
        CreateSession, SendMessage, MessageReturns, FollowReturns
  <2>6. ASSUME NEW q \in Runs,
               \/ ServerError(q) \/ RespondToNativeRequest(q) \/ AgentAsks(q)
               \/ AgentText(q) \/ AgentFinishes(q) \/ Abort(q) \/ Cancel(q)
        PROVE  server'[s].st = "up"
    BY <2>2, <2>6
    DEF ServerError, RespondToNativeRequest, AgentAsks, AgentText, AgentFinishes,
        Abort, Cancel
  <2>7. CASE UNCHANGED call
    BY <2>7
  <2>8. ASSUME NEW u \in Servers, WatchStep(u) \/ Crash(u)
        PROVE  server'[s].st = "up"
    BY <2>7, <2>8 DEF WatchStep, Idle, WatchCheck, WatchStop, Crash
  <2>9. CASE Stop
    BY <2>7, <2>9 DEF Stop
  <2> QED
    BY <2>4, <2>5, <2>6, <2>8, <2>9 DEF Next
<1> QED
  BY <1>1, Invariant, PTL DEF Spec, CleanupSparesHealthy
=============================================================================
