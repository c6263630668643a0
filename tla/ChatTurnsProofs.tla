--------------------------- MODULE ChatTurnsProofs ---------------------------
(***************************************************************************)
(* Proofs about ChatTurns, for every number of turns, of continuations, of *)
(* faults and of aborts.                                                   *)
(***************************************************************************)
EXTENDS ChatTurns, TLAPS

-----------------------------------------------------------------------------
(* The inductive invariant, turn by turn.                                    *)

\* Goroutines of turn t that wait for its newest mirror, or have it spawned.
Continuing == {"mark", "message", "resume", "reopen"}

\* The permission request of turn t that the user can still answer natively.
Pending(t) == turn[t].ref = "native" /\ turn[t].req = "pending"

\* Job statuses in which, or after which, a native request was made.
Asked == {"asking", "approval_required"} \cup FinishedJobs

\* StartTurn comes first: before it has returned nothing else is under way.
StartInv(t) ==
  /\ start[t] \in {"idle", "persist", "enqueue", "mark"} =>
       turn[t].jobID = FALSE /\ abort[t].jobID = FALSE
  /\ start[t] \in {"idle", "persist", "enqueue"} =>
       job[t].st = "none" /\ job[t].asked = "no"
  /\ start[t] # "done" =>
       /\ reply[t] = "idle" /\ ~Followed(t) /\ leg[t] = 0
       /\ turn[t].st # "approval_required" /\ ~Pending(t)
  /\ start[t] \in {"mark", "placeholder"} => job[t].tracked = TRUE
  /\ service = "down" =>
       /\ start[t] \in {"idle", "done"} /\ ~Followed(t)
       /\ reply[t] = "idle" /\ abort[t].pc = "idle" /\ count.faults # 0
  /\ Followed(t) \/ reply[t] # "idle" => job[t].tracked = TRUE
  /\ service = "up" /\ turn[t].st = "approval_required" => job[t].tracked = TRUE

\* A mirror is spawned once for each continuation, follows the job until its
\* channel is closed, and the channel of a paused or finished job is closed.
MirrorInv(t) ==
  \A k \in Legs :
    LET m == mirror[<<t, k>>] IN
    /\ m.pc \in {"off", "subscribe"} => m.todo = "no" /\ m.perm = FALSE
    /\ m.todo # "no" => m.pc = "drain"
    /\ k > leg[t] => m.pc = "off"
    /\ m.pc = "subscribe" => k = leg[t]
    /\ m.pc = "drain" /\ IsTerminal(job[t].st) => m.closed = TRUE
    /\ m.pc = "drain" /\ m.closed = FALSE /\ k # leg[t] => job[t].st = "asking"

\* A request of the agent is handed from the job to the newest mirror, to the
\* row, and to the reply, and is in one place at a time; the reply uses it up
\* with the leg it starts.
TicketInv(t) ==
  /\ job[t].asked = "native" => leg[t] < MaxResumes /\ job[t].st \in Asked
  /\ Pending(t) => /\ leg[t] < MaxResumes /\ job[t].st \in Asked
                   /\ mirror[<<t, leg[t]>>].pc # "subscribe"
  /\ reply[t] \in Continuing \cup {"respond"} =>
       /\ leg[t] < MaxResumes /\ job[t].st \in Asked
       /\ mirror[<<t, leg[t]>>].pc # "subscribe" /\ ~Pending(t)
  /\ \A k \in Legs : mirror[<<t, k>>].todo = "native" =>
       /\ k = leg[t] /\ leg[t] < MaxResumes /\ job[t].st \in Asked
       /\ ~Pending(t) /\ reply[t] \notin Continuing \cup {"respond", "continue"}
  /\ reply[t] = "continue" =>
       job[t].asked # "native" /\ ~Pending(t) /\ job[t].st # "active"
  /\ service = "up" /\ job[t].st = "reopened" => reply[t] = "continue" \/ t \in lost

\* Once AbortTurn has aborted the run, nothing brings it back; and a regular
\* turn is continued by one goroutine at a time.
AbortInv(t) ==
  /\ abort[t].pc \in {"finalize", "done"} /\ abort[t].jobID = TRUE =>
       job[t].st \notin OpenJobs
  /\ t \notin overlap => \A k \in Legs : k # leg[t] => mirror[<<t, k>>].pc = "off"
  /\ t \notin overlap /\ reply[t] \in Continuing => ~Followed(t)
  /\ t \notin overlap /\ abort[t].pc = "done" /\ abort[t].jobID = TRUE =>
       /\ turn[t].st \notin Active
       /\ reply[t] = "mark" => turn[t].st # "approval_required"

\* Who finishes an active turn, unless its last writer's call has failed; a
\* reply only as long as the run is paused.
OwnInv(t) ==
  t \notin overlap \cup lost =>
    /\ service = "up" /\ turn[t].st \in Active /\ turn[t].jobID = TRUE =>
         \/ start[t] \notin {"idle", "done"}
         \/ Followed(t)
         \/ abort[t].pc \in {"cancel", "finalize"}
         \/ /\ reply[t] \in {"message", "resume", "reopen"}
            /\ job[t].st \in {"asking", "approval_required"}
    /\ reply[t] = "mark" /\ turn[t].st = "approval_required" =>
         \/ job[t].st \in {"asking", "approval_required"}
         \/ abort[t].pc \in {"cancel", "finalize"}

\* No failure, abort or refusal has touched turn t.
Undisturbed(t) ==
  /\ t \notin overlap /\ count.faults = 0 /\ abort[t].pc = "idle"
  /\ reply[t] \notin {"refuse", "close", "fallback", "closed"}

\* What the newest mirror of an undisturbed turn knows is the job's status,
\* and without one the job is at rest.
RestInv(t) ==
  Undisturbed(t) =>
    LET m == mirror[<<t, leg[t]>>] IN
    /\ start[t] \in {"placeholder", "done"} => turn[t].jobID = TRUE
    /\ start[t] \in {"persist", "enqueue", "mark"} => turn[t].st = "queued"
    /\ start[t] # "giveup"
    /\ m.pc = "drain" /\ m.closed = TRUE => IsTerminal(job[t].st)
    /\ m.pc = "drain" /\ IsTerminal(m.seen) => m.seen = job[t].st
    /\ m.pc \in {"message", "finalize"} => m.seen = job[t].st /\ IsTerminal(m.seen)
    /\ m.pc = "finalize" => msg[t] = Outcome(<<t, leg[t]>>)
    /\ m.perm = TRUE => turn[t].req = "pending" \/ reply[t] = "respond"
    /\ reply[t] = "continue" => m.pc # "off" /\ job[t].st = "reopened"
    /\ start[t] = "done" /\ m.pc = "off" => IsTerminal(job[t].st)
    /\ reply[t] \in Continuing => job[t].st = "approval_required"
    /\ start[t] = "done" /\ m.pc = "off" /\ reply[t] \in {"idle", "broker"} =>
         /\ msg[t] = turn[t].st
         /\ \/ turn[t].st = MapJobStatus(job[t].st)
            \/ turn[t].st = "approval_required" /\ turn[t].req = "pending"

TurnInv(t) ==
  /\ StartInv(t) /\ MirrorInv(t) /\ TicketInv(t)
  /\ AbortInv(t) /\ OwnInv(t) /\ RestInv(t)

IInv == TypeOK /\ \A t \in Turns : TurnInv(t)

-----------------------------------------------------------------------------
(* Types.                                                                    *)

TurnRecs == [st : TurnStatuses, jobID : BOOLEAN, ref : {"none", "text", "native"},
             req : {"none", "pending", "resolved"}]
Asks == {"no", "text", "native"}
JobRecs == [st : JobStatuses, tracked : BOOLEAN, asked : Asks]
Starts == {"idle", "persist", "enqueue", "mark", "placeholder", "giveup", "done"}
MirrorRecs == [pc : {"off", "subscribe", "drain", "message", "finalize"},
               seen : JobStatuses, closed : BOOLEAN, todo : Asks, perm : BOOLEAN]
AbortRecs == [pc : {"idle", "cancel", "finalize", "done", "failed"},
              jobID : BOOLEAN]
Replies == {"idle", "broker", "refuse", "respond", "close", "fallback", "closed",
            "mark", "message", "resume", "reopen", "continue"}
Counts == [faults : Nat, aborts : Nat]

\* TypeOK in terms of these sets.
Typed(tu, ms, jo, st, mi, le, ab, re, se, ov, lo, co) ==
  /\ tu \in [Turns -> TurnRecs] /\ ms \in [Turns -> TurnStatuses]
  /\ jo \in [Turns -> JobRecs] /\ st \in [Turns -> Starts]
  /\ mi \in [Mirrors -> MirrorRecs] /\ le \in [Turns -> Legs]
  /\ ab \in [Turns -> AbortRecs] /\ re \in [Turns -> Replies]
  /\ se \in {"up", "down"} /\ ov \in SUBSET Turns /\ lo \in SUBSET Turns
  /\ co \in Counts

TypesNow ==
  Typed(turn, msg, job, start, mirror, leg, abort, reply, service, overlap, lost,
        count)

\* They are the types of TypeOK.
LEMMA Types == TypeOK <=> TypesNow
  BY DEF TypeOK, TypesNow, Typed, TurnRecs, Asks, JobRecs, Starts, MirrorRecs,
         AbortRecs, Replies, Counts

\* The same for the next state.
LEMMA TypesNext == TypeOK' <=> TypesNow'
  BY DEF TypeOK, TypesNow, Typed, TurnRecs, Asks, JobRecs, Starts, MirrorRecs,
         AbortRecs, Replies, Counts

\* Nothing of turn u changes.
Same(u) ==
  /\ turn'[u] = turn[u] /\ msg'[u] = msg[u] /\ job'[u] = job[u]
  /\ start'[u] = start[u] /\ leg'[u] = leg[u] /\ abort'[u] = abort[u]
  /\ reply'[u] = reply[u] /\ (u \in overlap' <=> u \in overlap)
  /\ (u \in lost' <=> u \in lost)
  /\ \A k \in Legs : mirror'[<<u, k>>] = mirror[<<u, k>>]

\* The service stays up or down, and a fault is not forgotten.
SameService == service' = service /\ (count'.faults = 0 => count.faults = 0)

\* What no goroutine of turn u touches keeps the invariant of turn u.
LEMMA Frame ==
  ASSUME TypeOK, NEW u \in Turns, TurnInv(u), Same(u), SameService
  PROVE  TurnInv(u)'
<1>1. leg[u] \in Legs
  BY Types DEF TypesNow, Typed
<1>2. StartInv(u)'
  BY DEF Same, SameService, TurnInv, StartInv, Followed, Pending
<1>3. MirrorInv(u)'
  BY DEF Same, TurnInv, MirrorInv
<1>4. TicketInv(u)'
  BY <1>1 DEF Same, SameService, TurnInv, TicketInv, Pending
<1>5. AbortInv(u)'
  BY <1>1 DEF Same, TurnInv, AbortInv, Followed
<1>6. OwnInv(u)'
  BY <1>1 DEF Same, SameService, TurnInv, OwnInv, Followed
<1>7. RestInv(u)'
  BY <1>1 DEF Same, SameService, TurnInv, RestInv, Undisturbed, Outcome
<1> QED
  BY <1>2, <1>3, <1>4, <1>5, <1>6, <1>7 DEF TurnInv

\* A step that concerns turn t alone keeps the invariant of the other turns.
Local(t) == SameService /\ \A u \in Turns \ {t} : Same(u)

\* Such a step keeps the invariant when it keeps its own turn's.
LEMMA OneTurn ==
  ASSUME IInv, NEW t \in Turns, TypesNow', Local(t), TurnInv(t)'
  PROVE  IInv'
<1>1. TypeOK'
  BY TypesNext
<1>2. \A u \in Turns : TurnInv(u)'
  BY Frame DEF IInv, Local
<1> QED
  BY <1>1, <1>2 DEF IInv

-----------------------------------------------------------------------------
(* What the writes of the model do, field by field.                          *)

\* The row of turn t is written.
RowIs(t, st, id, ref, req) ==
  /\ turn' \in [Turns -> TurnRecs]
  /\ \A u \in Turns : u # t => turn'[u] = turn[u]
  /\ turn'[t].st = st /\ turn'[t].jobID = id
  /\ turn'[t].ref = ref /\ turn'[t].req = req

\* The updates of a row, field by field.
LEMMA RowWritten ==
  ASSUME turn \in [Turns -> TurnRecs], NEW t \in Turns, NEW st \in TurnStatuses,
         NEW id \in BOOLEAN, NEW ref \in {"none", "text", "native"},
         NEW req \in {"none", "pending", "resolved"}
  PROVE  /\ turn' = [turn EXCEPT ![t].st = st] =>
              RowIs(t, st, turn[t].jobID, turn[t].ref, turn[t].req)
         /\ turn' = [turn EXCEPT ![t].st = st, ![t].jobID = id] =>
              RowIs(t, st, id, turn[t].ref, turn[t].req)
         /\ turn' = [turn EXCEPT ![t].ref = ref, ![t].req = req] =>
              RowIs(t, turn[t].st, turn[t].jobID, ref, req)
         /\ turn' = [turn EXCEPT ![t].req = req] =>
              RowIs(t, turn[t].st, turn[t].jobID, turn[t].ref, req)
         /\ turn' = turn =>
              RowIs(t, turn[t].st, turn[t].jobID, turn[t].ref, turn[t].req)
  BY DEF RowIs, TurnRecs

\* The job of turn t becomes st, and the mirrors that follow it see so.
JobIs(t, st, asked) ==
  /\ job' \in [Turns -> JobRecs] /\ mirror' \in [Mirrors -> MirrorRecs]
  /\ \A u \in Turns : u # t =>
       job'[u] = job[u] /\ \A k \in Legs : mirror'[<<u, k>>] = mirror[<<u, k>>]
  /\ job'[t].st = st /\ job'[t].asked = asked /\ job'[t].tracked = job[t].tracked
  /\ \A k \in Legs :
       LET m == mirror[<<t, k>>]
           n == mirror'[<<t, k>>]
       IN  /\ n.pc = m.pc /\ n.seen = m.seen /\ n.perm = m.perm
           /\ m.closed \in BOOLEAN
           /\ IF m.pc = "drain" /\ m.closed = FALSE
              THEN /\ IF IsTerminal(st) THEN n.closed = TRUE ELSE n.closed = FALSE
                   /\ n.todo = IF asked # job[t].asked THEN asked ELSE m.todo
              ELSE n.closed = m.closed /\ n.todo = m.todo

\* JobBecomes tells the open channels, and no others.
LEMMA JobWritten ==
  ASSUME job \in [Turns -> JobRecs], mirror \in [Mirrors -> MirrorRecs],
         NEW t \in Turns, NEW st \in JobStatuses, NEW asked \in Asks,
         JobBecomes(t, st, asked)
  PROVE  JobIs(t, st, asked)
<1>1. job' = [job EXCEPT ![t] = [job[t] EXCEPT !.st = st, !.asked = asked]]
  BY DEF JobBecomes, JobRecs
<1>2. /\ job' \in [Turns -> JobRecs]
      /\ \A u \in Turns : u # t => job'[u] = job[u]
      /\ job'[t].st = st /\ job'[t].asked = asked
      /\ job'[t].tracked = job[t].tracked
  BY <1>1 DEF JobRecs
<1> DEFINE sees(m) == m[1] = t /\ mirror[m].pc = "drain" /\ ~mirror[m].closed
           todo(m) == IF asked # job[t].asked THEN asked ELSE mirror[m].todo
           shut == IsTerminal(st)
           new(m) == [mirror[m] EXCEPT !.closed = shut, !.todo = todo(m)]
<1>3. mirror' = [m \in Mirrors |-> IF sees(m) THEN new(m) ELSE mirror[m]]
  BY DEF JobBecomes
<1>4. \A m \in Mirrors :
        /\ new(m) \in MirrorRecs /\ new(m).pc = mirror[m].pc
        /\ new(m).seen = mirror[m].seen /\ new(m).perm = mirror[m].perm
        /\ IF IsTerminal(st) THEN new(m).closed = TRUE ELSE new(m).closed = FALSE
        /\ new(m).todo = todo(m)
  <2>1. shut \in BOOLEAN /\ IF IsTerminal(st) THEN shut = TRUE ELSE shut = FALSE
    BY DEF IsTerminal
  <2>2. \A m \in Mirrors : todo(m) \in Asks
    BY DEF MirrorRecs
  <2> HIDE DEF shut, todo
  <2> QED
    BY <2>1, <2>2 DEF MirrorRecs
<1> HIDE DEF new
<1>5. mirror' \in [Mirrors -> MirrorRecs]
  BY <1>3, <1>4
<1>6. \A u \in Turns, k \in Legs :
        /\ <<u, k>> \in Mirrors /\ <<u, k>>[1] = u
        /\ mirror'[<<u, k>>] = IF sees(<<u, k>>) THEN new(<<u, k>>)
                                                 ELSE mirror[<<u, k>>]
        /\ mirror[<<u, k>>].closed \in BOOLEAN
  BY <1>3 DEF Mirrors, MirrorRecs
<1>7. ASSUME NEW k \in Legs
      PROVE  LET m == mirror[<<t, k>>]
                 n == mirror'[<<t, k>>]
             IN  /\ n.pc = m.pc /\ n.seen = m.seen /\ n.perm = m.perm
                 /\ m.closed \in BOOLEAN
                 /\ IF m.pc = "drain" /\ m.closed = FALSE
                    THEN /\ IF IsTerminal(st) THEN n.closed = TRUE
                                              ELSE n.closed = FALSE
                         /\ n.todo = IF asked # job[t].asked THEN asked ELSE m.todo
                    ELSE n.closed = m.closed /\ n.todo = m.todo
  BY <1>4, <1>6
<1>8. \A u \in Turns : u # t =>
        \A k \in Legs : mirror'[<<u, k>>] = mirror[<<u, k>>]
  BY <1>6
<1> QED
  BY <1>2, <1>5, <1>7, <1>8 DEF JobIs

\* Manager.Abort aborts an open run and leaves the others alone.
LEMMA JobAborted ==
  ASSUME job \in [Turns -> JobRecs], mirror \in [Mirrors -> MirrorRecs],
         NEW t \in Turns, ManagerAbort(t)
  PROVE  \/ job[t].st \in OpenJobs /\ JobIs(t, "aborted", job[t].asked)
         \/ job[t].st \notin OpenJobs /\ job' = job /\ mirror' = mirror
<1>1. "aborted" \in JobStatuses /\ job[t].asked \in Asks
  BY DEF JobStatuses, FinishedJobs, JobRecs
<1> QED
  BY <1>1, JobWritten DEF ManagerAbort

\* Mirror k of turn t is written.
MirrorIs(t, k, pc, seen, closed, todo, perm) ==
  /\ mirror' \in [Mirrors -> MirrorRecs]
  /\ \A u \in Turns, i \in Legs :
       u # t \/ i # k => mirror'[<<u, i>>] = mirror[<<u, i>>]
  /\ LET n == mirror'[<<t, k>>]
     IN  /\ n.pc = pc /\ n.seen = seen /\ n.closed = closed
         /\ n.todo = todo /\ n.perm = perm

\* A mirror is replaced as a whole.
LEMMA MirrorPut ==
  ASSUME mirror \in [Mirrors -> MirrorRecs], NEW t \in Turns, NEW k \in Legs,
         NEW n \in MirrorRecs, mirror' = [mirror EXCEPT ![<<t, k>>] = n]
  PROVE  MirrorIs(t, k, n.pc, n.seen, n.closed, n.todo, n.perm)
  BY DEF MirrorIs, Mirrors

MirrorPCs == {"off", "subscribe", "drain", "message", "finalize"}

\* A mirror goes on to its next step.
LEMMA MirrorMoved ==
  ASSUME mirror \in [Mirrors -> MirrorRecs], NEW t \in Turns, NEW k \in Legs,
         NEW pc \in MirrorPCs,
         mirror' = [mirror EXCEPT ![<<t, k>>].pc = pc]
  PROVE  MirrorIs(t, k, pc,
                        mirror[<<t, k>>].seen,
                        mirror[<<t, k>>].closed,
                        mirror[<<t, k>>].todo,
                        mirror[<<t, k>>].perm)
<1> DEFINE x == <<t, k>>
           n == [mirror[x] EXCEPT !.pc = pc]
<1>1. x \in Mirrors
  BY DEF Mirrors
<1>2. mirror' = [mirror EXCEPT ![x] = n]
  BY <1>1
<1> HIDE DEF x
<1>3. /\ n \in MirrorRecs
      /\ MirrorIs(t, k, n.pc, n.seen, n.closed, n.todo, n.perm) =>
           MirrorIs(t, k, pc,
                        mirror[x].seen,
                        mirror[x].closed,
                        mirror[x].todo,
                        mirror[x].perm)
  BY <1>1 DEF MirrorRecs, MirrorPCs
<1> HIDE DEF n
<1> QED
  BY <1>2, <1>3, MirrorPut DEF x

\* A mirror goes on with what it saw of the job.
LEMMA MirrorSaw ==
  ASSUME mirror \in [Mirrors -> MirrorRecs], NEW t \in Turns, NEW k \in Legs,
         NEW pc \in MirrorPCs, NEW seen \in JobStatuses,
         mirror' = [mirror EXCEPT ![<<t, k>>].pc = pc, ![<<t, k>>].seen = seen]
  PROVE  MirrorIs(t, k, pc,
                        seen,
                        mirror[<<t, k>>].closed,
                        mirror[<<t, k>>].todo,
                        mirror[<<t, k>>].perm)
<1> DEFINE x == <<t, k>>
           n == [mirror[x] EXCEPT !.pc = pc, !.seen = seen]
<1>1. x \in Mirrors
  BY DEF Mirrors
<1>2. mirror' = [mirror EXCEPT ![x] = n]
  BY <1>1
<1> HIDE DEF x
<1>3. /\ n \in MirrorRecs
      /\ MirrorIs(t, k, n.pc, n.seen, n.closed, n.todo, n.perm) =>
           MirrorIs(t, k, pc,
                        seen,
                        mirror[x].closed,
                        mirror[x].todo,
                        mirror[x].perm)
  BY <1>1 DEF MirrorRecs, MirrorPCs
<1> HIDE DEF n
<1> QED
  BY <1>2, <1>3, MirrorPut DEF x

\* A mirror has dealt with a request.
LEMMA MirrorTold ==
  ASSUME mirror \in [Mirrors -> MirrorRecs], NEW t \in Turns, NEW k \in Legs,
         NEW todo \in Asks,
         mirror' = [mirror EXCEPT ![<<t, k>>].todo = todo]
  PROVE  MirrorIs(t, k, mirror[<<t, k>>].pc,
                        mirror[<<t, k>>].seen,
                        mirror[<<t, k>>].closed,
                        todo,
                        mirror[<<t, k>>].perm)
<1> DEFINE x == <<t, k>>
           n == [mirror[x] EXCEPT !.todo = todo]
<1>1. x \in Mirrors
  BY DEF Mirrors
<1>2. mirror' = [mirror EXCEPT ![x] = n]
  BY <1>1
<1> HIDE DEF x
<1>3. /\ n \in MirrorRecs
      /\ MirrorIs(t, k, n.pc, n.seen, n.closed, n.todo, n.perm) =>
           MirrorIs(t, k, mirror[x].pc,
                        mirror[x].seen,
                        mirror[x].closed,
                        todo,
                        mirror[x].perm)
  BY <1>1 DEF MirrorRecs, MirrorPCs
<1> HIDE DEF n
<1> QED
  BY <1>2, <1>3, MirrorPut DEF x

\* A mirror has dealt with a request and remembers it.
LEMMA MirrorAsked ==
  ASSUME mirror \in [Mirrors -> MirrorRecs], NEW t \in Turns, NEW k \in Legs,
         NEW todo \in Asks, NEW perm \in BOOLEAN,
         mirror' = [mirror EXCEPT ![<<t, k>>].todo = todo, ![<<t, k>>].perm = perm]
  PROVE  MirrorIs(t, k, mirror[<<t, k>>].pc,
                        mirror[<<t, k>>].seen,
                        mirror[<<t, k>>].closed,
                        todo,
                        perm)
<1> DEFINE x == <<t, k>>
           n == [mirror[x] EXCEPT !.todo = todo, !.perm = perm]
<1>1. x \in Mirrors
  BY DEF Mirrors
<1>2. mirror' = [mirror EXCEPT ![x] = n]
  BY <1>1
<1> HIDE DEF x
<1>3. /\ n \in MirrorRecs
      /\ MirrorIs(t, k, n.pc, n.seen, n.closed, n.todo, n.perm) =>
           MirrorIs(t, k, mirror[x].pc,
                        mirror[x].seen,
                        mirror[x].closed,
                        todo,
                        perm)
  BY <1>1 DEF MirrorRecs, MirrorPCs
<1> HIDE DEF n
<1> QED
  BY <1>2, <1>3, MirrorPut DEF x

\* A fault is counted.
LEMMA FaultCounted ==
  ASSUME count \in Counts, Fault
  PROVE  count' \in Counts /\ count'.faults # 0
  BY DEF Fault, Counts

\* Nothing or one more failure is on record, and turn t alone can be lost.
Recorded(t) ==
  /\ count' \in Counts /\ (count'.faults = 0 => count.faults = 0)
  /\ lost' \in SUBSET Turns /\ (t \in lost => t \in lost')
  /\ \A u \in Turns : u # t => (u \in lost' <=> u \in lost)

\* A failure that loses the turn is on record, and so is one that does not.
LEMMA FaultRecorded ==
  ASSUME TypesNow, NEW t \in Turns
  PROVE  /\ Lose(t) => Recorded(t) /\ t \in lost' /\ count'.faults # 0
         /\ Fault /\ UNCHANGED lost => Recorded(t) /\ count'.faults # 0
         /\ UNCHANGED <<lost, count>> => Recorded(t)
  BY FaultCounted DEF Lose, Recorded, TypesNow, Typed

\* A last write succeeds, or the turn is lost.
LEMMA Finalized ==
  ASSUME TypesNow, NEW t \in Turns, NEW s \in TurnStatuses, Finalize(t, s)
  PROVE  /\ Recorded(t)
         /\ \E st \in {s, turn[t].st} :
              /\ RowIs(t, st, turn[t].jobID, turn[t].ref, turn[t].req)
              /\ \/ st = s /\ UNCHANGED <<lost, count>>
                 \/ st = turn[t].st /\ t \in lost' /\ count'.faults # 0
<1>1. turn \in [Turns -> TurnRecs]
  BY DEF TypesNow, Typed
<1>2. CASE turn' = [turn EXCEPT ![t].st = s] /\ UNCHANGED <<lost, count>>
  BY <1>1, <1>2, RowWritten, FaultRecorded
<1>3. CASE Lose(t) /\ UNCHANGED turn
  BY <1>1, <1>3, RowWritten, FaultRecorded
<1> QED
  BY <1>2, <1>3 DEF Finalize, FinalizeRunnerChatTurn

-----------------------------------------------------------------------------
(* StartTurn.                                                                *)

\* CreateTurn keeps the invariant: nothing of the turn exists yet.
LEMMA CreateTurnStep ==
  ASSUME IInv, NEW t \in Turns, CreateTurn(t)
  PROVE  IInv'
<1>1. TypesNow /\ TurnInv(t)
  BY Types DEF IInv
<1>2. RowIs(t, "queued", turn[t].jobID, turn[t].ref, turn[t].req)
  BY <1>1, RowWritten
  DEF TypesNow, Typed, CreateTurn, FinalizeRunnerChatTurn, TurnStatuses, Active
<1>3. /\ start' \in [Turns -> Starts] /\ start[t] = "idle" /\ start'[t] = "persist"
      /\ \A u \in Turns : u # t => start'[u] = start[u]
  BY <1>1 DEF TypesNow, Typed, CreateTurn, Starts
<1>4. /\ service = "up"
      /\ UNCHANGED <<msg, job, mirror, leg, abort, reply, service, overlap,
                     lost, count>>
  BY DEF CreateTurn
<1>5. TypesNow'
  BY <1>1, <1>2, <1>3, <1>4 DEF TypesNow, Typed, RowIs
<1>6. Local(t)
  BY <1>2, <1>3, <1>4 DEF Local, Same, SameService, RowIs
<1>7. StartInv(t)'
  BY <1>1, <1>2, <1>3, <1>4 DEF TurnInv, StartInv, RowIs, Followed, Pending
<1>8. MirrorInv(t)' /\ TicketInv(t)'
  BY <1>1, <1>2, <1>4 DEF TurnInv, MirrorInv, TicketInv, RowIs, Pending
<1>9. AbortInv(t)' /\ OwnInv(t)'
  BY <1>1, <1>2, <1>3, <1>4
  DEF TurnInv, StartInv, AbortInv, OwnInv, RowIs, Followed
<1>10. RestInv(t)'
  BY <1>1, <1>2, <1>3, <1>4
  DEF TurnInv, StartInv, MirrorInv, RestInv, RowIs, Followed, Undisturbed,
      Continuing, Outcome, TypesNow, Typed
<1> QED
  BY <1>1, <1>5, <1>6, <1>7, <1>8, <1>9, <1>10, OneTurn DEF TurnInv

\* So does a call that fails before the run exists.
LEMMA FailStartStep ==
  ASSUME IInv, NEW t \in Turns, FailStart(t),
         start[t] \in {"persist", "enqueue"},
         UNCHANGED <<msg, job, mirror, leg, abort, reply, service, overlap>>
  PROVE  IInv'
<1>1. TypesNow /\ TurnInv(t)
  BY Types DEF IInv
<1>2. PICK st \in {"failed", turn[t].st} :
        /\ RowIs(t, st, turn[t].jobID, turn[t].ref, turn[t].req)
        /\ st = "failed" \/ t \in lost'
  <2>1. turn \in [Turns -> TurnRecs] /\ "failed" \in TurnStatuses
    BY <1>1 DEF TypesNow, Typed, TurnStatuses, Ended
  <2>2. \/ turn' = [turn EXCEPT ![t].st = "failed"]
        \/ turn' = turn /\ t \in lost'
    BY DEF FailStart, FinalizeRunnerChatTurn
  <2> QED
    BY <2>1, <2>2, RowWritten
<1>3. /\ start' \in [Turns -> Starts] /\ start'[t] = "done"
      /\ \A u \in Turns : u # t => start'[u] = start[u]
  BY <1>1 DEF TypesNow, Typed, FailStart, Starts
<1>4. Recorded(t) /\ count'.faults # 0
  BY <1>1, FaultCounted DEF FailStart, TypesNow, Typed, Recorded
<1>5. TypesNow'
  BY <1>1, <1>2, <1>3, <1>4 DEF TypesNow, Typed, RowIs, Recorded
<1>6. Local(t)
  BY <1>2, <1>3, <1>4 DEF Local, Same, SameService, RowIs, Recorded
<1>7. StartInv(t)'
  BY <1>1, <1>2, <1>3, <1>4 DEF TurnInv, StartInv, RowIs, Followed, Pending
<1>8. MirrorInv(t)' /\ TicketInv(t)'
  BY <1>1, <1>2, <1>4 DEF TurnInv, MirrorInv, TicketInv, RowIs, Pending, Recorded
<1>9. AbortInv(t)' /\ OwnInv(t)'
  BY <1>1, <1>2, <1>3
  DEF TurnInv, StartInv, AbortInv, OwnInv, RowIs, Followed, Active
<1>10. RestInv(t)'
  BY <1>4 DEF RestInv, Undisturbed
<1> QED
  BY <1>1, <1>5, <1>6, <1>7, <1>8, <1>9, <1>10, OneTurn DEF TurnInv

\* The user message is stored, or the call fails.
LEMMA PersistUserMessageStep ==
  ASSUME IInv, NEW t \in Turns, PersistUserMessage(t)
  PROVE  IInv'
<1>1. TypesNow /\ TurnInv(t)
  BY Types DEF IInv
<1>2. CASE FailStart(t)
  BY <1>2, FailStartStep DEF PersistUserMessage
<1>3. CASE /\ start' = [start EXCEPT ![t] = "enqueue"]
           /\ UNCHANGED <<turn, lost, count>>
  <2>1. /\ start' \in [Turns -> Starts] /\ start[t] = "persist"
        /\ start'[t] = "enqueue"
        /\ \A u \in Turns : u # t => start'[u] = start[u]
    BY <1>1, <1>3 DEF TypesNow, Typed, PersistUserMessage, Starts
  <2>2. UNCHANGED <<turn, msg, job, mirror, leg, abort, reply, service, overlap, lost,
                    count>>
    BY <1>3 DEF PersistUserMessage
  <2>3. TypesNow' /\ Local(t)
    BY <1>1, <2>1, <2>2 DEF TypesNow, Typed, Local, Same, SameService
  <2>4. StartInv(t)' /\ MirrorInv(t)' /\ TicketInv(t)'
    BY <1>1, <2>1, <2>2
    DEF TurnInv, StartInv, MirrorInv, TicketInv, Followed, Pending
  <2>5. AbortInv(t)' /\ OwnInv(t)'
    BY <1>1, <2>1, <2>2 DEF TurnInv, AbortInv, OwnInv, Followed
  <2>6. RestInv(t)'
    BY <1>1, <2>1, <2>2 DEF TurnInv, RestInv, Undisturbed, Outcome
  <2> QED
    BY <1>1, <2>3, <2>4, <2>5, <2>6, OneTurn DEF TurnInv
<1> QED
  BY <1>2, <1>3 DEF PersistUserMessage

\* The run is started, or the call fails.
LEMMA EnqueueRunStep ==
  ASSUME IInv, NEW t \in Turns, EnqueueRun(t)
  PROVE  IInv'
<1>1. TypesNow /\ TurnInv(t)
  BY Types DEF IInv
<1>2. CASE FailStart(t) /\ UNCHANGED job
  BY <1>2, FailStartStep DEF EnqueueRun
<1>3. CASE /\ start' = [start EXCEPT ![t] = "mark"]
           /\ job' = [job EXCEPT ![t].st = "active", ![t].tracked = TRUE]
           /\ UNCHANGED <<turn, lost, count>>
  <2>1. /\ start' \in [Turns -> Starts] /\ start[t] = "enqueue"
        /\ start'[t] = "mark"
        /\ \A u \in Turns : u # t => start'[u] = start[u]
    BY <1>1, <1>3 DEF TypesNow, Typed, EnqueueRun, Starts
  <2>2. UNCHANGED <<turn, msg, mirror, leg, abort, reply, service, overlap,
                    lost, count>>
    BY <1>3 DEF EnqueueRun
  <2>3. /\ job' \in [Turns -> JobRecs]
        /\ \A u \in Turns : u # t => job'[u] = job[u]
        /\ job'[t].st = "active" /\ job'[t].tracked = TRUE
        /\ job'[t].asked = job[t].asked
    BY <1>1, <1>3 DEF TypesNow, Typed, JobRecs, JobStatuses, OpenJobs
  <2>4. TypesNow' /\ Local(t)
    BY <1>1, <2>1, <2>2, <2>3 DEF TypesNow, Typed, Local, Same, SameService
  <2>5. StartInv(t)' /\ MirrorInv(t)' /\ TicketInv(t)'
    BY <1>1, <2>1, <2>2, <2>3
    DEF TurnInv, StartInv, MirrorInv, TicketInv, Followed, Pending, Continuing
  <2>6. AbortInv(t)' /\ OwnInv(t)'
    BY <1>1, <2>1, <2>2, <2>3
    DEF TurnInv, StartInv, AbortInv, OwnInv, Followed, Continuing
  <2>7. RestInv(t)'
    BY <1>1, <2>1, <2>2, <2>3
    DEF TypesNow, Typed, TurnInv, StartInv, MirrorInv, RestInv, Undisturbed,
        Followed, Continuing, Outcome
  <2> QED
    BY <1>1, <2>4, <2>5, <2>6, <2>7, OneTurn DEF TurnInv
<1> QED
  BY <1>2, <1>3 DEF EnqueueRun

\* A turn that is still queued learns its run.
LEMMA MarkStartedStep ==
  ASSUME IInv, NEW t \in Turns, MarkStarted(t)
  PROVE  IInv'
<1>1. TypesNow /\ TurnInv(t)
  BY Types DEF IInv
<1>2. /\ start' \in [Turns -> Starts] /\ start[t] = "mark"
      /\ start'[t] = "placeholder"
      /\ \A u \in Turns : u # t => start'[u] = start[u]
      /\ UNCHANGED <<msg, job, mirror, leg, abort, reply, service, overlap,
                     lost>>
  BY <1>1 DEF TypesNow, Typed, MarkStarted, Starts
<1>3. /\ count' \in Counts
      /\ \/ count' = count
         \/ count'.faults # 0 /\ turn' = turn
  BY <1>1, FaultCounted DEF MarkStarted, TypesNow, Typed
<1>4. \/ /\ turn[t].st = "queued"
         /\ RowIs(t, "running", TRUE, turn[t].ref, turn[t].req)
      \/ /\ turn[t].st # "queued" \/ count'.faults # 0
         /\ RowIs(t, turn[t].st, turn[t].jobID, turn[t].ref, turn[t].req)
  <2>1. turn \in [Turns -> TurnRecs] /\ "running" \in TurnStatuses
    BY <1>1 DEF TypesNow, Typed, TurnStatuses, Active
  <2>2. turn[t].st \in TurnStatuses
    BY <2>1 DEF TurnRecs
  <2>3. turn' = turn =>
          RowIs(t, turn[t].st, turn[t].jobID, turn[t].ref, turn[t].req)
    BY <2>1, RowWritten
  <2> QED
    BY <1>1, <2>1, <2>2, <2>3, RowWritten, FaultCounted
    DEF MarkStarted, TypesNow, Typed
<1>5. TypesNow' /\ Local(t)
  BY <1>1, <1>2, <1>3, <1>4 DEF TypesNow, Typed, RowIs, Local, Same, SameService
<1>6. StartInv(t)'
  BY <1>1, <1>2, <1>3, <1>4 DEF TurnInv, StartInv, Followed, Pending, RowIs
<1>7. MirrorInv(t)' /\ TicketInv(t)'
  BY <1>1, <1>2, <1>4 DEF TurnInv, MirrorInv, TicketInv, Pending, RowIs
<1>8. AbortInv(t)' /\ OwnInv(t)'
  BY <1>1, <1>2, <1>4 DEF TurnInv, StartInv, AbortInv, OwnInv, Followed, RowIs
<1>9. RestInv(t)'
  BY <1>1, <1>2, <1>3, <1>4
  DEF TurnInv, StartInv, MirrorInv, RestInv, Undisturbed, Outcome, RowIs,
      Continuing, TypesNow, Typed
<1> QED
  BY <1>1, <1>5, <1>6, <1>7, <1>8, <1>9, OneTurn DEF TurnInv

\* The first mirror is spawned, or the run is aborted and the call gives up.
LEMMA PersistPlaceholderStep ==
  ASSUME IInv, NEW t \in Turns, PersistPlaceholder(t)
  PROVE  IInv'
<1>1. TypesNow /\ TurnInv(t)
  BY Types DEF IInv
<1>2. /\ start[t] = "placeholder" /\ leg[t] = 0 /\ 0 \in Legs
      /\ UNCHANGED <<turn, leg, abort, reply, service, overlap, lost>>
  BY <1>1, BoundsAreNat DEF TurnInv, StartInv, PersistPlaceholder, Legs
<1>3. CASE /\ msg' = [msg EXCEPT ![t] = "running"]
           /\ mirror' = [mirror EXCEPT ![<<t, 0>>].pc = "subscribe"]
           /\ start' = [start EXCEPT ![t] = "done"]
           /\ UNCHANGED <<job, count>>
  <2>1. /\ start' \in [Turns -> Starts] /\ start'[t] = "done"
        /\ \A u \in Turns : u # t => start'[u] = start[u] /\ msg'[u] = msg[u]
        /\ msg' \in [Turns -> TurnStatuses]
    BY <1>1, <1>3 DEF TypesNow, Typed, Starts, TurnStatuses, Active
  <2>2. MirrorIs(t, 0, "subscribe", mirror[<<t, 0>>].seen,
                 mirror[<<t, 0>>].closed, mirror[<<t, 0>>].todo,
                 mirror[<<t, 0>>].perm)
    BY <1>1, <1>2, <1>3, MirrorMoved DEF TypesNow, Typed, MirrorPCs
  <2>3. TypesNow' /\ Local(t)
    BY <1>1, <1>2, <1>3, <2>1, <2>2
    DEF TypesNow, Typed, Local, Same, SameService, MirrorIs
  <2>4. StartInv(t)'
    BY <1>1, <1>2, <1>3, <2>1, <2>2 DEF TurnInv, MirrorIs, StartInv
  <2>5. MirrorInv(t)' /\ TicketInv(t)'
    BY <1>1, <1>2, <1>3, <2>1, <2>2
    DEF TurnInv, MirrorIs, StartInv, MirrorInv, TicketInv, Followed, Pending, Continuing
  <2>6. AbortInv(t)' /\ OwnInv(t)'
    BY <1>1, <1>2, <1>3, <2>1, <2>2
    DEF TurnInv, MirrorIs, StartInv, AbortInv, OwnInv, Followed, Continuing
  <2>7. RestInv(t)'
    BY <1>1, <1>2, <1>3, <2>1, <2>2
    DEF TurnInv, MirrorIs, StartInv, MirrorInv, RestInv, Undisturbed, Followed,
        Continuing
  <2> QED
    BY <1>1, <2>3, <2>4, <2>5, <2>6, <2>7, OneTurn DEF TurnInv
<1>4. CASE /\ Fault /\ (ManagerAbort(t) \/ UNCHANGED <<job, mirror>>)
           /\ start' = [start EXCEPT ![t] = "giveup"]
           /\ UNCHANGED msg
  <2>1. /\ start' \in [Turns -> Starts] /\ start'[t] = "giveup"
        /\ \A u \in Turns : u # t => start'[u] = start[u]
    BY <1>1, <1>4 DEF TypesNow, Typed, Starts
  <2>2. count' \in Counts /\ count'.faults # 0
    BY <1>1, <1>4, FaultCounted DEF TypesNow, Typed
  <2>3. \/ job[t].st \in OpenJobs /\ JobIs(t, "aborted", job[t].asked)
        \/ job' = job /\ mirror' = mirror
    BY <1>1, <1>4, JobAborted DEF TypesNow, Typed
  <2>4. TypesNow' /\ Local(t)
    BY <1>1, <1>2, <1>4, <2>1, <2>2, <2>3
    DEF TypesNow, Typed, Local, Same, SameService, JobIs
  <2>5. StartInv(t)'
    BY <1>1, <1>2, <2>1, <2>2, <2>3
    DEF TurnInv, StartInv, JobIs, Followed, Pending
  <2>6. MirrorInv(t)' /\ TicketInv(t)'
    BY <1>1, <1>2, <2>1, <2>3
    DEF TurnInv, StartInv, MirrorInv, TicketInv, JobIs, Followed, Pending,
        Continuing, Asked, FinishedJobs
  <2>7. AbortInv(t)' /\ OwnInv(t)'
    BY <1>1, <1>2, <2>1, <2>3
    DEF TurnInv, StartInv, AbortInv, OwnInv, JobIs, Followed, Continuing, OpenJobs
  <2>8. RestInv(t)'
    BY <2>2 DEF RestInv, Undisturbed
  <2> QED
    BY <1>1, <2>4, <2>5, <2>6, <2>7, <2>8, OneTurn DEF TurnInv
<1> QED
  BY <1>3, <1>4 DEF PersistPlaceholder

\* The turn of a call that gave up is marked failed.
LEMMA GiveUpStep ==
  ASSUME IInv, NEW t \in Turns, GiveUp(t)
  PROVE  IInv'
<1>1. TypesNow /\ TurnInv(t)
  BY Types DEF IInv
<1>2. PICK st \in {"failed", turn[t].st} :
        /\ Recorded(t) /\ RowIs(t, st, turn[t].jobID, turn[t].ref, turn[t].req)
        /\ st = "failed" \/ t \in lost'
  BY <1>1, Finalized DEF GiveUp, TurnStatuses, Ended
<1>3. /\ start' \in [Turns -> Starts] /\ start[t] = "giveup" /\ start'[t] = "done"
      /\ \A u \in Turns : u # t => start'[u] = start[u]
      /\ UNCHANGED <<msg, job, mirror, leg, abort, reply, service, overlap>>
  BY <1>1 DEF TypesNow, Typed, GiveUp, Starts
<1>4. TypesNow' /\ Local(t)
  BY <1>1, <1>2, <1>3 DEF TypesNow, Typed, RowIs, Local, Same, SameService, Recorded
<1>5. StartInv(t)'
  BY <1>1, <1>2, <1>3 DEF TurnInv, StartInv, RowIs, Followed, Pending, Recorded
<1>6. MirrorInv(t)' /\ TicketInv(t)'
  BY <1>1, <1>2, <1>3 DEF TurnInv, MirrorInv, TicketInv, RowIs, Pending, Recorded
<1>7. AbortInv(t)' /\ OwnInv(t)'
  BY <1>1, <1>2, <1>3
  DEF TurnInv, StartInv, AbortInv, OwnInv, RowIs, Followed, Active
<1>8. RestInv(t)'
  BY <1>1, <1>2, <1>3 DEF TurnInv, RestInv, Undisturbed, Recorded
<1> QED
  BY <1>1, <1>4, <1>5, <1>6, <1>7, <1>8, OneTurn DEF TurnInv

-----------------------------------------------------------------------------
(* The run.                                                                  *)

\* Only the newest mirror can be told of a request: it becomes its ticket.
LEMMA JobAsksStep ==
  ASSUME IInv, NEW t \in Turns, JobAsks(t)
  PROVE  IInv'
<1>1. TypesNow /\ TurnInv(t)
  BY Types DEF IInv
<1>2. JobIs(t, "asking", "native")
  BY <1>1, JobWritten
  DEF TypesNow, Typed, JobAsks, JobStatuses, OpenJobs, Asks
<1>3. /\ job[t].st = "active" /\ leg[t] < MaxResumes /\ leg[t] \in Legs
      /\ UNCHANGED <<turn, msg, start, leg, abort, reply, service, overlap,
                     lost, count>>
  BY <1>1 DEF TypesNow, Typed, JobAsks, MayAsk
<1>4. TypesNow' /\ Local(t)
  BY <1>1, <1>2, <1>3 DEF TypesNow, Typed, JobIs, Local, Same, SameService
<1>5. StartInv(t)'
  BY <1>1, <1>2, <1>3 DEF TurnInv, StartInv, JobIs, Followed, Pending
<1>6. MirrorInv(t)'
  BY <1>1, <1>2, <1>3
  DEF TurnInv, MirrorInv, TicketInv, JobIs, IsTerminal, FinishedJobs, Asked
<1>7. TicketInv(t)'
  BY <1>1, <1>2, <1>3
  DEF TurnInv, MirrorInv, TicketInv, JobIs, Pending, Continuing, Asked, FinishedJobs
<1>8. AbortInv(t)' /\ OwnInv(t)'
  <2>1. AbortInv(t)'
    BY <1>1, <1>2, <1>3
    DEF TurnInv, TicketInv, AbortInv, JobIs, Followed, Continuing, OpenJobs, Asked,
        FinishedJobs
  <2>2. OwnInv(t)'
    <3>1. Followed(t)' <=> Followed(t)
      BY <1>2 DEF JobIs, Followed
    <3>2. job'[t].st = "asking" /\ reply[t] \notin Continuing
      BY <1>1, <1>2, <1>3 DEF TurnInv, TicketInv, JobIs, Asked, FinishedJobs
    <3> QED
      BY <1>1, <1>3, <3>1, <3>2 DEF TurnInv, OwnInv, Continuing
  <2> QED
    BY <2>1, <2>2
<1>9. RestInv(t)'
  BY <1>1, <1>2, <1>3
  DEF TurnInv, RestInv, Undisturbed, JobIs, Continuing, IsTerminal, FinishedJobs,
      Outcome
<1> QED
  BY <1>1, <1>4, <1>5, <1>6, <1>7, <1>8, <1>9, OneTurn DEF TurnInv

\* The channels of a paused run are closed.
LEMMA JobPausesStep ==
  ASSUME IInv, NEW t \in Turns, JobPauses(t)
  PROVE  IInv'
<1>1. TypesNow /\ TurnInv(t)
  BY Types DEF IInv
<1>2. JobIs(t, "approval_required", job[t].asked)
  BY <1>1, JobWritten
  DEF TypesNow, Typed, JobPauses, JobStatuses, OpenJobs, JobRecs
<1>3. /\ job[t].st = "asking" /\ leg[t] \in Legs
      /\ UNCHANGED <<turn, msg, start, leg, abort, reply, service, overlap,
                     lost, count>>
  BY <1>1 DEF TypesNow, Typed, JobPauses
<1>4. TypesNow' /\ Local(t)
  BY <1>1, <1>2, <1>3 DEF TypesNow, Typed, JobIs, Local, Same, SameService
<1>5. StartInv(t)'
  BY <1>1, <1>2, <1>3 DEF TurnInv, StartInv, JobIs, Followed, Pending
<1>6. MirrorInv(t)'
  BY <1>1, <1>2, <1>3 DEF TurnInv, MirrorInv, JobIs, IsTerminal
<1>7. TicketInv(t)'
  BY <1>1, <1>2, <1>3 DEF TurnInv, TicketInv, JobIs, Pending, Asked
<1>8. AbortInv(t)' /\ OwnInv(t)'
  BY <1>1, <1>2, <1>3 DEF TurnInv, AbortInv, OwnInv, JobIs, Followed, OpenJobs
<1>9. RestInv(t)'
  BY <1>1, <1>2, <1>3
  DEF TurnInv, RestInv, Undisturbed, JobIs, IsTerminal, FinishedJobs, Outcome
<1> QED
  BY <1>1, <1>4, <1>5, <1>6, <1>7, <1>8, <1>9, OneTurn DEF TurnInv

\* So are those of a run that ends; it may ask in its final text.
LEMMA JobEndsStep ==
  ASSUME IInv, NEW t \in Turns, JobEnds(t)
  PROVE  IInv'
<1>1. TypesNow /\ TurnInv(t)
  BY Types DEF IInv
<1>2. PICK s \in FinishedJobs \ {"aborted"}, asked \in {job[t].asked, "text"} :
        JobBecomes(t, s, asked)
  BY DEF JobEnds
<1>3. s \in JobStatuses /\ asked \in Asks /\ job[t].asked \in Asks
  BY <1>1, <1>2 DEF TypesNow, Typed, JobStatuses, JobRecs, Asks
<1>4. JobIs(t, s, asked)
  BY <1>1, <1>2, <1>3, JobWritten DEF TypesNow, Typed
<1>5. /\ job[t].st = "active" /\ leg[t] \in Legs
      /\ UNCHANGED <<turn, msg, start, leg, abort, reply, service, overlap,
                     lost, count>>
  BY <1>1 DEF TypesNow, Typed, JobEnds
<1>6. TypesNow' /\ Local(t)
  BY <1>1, <1>4, <1>5 DEF TypesNow, Typed, JobIs, Local, Same, SameService
<1>7. StartInv(t)'
  BY <1>1, <1>4, <1>5 DEF TurnInv, StartInv, JobIs, Followed, Pending
<1>8. MirrorInv(t)'
  BY <1>1, <1>2, <1>3, <1>4, <1>5 DEF TurnInv, MirrorInv, JobIs, IsTerminal
<1>9. TicketInv(t)'
  BY <1>1, <1>2, <1>3, <1>4, <1>5
  DEF TurnInv, TicketInv, JobIs, Pending, Continuing, Asked, FinishedJobs
<1>10. AbortInv(t)' /\ OwnInv(t)'
  BY <1>1, <1>2, <1>4, <1>5
  DEF TurnInv, TicketInv, AbortInv, OwnInv, JobIs, Followed, OpenJobs, Continuing,
      Asked, FinishedJobs
<1>11. RestInv(t)'
  BY <1>1, <1>2, <1>4, <1>5
  DEF TurnInv, RestInv, Undisturbed, JobIs, IsTerminal, FinishedJobs, Outcome,
      Continuing
<1> QED
  BY <1>1, <1>6, <1>7, <1>8, <1>9, <1>10, <1>11, OneTurn DEF TurnInv

-----------------------------------------------------------------------------
(* mirrorJobEventsAfter.                                                     *)

\* A mirror subscribes to a job that is tracked, and replays its requests.
LEMMA MirrorSubscribeStep ==
  ASSUME IInv, NEW t \in Turns, NEW k \in Legs, MirrorSubscribe(<<t, k>>)
  PROVE  IInv'
<1>1. TypesNow /\ TurnInv(t)
  BY Types DEF IInv
<1>2. /\ mirror[<<t, k>>].pc = "subscribe" /\ k = leg[t]
      /\ job[t].tracked = TRUE /\ start[t] = "done"
      /\ UNCHANGED <<turn, msg, job, start, leg, abort, reply, service, overlap, lost,
                     count>>
  BY <1>1 DEF MirrorSubscribe, TurnInv, StartInv, MirrorInv, Followed
<1> DEFINE shut == IsTerminal(job[t].st)
           n == [pc |-> "drain", seen |-> job[t].st, closed |-> shut,
                 todo |-> job[t].asked, perm |-> FALSE]
<1>3. mirror' = [mirror EXCEPT ![<<t, k>>] = n]
  BY <1>2 DEF MirrorSubscribe, IdleMirror
<1>4. /\ shut \in BOOLEAN /\ (shut = TRUE <=> IsTerminal(job[t].st))
      /\ job[t].st \in JobStatuses /\ job[t].asked \in Asks
  BY <1>1 DEF TypesNow, Typed, JobRecs, IsTerminal
<1> HIDE DEF shut
<1>5. n \in MirrorRecs
  BY <1>4 DEF MirrorRecs
<1>6. MirrorIs(t, k, "drain", job[t].st, shut, job[t].asked, FALSE)
  <2>1. MirrorIs(t, k, n.pc, n.seen, n.closed, n.todo, n.perm)
    <3> HIDE DEF n
    <3> QED
      BY <1>1, <1>3, <1>5, MirrorPut DEF TypesNow, Typed
  <2> QED
    BY <2>1
<1> HIDE DEF n
<1>7. TypesNow' /\ Local(t)
  BY <1>1, <1>2, <1>6 DEF TypesNow, Typed, Local, Same, SameService, MirrorIs
<1>8. StartInv(t)'
  BY <1>1, <1>2, <1>6 DEF TurnInv, StartInv, Followed, Pending, MirrorIs
<1>9. MirrorInv(t)'
  BY <1>1, <1>2, <1>4, <1>6 DEF TurnInv, MirrorInv, MirrorIs
<1>10. TicketInv(t)'
  BY <1>1, <1>2, <1>6 DEF TurnInv, TicketInv, MirrorIs, Pending
<1>11. AbortInv(t)' /\ OwnInv(t)'
  BY <1>1, <1>2, <1>6 DEF TurnInv, AbortInv, OwnInv, Followed, MirrorIs
<1>12. RestInv(t)'
  BY <1>1, <1>2, <1>4, <1>6 DEF TurnInv, RestInv, Undisturbed, MirrorIs
<1> QED
  BY <1>1, <1>7, <1>8, <1>9, <1>10, <1>11, <1>12, OneTurn DEF TurnInv

\* A request moves from the mirror to the row, or is found to ask nothing.
LEMMA MirrorPersistStep ==
  ASSUME IInv, NEW t \in Turns, NEW k \in Legs, MirrorPersist(<<t, k>>)
  PROVE  IInv'
<1>1. TypesNow /\ TurnInv(t)
  BY Types DEF IInv
<1> DEFINE m == mirror[<<t, k>>]
<1>2. /\ m.pc = "drain" /\ m.todo # "no" /\ m.todo \in Asks
      /\ start[t] = "done" /\ leg[t] \in Legs
      /\ UNCHANGED <<msg, job, start, leg, abort, reply, service, overlap,
                     lost>>
  BY <1>1
  DEF MirrorPersist, TurnInv, StartInv, Followed, TypesNow, Typed, MirrorRecs,
      Mirrors
<1>3. \/ /\ RowIs(t, turn[t].st, turn[t].jobID, m.todo, "pending")
         /\ MirrorIs(t, k, m.pc, m.seen, m.closed, "no", TRUE)
         /\ Recorded(t)
      \/ /\ RowIs(t, turn[t].st, turn[t].jobID, turn[t].ref, turn[t].req)
         /\ MirrorIs(t, k, m.pc, m.seen, m.closed, "no", TRUE)
         /\ Recorded(t) /\ count'.faults # 0
      \/ /\ RowIs(t, turn[t].st, turn[t].jobID, turn[t].ref, turn[t].req)
         /\ MirrorIs(t, k, m.pc, m.seen, m.closed, "no", m.perm)
         /\ Recorded(t)
  <2>1. CASE /\ turn' = [turn EXCEPT ![t].ref = m.todo, ![t].req = "pending"]
             /\ mirror' = [mirror EXCEPT ![<<t, k>>].todo = "no",
                                         ![<<t, k>>].perm = TRUE]
             /\ UNCHANGED count
    <3>1. RowIs(t, turn[t].st, turn[t].jobID, m.todo, "pending")
      <4> DEFINE todo == m.todo
                 row == [turn[t] EXCEPT !.ref = todo, !.req = "pending"]
      <4>1. /\ turn \in [Turns -> TurnRecs] /\ turn[t] \in TurnRecs
            /\ todo \in {"text", "native"} /\ turn' = [turn EXCEPT ![t] = row]
        BY <1>1, <1>2, <2>1 DEF TypesNow, Typed, Asks
      <4> HIDE DEF todo
      <4>2. /\ row \in TurnRecs /\ row.st = turn[t].st
            /\ row.jobID = turn[t].jobID /\ row.ref = todo /\ row.req = "pending"
        BY <4>1 DEF TurnRecs
      <4> HIDE DEF row
      <4>3. RowIs(t, turn[t].st, turn[t].jobID, todo, "pending")
        BY <4>1, <4>2 DEF RowIs
      <4> QED
        BY <4>3 DEF todo
    <3>2. MirrorIs(t, k, m.pc, m.seen, m.closed, "no", TRUE)
      BY <1>1, <2>1, MirrorAsked DEF TypesNow, Typed, Asks
    <3>3. Recorded(t)
      BY <1>1, <1>2, <2>1, FaultRecorded
    <3> QED
      BY <3>1, <3>2, <3>3
  <2>2. CASE /\ mirror' = [mirror EXCEPT ![<<t, k>>].todo = "no",
                                         ![<<t, k>>].perm = TRUE]
             /\ Fault /\ UNCHANGED turn
    <3>1. RowIs(t, turn[t].st, turn[t].jobID, turn[t].ref, turn[t].req)
      BY <1>1, <2>2 DEF TypesNow, Typed, RowIs
    <3>2. MirrorIs(t, k, m.pc, m.seen, m.closed, "no", TRUE)
      BY <1>1, <2>2, MirrorAsked DEF TypesNow, Typed, Asks
    <3>3. Recorded(t) /\ count'.faults # 0
      BY <1>1, <1>2, <2>2, FaultRecorded
    <3> QED
      BY <3>1, <3>2, <3>3
  <2>3. CASE /\ mirror' = [mirror EXCEPT ![<<t, k>>].todo = "no"]
             /\ UNCHANGED <<turn, count>>
    <3>1. RowIs(t, turn[t].st, turn[t].jobID, turn[t].ref, turn[t].req)
      BY <1>1, <2>3 DEF TypesNow, Typed, RowIs
    <3>2. MirrorIs(t, k, m.pc, m.seen, m.closed, "no", m.perm)
      BY <1>1, <2>3, MirrorTold DEF TypesNow, Typed, Asks
    <3>3. Recorded(t)
      BY <1>1, <1>2, <2>3, FaultRecorded
    <3> QED
      BY <3>1, <3>2, <3>3
  <2> QED
    BY <2>1, <2>2, <2>3 DEF MirrorPersist
<1>4. TypesNow' /\ Local(t)
  BY <1>1, <1>2, <1>3
  DEF TypesNow, Typed, Local, Same, SameService, MirrorIs, RowIs, Recorded
<1>5. StartInv(t)'
  BY <1>1, <1>2, <1>3 DEF TurnInv, StartInv, Followed, MirrorIs, RowIs, Recorded
<1>6. MirrorInv(t)'
  BY <1>1, <1>2, <1>3 DEF TurnInv, MirrorInv, MirrorIs
<1>7. TicketInv(t)'
  BY <1>1, <1>2, <1>3 DEF TurnInv, TicketInv, MirrorIs, RowIs, Pending
<1>8. AbortInv(t)' /\ OwnInv(t)'
  BY <1>1, <1>2, <1>3 DEF TurnInv, AbortInv, OwnInv, Followed, MirrorIs, RowIs
<1>9. RestInv(t)'
  BY <1>1, <1>2, <1>3
  DEF TurnInv, AbortInv, RestInv, Undisturbed, MirrorIs, RowIs, Outcome, Recorded
<1> QED
  BY <1>1, <1>4, <1>5, <1>6, <1>7, <1>8, <1>9, OneTurn DEF TurnInv

\* The channel is closed: the mirror of an undisturbed turn has seen how the
\* job ended, or paused.
LEMMA MirrorSnapshotStep ==
  ASSUME IInv, NEW t \in Turns, NEW k \in Legs, MirrorSnapshot(<<t, k>>)
  PROVE  IInv'
<1>1. TypesNow /\ TurnInv(t)
  BY Types DEF IInv
<1> DEFINE m == mirror[<<t, k>>]
           seen == IF ~IsTerminal(m.seen) THEN job[t].st ELSE m.seen
<1>2. /\ m.pc = "drain" /\ m.todo = "no" /\ m.closed = TRUE
      /\ start[t] = "done" /\ job[t].tracked = TRUE /\ leg[t] \in Legs
      /\ UNCHANGED <<turn, msg, job, start, leg, abort, reply, service, overlap, lost,
                     count>>
  BY <1>1
  DEF MirrorSnapshot, TurnInv, StartInv, Followed, TypesNow, Typed, MirrorRecs,
      Mirrors
<1>3. mirror' = [mirror EXCEPT ![<<t, k>>].pc = "message", ![<<t, k>>].seen = seen]
  BY <1>1, <1>2 DEF MirrorSnapshot, TypesNow, Typed, Mirrors, MirrorRecs
<1>4. seen \in JobStatuses
  BY <1>1 DEF TypesNow, Typed, JobRecs, MirrorRecs, Mirrors
<1>5. MirrorIs(t, k, "message", seen, m.closed, m.todo, m.perm)
  <2> HIDE DEF seen
  <2> QED
    BY <1>1, <1>3, <1>4, MirrorSaw DEF TypesNow, Typed, MirrorPCs
<1>6. TypesNow' /\ Local(t)
  BY <1>1, <1>2, <1>5 DEF TypesNow, Typed, Local, Same, SameService, MirrorIs
<1>7. StartInv(t)'
  BY <1>1, <1>2, <1>5 DEF TurnInv, StartInv, Followed, MirrorIs, Pending
<1>8. MirrorInv(t)'
  BY <1>1, <1>2, <1>5 DEF TurnInv, MirrorInv, MirrorIs
<1>9. TicketInv(t)'
  BY <1>1, <1>2, <1>5 DEF TurnInv, TicketInv, MirrorIs, Pending
<1>10. AbortInv(t)' /\ OwnInv(t)'
  BY <1>1, <1>2, <1>5 DEF TurnInv, AbortInv, OwnInv, Followed, MirrorIs
<1>11. RestInv(t)'
  BY <1>1, <1>2, <1>5
  DEF TurnInv, AbortInv, RestInv, Undisturbed, MirrorIs, Outcome
<1> QED
  BY <1>1, <1>6, <1>7, <1>8, <1>9, <1>10, <1>11, OneTurn DEF TurnInv

\* What a mirror makes of the turn is no active status.
LEMMA OutcomeEnds ==
  ASSUME TypesNow, NEW m \in Mirrors
  PROVE  Outcome(m) \in TurnStatuses \ Active
  BY DEF TypesNow, Typed, Outcome, MapJobStatus, TurnStatuses, Active, Ended,
         MirrorRecs

\* The assistant's message is written before the row.
LEMMA MirrorMessageStep ==
  ASSUME IInv, NEW t \in Turns, NEW k \in Legs, MirrorMessage(<<t, k>>)
  PROVE  IInv'
<1>1. TypesNow /\ TurnInv(t)
  BY Types DEF IInv
<1> DEFINE m == mirror[<<t, k>>]
<1>2. /\ m.pc = "message" /\ start[t] = "done" /\ leg[t] \in Legs
      /\ <<t, k>> \in Mirrors /\ <<t, k>>[1] = t
      /\ UNCHANGED <<turn, job, start, leg, abort, reply, service, overlap,
                     lost>>
  BY <1>1
  DEF MirrorMessage, TurnInv, StartInv, Followed, TypesNow, Typed, Mirrors
<1>3. MirrorIs(t, k, "finalize", m.seen, m.closed, m.todo, m.perm)
  BY <1>1, MirrorMoved DEF MirrorMessage, TypesNow, Typed, MirrorPCs
<1>4. /\ msg' \in [Turns -> TurnStatuses]
      /\ msg'[t] = Outcome(<<t, k>>) \/ count'.faults # 0
      /\ \A u \in Turns : u # t => msg'[u] = msg[u]
      /\ Recorded(t)
  BY <1>1, <1>2, OutcomeEnds, FaultRecorded DEF MirrorMessage, TypesNow, Typed
<1>5. TypesNow' /\ Local(t)
  BY <1>1, <1>2, <1>3, <1>4
  DEF TypesNow, Typed, Local, Same, SameService, MirrorIs, Recorded
<1>6. StartInv(t)'
  BY <1>1, <1>2, <1>3, <1>4
  DEF TurnInv, StartInv, Followed, MirrorIs, Pending, Recorded
<1>7. MirrorInv(t)'
  BY <1>1, <1>2, <1>3 DEF TurnInv, MirrorInv, MirrorIs
<1>8. TicketInv(t)'
  BY <1>1, <1>2, <1>3 DEF TurnInv, TicketInv, MirrorIs, Pending
<1>9. AbortInv(t)' /\ OwnInv(t)'
  BY <1>1, <1>2, <1>3 DEF TurnInv, AbortInv, OwnInv, Followed, MirrorIs
<1>10. RestInv(t)'
  BY <1>1, <1>2, <1>3, <1>4
  DEF TurnInv, AbortInv, RestInv, Undisturbed, MirrorIs, Outcome, Recorded
<1> QED
  BY <1>1, <1>5, <1>6, <1>7, <1>8, <1>9, <1>10, OneTurn DEF TurnInv

\* The last write of a mirror: a regular turn has no continuation under way.
LEMMA MirrorFinalizeStep ==
  ASSUME IInv, NEW t \in Turns, NEW k \in Legs, MirrorFinalize(<<t, k>>)
  PROVE  IInv'
<1>1. TypesNow /\ TurnInv(t)
  BY Types DEF IInv
<1> DEFINE m == mirror[<<t, k>>]
           out == Outcome(<<t, k>>)
<1>2. /\ m.pc = "finalize" /\ start[t] = "done" /\ leg[t] \in Legs
      /\ <<t, k>> \in Mirrors /\ <<t, k>>[1] = t
      /\ job[t].tracked = TRUE
      /\ UNCHANGED <<msg, job, start, leg, abort, reply, service, overlap>>
  BY <1>1
  DEF MirrorFinalize, TurnInv, StartInv, Followed, TypesNow, Typed, Mirrors
<1>3. MirrorIs(t, k, "off", "none", FALSE, "no", FALSE)
  <2>1. IdleMirror \in MirrorRecs
    BY DEF IdleMirror, MirrorRecs, JobStatuses, Asks
  <2>2. MirrorIs(t, k, IdleMirror.pc, IdleMirror.seen, IdleMirror.closed,
                 IdleMirror.todo, IdleMirror.perm)
    BY <1>1, <2>1, MirrorPut DEF MirrorFinalize, TypesNow, Typed
  <2> QED
    BY <2>2 DEF IdleMirror
<1>4. out \in TurnStatuses \ Active
  BY <1>1, <1>2, OutcomeEnds
<1>5. PICK st \in {out, turn[t].st} :
        /\ Recorded(t) /\ RowIs(t, st, turn[t].jobID, turn[t].ref, turn[t].req)
        /\ st = out \/ (st = turn[t].st /\ t \in lost' /\ count'.faults # 0)
  <2>1. Finalize(t, out)
    BY <1>2 DEF MirrorFinalize
  <2> HIDE DEF out
  <2> QED
    BY <1>1, <1>4, <2>1, Finalized
<1>6. TypesNow' /\ Local(t)
  BY <1>1, <1>2, <1>3, <1>5
  DEF TypesNow, Typed, Local, Same, SameService, MirrorIs, RowIs, Recorded
<1>7. StartInv(t)'
  BY <1>1, <1>2, <1>3, <1>5 DEF TurnInv, StartInv, Followed, MirrorIs, RowIs, Recorded
<1>8. MirrorInv(t)'
  BY <1>1, <1>2, <1>3 DEF TurnInv, MirrorInv, MirrorIs
<1>9. TicketInv(t)'
  BY <1>1, <1>2, <1>3, <1>5
  DEF TurnInv, TicketInv, MirrorIs, RowIs, Pending, Recorded
<1>10. AbortInv(t)' /\ OwnInv(t)'
  BY <1>1, <1>2, <1>3, <1>4, <1>5
  DEF TurnInv, AbortInv, OwnInv, Followed, MirrorIs, RowIs, Continuing, Recorded
<1>11. RestInv(t)'
  BY <1>1, <1>2, <1>3, <1>5
  DEF TurnInv, StartInv, AbortInv, RestInv, Undisturbed, MirrorIs, RowIs, Outcome,
      IsTerminal, FinishedJobs, Continuing, Followed, Recorded
<1> QED
  BY <1>1, <1>6, <1>7, <1>8, <1>9, <1>10, <1>11, OneTurn DEF TurnInv

-----------------------------------------------------------------------------
(* AbortTurn.                                                                *)

\* The call learns the run the row names.
LEMMA AbortReadStep ==
  ASSUME IInv, NEW t \in Turns, AbortRead(t)
  PROVE  IInv'
<1>1. TypesNow /\ TurnInv(t)
  BY Types DEF IInv
<1>2. /\ abort' \in [Turns -> AbortRecs] /\ abort'[t].pc = "cancel"
      /\ abort'[t].jobID = turn[t].jobID
      /\ \A u \in Turns : u # t => abort'[u] = abort[u]
  BY <1>1 DEF TypesNow, Typed, AbortRead, AbortRecs, TurnRecs
<1>3. /\ count' \in Counts /\ count'.faults = count.faults
      /\ service = "up" /\ leg[t] \in Legs
      /\ UNCHANGED <<turn, msg, job, start, mirror, leg, reply, service,
                     overlap, lost>>
  BY <1>1 DEF TypesNow, Typed, AbortRead, Counts
<1>4. TypesNow' /\ Local(t)
  BY <1>1, <1>2, <1>3 DEF TypesNow, Typed, Local, Same, SameService
<1>5. StartInv(t)' /\ MirrorInv(t)' /\ TicketInv(t)'
  BY <1>1, <1>2, <1>3
  DEF TurnInv, StartInv, MirrorInv, TicketInv, Followed, Pending
<1>6. AbortInv(t)' /\ OwnInv(t)'
  BY <1>1, <1>2, <1>3 DEF TurnInv, AbortInv, OwnInv, Followed
<1>7. RestInv(t)'
  BY <1>2 DEF RestInv, Undisturbed
<1> QED
  BY <1>1, <1>4, <1>5, <1>6, <1>7, OneTurn DEF TurnInv

\* The run is aborted when the call knows it; it is never open again.
LEMMA AbortCancelStep ==
  ASSUME IInv, NEW t \in Turns, AbortCancel(t)
  PROVE  IInv'
<1>1. TypesNow /\ TurnInv(t)
  BY Types DEF IInv
<1>2. /\ abort[t].pc = "cancel"
      /\ abort' \in [Turns -> AbortRecs] /\ abort'[t].pc = "finalize"
      /\ abort[t].jobID \in BOOLEAN /\ abort'[t].jobID \in BOOLEAN
      /\ abort'[t].jobID = TRUE => abort[t].jobID = TRUE
      /\ \A u \in Turns : u # t => abort'[u] = abort[u]
  <2>1. abort \in [Turns -> AbortRecs]
    BY <1>1 DEF TypesNow, Typed
  <2>2. CASE abort' = [abort EXCEPT ![t].pc = "finalize"]
    BY <2>1, <2>2 DEF AbortCancel, AbortRecs
  <2>3. CASE abort' = [abort EXCEPT ![t] = [pc |-> "finalize",
                                            jobID |-> FALSE]]
    <3> DEFINE new == [pc |-> "finalize", jobID |-> FALSE]
    <3>1. new \in AbortRecs /\ new.pc = "finalize" /\ new.jobID = FALSE
      BY DEF AbortRecs
    <3>2. abort[t].jobID \in BOOLEAN /\ abort' = [abort EXCEPT ![t] = new]
      BY <2>1, <2>3 DEF AbortRecs
    <3> HIDE DEF new
    <3> QED
      BY <2>1, <3>1, <3>2 DEF AbortCancel
  <2> QED
    BY <2>2, <2>3 DEF AbortCancel
<1>3. /\ leg[t] \in Legs
      /\ UNCHANGED <<turn, msg, start, leg, reply, service, overlap, lost>>
      /\ Recorded(t)
  BY <1>1, FaultRecorded DEF TypesNow, Typed, AbortCancel
<1>4. \/ job[t].st \in OpenJobs /\ JobIs(t, "aborted", job[t].asked)
         /\ abort[t].jobID = TRUE
      \/ /\ job[t].st \notin OpenJobs \/ abort'[t].jobID = FALSE
         /\ job' = job /\ mirror' = mirror
  BY <1>1, <1>2, JobAborted DEF TypesNow, Typed, AbortCancel, AbortRecs
<1>5. TypesNow' /\ Local(t)
  BY <1>1, <1>2, <1>3, <1>4
  DEF TypesNow, Typed, Local, Same, SameService, JobIs, Recorded
<1>6. StartInv(t)'
  <2>1. CASE job' = job /\ mirror' = mirror
    BY <1>1, <1>2, <1>3, <2>1 DEF TurnInv, StartInv, Followed, Pending, Recorded
  <2>2. CASE JobIs(t, "aborted", job[t].asked) /\ job[t].st \in OpenJobs
    <3>1. Followed(t)' <=> Followed(t)
      BY <2>2 DEF Followed, JobIs
    <3> QED
      BY <1>1, <1>2, <1>3, <2>2, <3>1
      DEF TurnInv, StartInv, Pending, JobIs, OpenJobs, Recorded
  <2> QED
    BY <1>4, <2>1, <2>2
<1>7. MirrorInv(t)'
  BY <1>1, <1>3, <1>4 DEF TurnInv, MirrorInv, JobIs, IsTerminal, FinishedJobs
<1>8. TicketInv(t)'
  BY <1>1, <1>3, <1>4
  DEF TurnInv, TicketInv, Pending, JobIs, Asked, FinishedJobs
<1>9. AbortInv(t)' /\ OwnInv(t)'
  <2>1. /\ \A k \in Legs : mirror'[<<t, k>>].pc = mirror[<<t, k>>].pc
        /\ Followed(t)' <=> Followed(t)
    BY <1>4 DEF Followed, JobIs
  <2>2. abort'[t].jobID = TRUE => job'[t].st \notin OpenJobs
    BY <1>2, <1>4 DEF JobIs, OpenJobs
  <2>3. AbortInv(t)'
    BY <1>1, <1>2, <1>3, <2>1, <2>2 DEF TurnInv, AbortInv
  <2>4. OwnInv(t)'
    BY <1>2, <1>3 DEF OwnInv
  <2> QED
    BY <2>3, <2>4
<1>10. RestInv(t)'
  BY <1>2 DEF RestInv, Undisturbed
<1> QED
  BY <1>1, <1>5, <1>6, <1>7, <1>8, <1>9, <1>10, OneTurn DEF TurnInv

\* The row is overwritten; no regular mark can follow.
LEMMA AbortFinalizeStep ==
  ASSUME IInv, NEW t \in Turns, AbortFinalize(t)
  PROVE  IInv'
<1>1. TypesNow /\ TurnInv(t)
  BY Types DEF IInv
<1>2. /\ abort[t].pc = "finalize"
      /\ abort' \in [Turns -> AbortRecs] /\ abort'[t].pc \in {"done", "failed"}
      /\ abort'[t].jobID = abort[t].jobID
      /\ \A u \in Turns : u # t => abort'[u] = abort[u]
  BY <1>1 DEF TypesNow, Typed, AbortFinalize, AbortRecs
<1>3. /\ leg[t] \in Legs
      /\ UNCHANGED <<msg, job, start, mirror, leg, reply, service, overlap>>
      /\ Recorded(t)
  BY <1>1, FaultRecorded DEF TypesNow, Typed, AbortFinalize
<1>4. PICK st \in {"aborted", turn[t].st} :
        /\ RowIs(t, st, turn[t].jobID, turn[t].ref, turn[t].req)
        /\ \/ st = "aborted"
           \/ st = turn[t].st /\ t \in lost' /\ abort'[t].pc = "failed"
  <2>1. turn \in [Turns -> TurnRecs] /\ "aborted" \in TurnStatuses
    BY <1>1 DEF TypesNow, Typed, TurnStatuses, Ended
  <2>2. CASE turn' = [turn EXCEPT ![t].st = "aborted"]
    BY <2>1, <2>2, RowWritten
  <2>3. CASE turn' = turn /\ Lose(t) /\ abort' = [abort EXCEPT ![t].pc = "failed"]
    <3>1. abort'[t].pc = "failed" /\ t \in lost'
      BY <1>1, <2>3, FaultRecorded DEF TypesNow, Typed, AbortRecs
    <3> QED
      BY <2>1, <2>3, <3>1, RowWritten
  <2> QED
    BY <2>2, <2>3 DEF AbortFinalize, FinalizeRunnerChatTurn
<1>5. TypesNow' /\ Local(t)
  BY <1>1, <1>2, <1>3, <1>4
  DEF TypesNow, Typed, Local, Same, SameService, RowIs, Recorded
<1>6. StartInv(t)'
  BY <1>1, <1>2, <1>3, <1>4
  DEF TurnInv, StartInv, Followed, Pending, RowIs, Recorded
<1>7. MirrorInv(t)' /\ TicketInv(t)'
  BY <1>1, <1>3, <1>4
  DEF TurnInv, MirrorInv, TicketInv, Pending, RowIs, Recorded
<1>8. AbortInv(t)' /\ OwnInv(t)'
  BY <1>1, <1>2, <1>3, <1>4
  DEF TurnInv, AbortInv, OwnInv, Followed, RowIs, Active, Recorded
<1>9. RestInv(t)'
  BY <1>2 DEF RestInv, Undisturbed
<1> QED
  BY <1>1, <1>5, <1>6, <1>7, <1>8, <1>9, OneTurn DEF TurnInv

-----------------------------------------------------------------------------
(* RespondToTurnApproval.                                                    *)

\* The reply of turn t moves.
ReplyIs(t, from, to) ==
  /\ reply[t] = from /\ reply' \in [Turns -> Replies] /\ reply'[t] = to
  /\ \A u \in Turns : u # t => reply'[u] = reply[u]

\* A reply goes on to its next step.
LEMMA ReplyMoved ==
  ASSUME reply \in [Turns -> Replies], NEW t \in Turns, NEW to \in Replies,
         reply' = [reply EXCEPT ![t] = to]
  PROVE  ReplyIs(t, reply[t], to)
  BY DEF ReplyIs

\* Only a turn that waits for approval is answered.
LEMMA ReplyReadStep ==
  ASSUME IInv, NEW t \in Turns, ReplyRead(t)
  PROVE  IInv'
<1>1. TypesNow /\ TurnInv(t)
  BY Types DEF IInv
<1>2. ReplyIs(t, "idle", "broker")
  BY <1>1, ReplyMoved DEF TypesNow, Typed, ReplyRead, Replies
<1>3. /\ service = "up" /\ turn[t].st = "approval_required" /\ leg[t] \in Legs
      /\ UNCHANGED <<turn, msg, job, start, mirror, leg, abort, service, overlap, lost,
                     count>>
  BY <1>1 DEF TypesNow, Typed, ReplyRead
<1>4. TypesNow' /\ Local(t)
  BY <1>1, <1>2, <1>3 DEF TypesNow, Typed, Local, Same, SameService, ReplyIs
<1>5. StartInv(t)'
  BY <1>1, <1>2, <1>3 DEF TurnInv, StartInv, Followed, Pending, ReplyIs
<1>6. MirrorInv(t)' /\ TicketInv(t)'
  BY <1>1, <1>2, <1>3
  DEF TurnInv, MirrorInv, TicketInv, Pending, ReplyIs, Continuing
<1>7. AbortInv(t)' /\ OwnInv(t)'
  BY <1>1, <1>2, <1>3 DEF TurnInv, AbortInv, OwnInv, Followed, ReplyIs, Continuing
<1>8. RestInv(t)'
  BY <1>1, <1>2, <1>3
  DEF TurnInv, RestInv, Undisturbed, ReplyIs, Continuing, Outcome
<1> QED
  BY <1>1, <1>4, <1>5, <1>6, <1>7, <1>8, OneTurn DEF TurnInv

\* The broker takes a pending request, once.
LEMMA ReplyBrokerStep ==
  ASSUME IInv, NEW t \in Turns, ReplyBroker(t)
  PROVE  IInv'
<1>1. TypesNow /\ TurnInv(t)
  BY Types DEF IInv
<1>2. /\ reply[t] = "broker" /\ leg[t] \in Legs
      /\ start[t] = "done"
      /\ UNCHANGED <<msg, job, start, mirror, leg, abort, service, overlap,
                     lost, count>>
  BY <1>1 DEF TypesNow, Typed, ReplyBroker, TurnInv, StartInv
<1>3. \/ /\ turn[t].req = "pending"
         /\ RowIs(t, turn[t].st, turn[t].jobID, turn[t].ref, "resolved")
         /\ \/ ReplyIs(t, "broker", "refuse")
            \/ ReplyIs(t, "broker", "fallback")
            \/ turn[t].ref = "native" /\ ReplyIs(t, "broker", "respond")
      \/ /\ turn[t].req # "pending"
         /\ RowIs(t, turn[t].st, turn[t].jobID, turn[t].ref, turn[t].req)
         /\ ReplyIs(t, "broker", "idle")
  <2>1. CASE turn[t].req = "pending"
    <3>1. RowIs(t, turn[t].st, turn[t].jobID, turn[t].ref, "resolved")
      <4>1. turn' = [turn EXCEPT ![t].req = "resolved"]
        BY <2>1 DEF ReplyBroker
      <4>2. turn \in [Turns -> TurnRecs]
        BY <1>1 DEF TypesNow, Typed
      <4> QED
        BY <4>1, <4>2 DEF RowIs, TurnRecs
    <3>2. PICK next \in {"refuse", IF turn[t].ref = "native" THEN "respond"
                                                            ELSE "fallback"} :
            reply' = [reply EXCEPT ![t] = next]
      BY <2>1 DEF ReplyBroker
    <3>3. ReplyIs(t, "broker", next)
      BY <1>1, <1>2, <3>2, ReplyMoved DEF TypesNow, Typed, Replies
    <3> QED
      BY <2>1, <3>1, <3>2, <3>3
  <2>2. CASE turn[t].req # "pending"
    <3>1. RowIs(t, turn[t].st, turn[t].jobID, turn[t].ref, turn[t].req)
      BY <1>1, <2>2 DEF ReplyBroker, RowIs, TypesNow, Typed
    <3>2. ReplyIs(t, "broker", "idle")
      BY <1>1, <1>2, <2>2, ReplyMoved DEF ReplyBroker, TypesNow, Typed, Replies
    <3> QED
      BY <2>2, <3>1, <3>2
  <2> QED
    BY <2>1, <2>2
<1>4. TypesNow' /\ Local(t)
  BY <1>1, <1>2, <1>3 DEF TypesNow, Typed, Local, Same, SameService, ReplyIs, RowIs
<1>5. StartInv(t)'
  BY <1>1, <1>2, <1>3 DEF TurnInv, StartInv, Followed, ReplyIs, RowIs
<1>6. MirrorInv(t)'
  BY <1>1, <1>2 DEF TurnInv, MirrorInv
<1>7. TicketInv(t)'
  BY <1>1, <1>2, <1>3 DEF TurnInv, TicketInv, Pending, ReplyIs, RowIs, Continuing
<1>8. AbortInv(t)' /\ OwnInv(t)'
  BY <1>1, <1>2, <1>3
  DEF TurnInv, AbortInv, OwnInv, Followed, ReplyIs, RowIs, Continuing
<1>9. RestInv(t)'
  BY <1>1, <1>2, <1>3
  DEF TurnInv, RestInv, Undisturbed, ReplyIs, RowIs, Continuing, Outcome
<1> QED
  BY <1>1, <1>4, <1>5, <1>6, <1>7, <1>8, <1>9, OneTurn DEF TurnInv

\* A refusal aborts the run.
LEMMA ReplyRefuseStep ==
  ASSUME IInv, NEW t \in Turns, ReplyRefuse(t)
  PROVE  IInv'
<1>1. TypesNow /\ TurnInv(t)
  BY Types DEF IInv
<1>2. ReplyIs(t, "refuse", "close")
  BY <1>1, ReplyMoved DEF TypesNow, Typed, ReplyRefuse, Replies
<1>3. /\ leg[t] \in Legs
      /\ UNCHANGED <<turn, msg, start, leg, abort, service, overlap, lost>>
      /\ Recorded(t)
  BY <1>1, FaultRecorded DEF TypesNow, Typed, ReplyRefuse
<1>4. \/ job[t].st \in OpenJobs /\ JobIs(t, "aborted", job[t].asked)
      \/ job' = job /\ mirror' = mirror
  BY <1>1, JobAborted DEF TypesNow, Typed, ReplyRefuse
<1>5. TypesNow' /\ Local(t)
  BY <1>1, <1>2, <1>3, <1>4
  DEF TypesNow, Typed, Local, Same, SameService, JobIs, ReplyIs, Recorded
<1>6. StartInv(t)'
  BY <1>1, <1>2, <1>3, <1>4
  DEF TurnInv, StartInv, Followed, Pending, JobIs, ReplyIs, Recorded
<1>7. MirrorInv(t)'
  BY <1>1, <1>3, <1>4 DEF TurnInv, MirrorInv, JobIs, IsTerminal, FinishedJobs
<1>8. TicketInv(t)'
  BY <1>1, <1>2, <1>3, <1>4
  DEF TurnInv, StartInv, TicketInv, Pending, JobIs, Asked, FinishedJobs, ReplyIs,
      Continuing
<1>9. AbortInv(t)' /\ OwnInv(t)'
  BY <1>1, <1>2, <1>3, <1>4
  DEF TurnInv, AbortInv, OwnInv, Followed, JobIs, OpenJobs, ReplyIs, Continuing
<1>10. RestInv(t)'
  BY <1>2 DEF RestInv, Undisturbed, ReplyIs
<1> QED
  BY <1>1, <1>5, <1>6, <1>7, <1>8, <1>9, <1>10, OneTurn DEF TurnInv

\* The native runtime takes the answer, or the turn is closed.
LEMMA ReplyRespondStep ==
  ASSUME IInv, NEW t \in Turns, ReplyRespond(t)
  PROVE  IInv'
<1>1. TypesNow /\ TurnInv(t)
  BY Types DEF IInv
<1>2. /\ leg[t] \in Legs
      /\ UNCHANGED <<turn, msg, job, start, mirror, leg, abort, service,
                     lost, count>>
  BY <1>1 DEF TypesNow, Typed, ReplyRespond
<1>3. \/ /\ ReplyIs(t, "respond", "mark")
         /\ job[t].st \in {"asking", "approval_required"}
      \/ ReplyIs(t, "respond", "fallback")
  BY <1>1, ReplyMoved DEF TypesNow, Typed, ReplyRespond, Replies
<1>4. /\ overlap' \in SUBSET Turns
      /\ \A u \in Turns : u # t => (u \in overlap' <=> u \in overlap)
      /\ t \notin overlap' =>
           t \notin overlap /\ (reply'[t] = "mark" => ~Followed(t))
  BY <1>1, <1>3 DEF TypesNow, Typed, ReplyRespond, ReplyIs
<1>5. TypesNow' /\ Local(t)
  BY <1>1, <1>2, <1>3, <1>4 DEF TypesNow, Typed, Local, Same, SameService, ReplyIs
<1>6. StartInv(t)'
  BY <1>1, <1>2, <1>3 DEF TurnInv, StartInv, Followed, Pending, ReplyIs
<1>7. MirrorInv(t)' /\ TicketInv(t)'
  BY <1>1, <1>2, <1>3
  DEF TurnInv, MirrorInv, TicketInv, Pending, ReplyIs, Continuing
<1>8. AbortInv(t)' /\ OwnInv(t)'
  BY <1>1, <1>2, <1>3, <1>4
  DEF TurnInv, AbortInv, OwnInv, Followed, ReplyIs, Continuing, OpenJobs
<1>9. RestInv(t)'
  BY <1>1, <1>2, <1>3, <1>4
  DEF TurnInv, StartInv, MirrorInv, RestInv, Undisturbed, Followed, ReplyIs,
      Continuing, Outcome, IsTerminal, FinishedJobs
<1> QED
  BY <1>1, <1>5, <1>6, <1>7, <1>8, <1>9, OneTurn DEF TurnInv

\* Without a continuation the turn is closed.
LEMMA ReplyCloseStep ==
  ASSUME IInv, NEW t \in Turns, ReplyClose(t)
  PROVE  IInv'
<1>1. TypesNow /\ TurnInv(t)
  BY Types DEF IInv
<1>2. ReplyIs(t, "close", "closed") \/ ReplyIs(t, "fallback", "closed")
  BY <1>1, ReplyMoved DEF TypesNow, Typed, ReplyClose, Replies
<1>3. PICK st \in {"failed", turn[t].st} :
        /\ Recorded(t) /\ RowIs(t, st, turn[t].jobID, turn[t].ref, turn[t].req)
        /\ st = "failed" \/ (st = turn[t].st /\ t \in lost')
  BY <1>1, Finalized DEF ReplyClose, TurnStatuses, Ended
<1>4. /\ leg[t] \in Legs
      /\ UNCHANGED <<msg, job, start, mirror, leg, abort, service, overlap>>
  BY <1>1 DEF TypesNow, Typed, ReplyClose
<1>5. TypesNow' /\ Local(t)
  BY <1>1, <1>2, <1>3, <1>4
  DEF TypesNow, Typed, Local, Same, SameService, RowIs, ReplyIs, Recorded
<1>6. StartInv(t)'
  BY <1>1, <1>2, <1>3, <1>4
  DEF TurnInv, StartInv, Followed, Pending, RowIs, ReplyIs, Recorded
<1>7. MirrorInv(t)' /\ TicketInv(t)'
  BY <1>1, <1>2, <1>3, <1>4
  DEF TurnInv, MirrorInv, TicketInv, Pending, RowIs, ReplyIs, Continuing, Recorded
<1>8. AbortInv(t)' /\ OwnInv(t)'
  BY <1>1, <1>2, <1>3, <1>4
  DEF TurnInv, AbortInv, OwnInv, RowIs, ReplyIs, Active, Continuing, Recorded
<1>9. RestInv(t)'
  BY <1>2 DEF RestInv, Undisturbed, ReplyIs
<1> QED
  BY <1>1, <1>5, <1>6, <1>7, <1>8, <1>9, OneTurn DEF TurnInv

\* The mark makes only a waiting turn active, and for a regular one the run is
\* paused or an abort has still to write.
LEMMA ReplyMarkStep ==
  ASSUME IInv, NEW t \in Turns, ReplyMark(t)
  PROVE  IInv'
<1>1. TypesNow /\ TurnInv(t)
  BY Types DEF IInv
<1>2. ReplyIs(t, "mark", "message")
  BY <1>1, ReplyMoved DEF TypesNow, Typed, ReplyMark, Replies
<1>3. \/ /\ turn[t].st = "approval_required"
         /\ RowIs(t, "running", turn[t].jobID, turn[t].ref, turn[t].req)
      \/ RowIs(t, turn[t].st, turn[t].jobID, turn[t].ref, turn[t].req)
  <2>1. turn \in [Turns -> TurnRecs] /\ "running" \in TurnStatuses
    BY <1>1 DEF TypesNow, Typed, TurnStatuses, Active
  <2>2. turn' = turn =>
          RowIs(t, turn[t].st, turn[t].jobID, turn[t].ref, turn[t].req)
    BY <2>1 DEF RowIs
  <2> QED
    BY <2>1, <2>2, RowWritten DEF ReplyMark
<1>4. /\ leg[t] \in Legs
      /\ UNCHANGED <<msg, job, start, mirror, leg, abort, service, overlap,
                     lost>>
      /\ Recorded(t)
  BY <1>1, FaultRecorded DEF TypesNow, Typed, ReplyMark
<1>5. TypesNow' /\ Local(t)
  BY <1>1, <1>2, <1>3, <1>4
  DEF TypesNow, Typed, Local, Same, SameService, RowIs, ReplyIs, Recorded
<1>6. StartInv(t)'
  BY <1>1, <1>2, <1>3, <1>4
  DEF TurnInv, StartInv, Followed, Pending, RowIs, ReplyIs, Recorded
<1>7. MirrorInv(t)' /\ TicketInv(t)'
  BY <1>1, <1>2, <1>3, <1>4
  DEF TurnInv, MirrorInv, TicketInv, Pending, RowIs, ReplyIs, Continuing
<1>8. AbortInv(t)'
  BY <1>1, <1>2, <1>3, <1>4
  DEF TurnInv, AbortInv, Followed, RowIs, ReplyIs, Active, Continuing
<1>9. OwnInv(t)'
  BY <1>1, <1>2, <1>3, <1>4
  DEF TurnInv, OwnInv, Followed, RowIs, ReplyIs, Active, Continuing
<1>10. RestInv(t)'
  BY <1>1, <1>2, <1>3, <1>4
  DEF TurnInv, StartInv, RestInv, Undisturbed, RowIs, ReplyIs, Continuing, Outcome,
      Recorded
<1> QED
  BY <1>1, <1>5, <1>6, <1>7, <1>8, <1>9, <1>10, OneTurn DEF TurnInv

\* The message of a regular turn is not written by a mirror meanwhile.
LEMMA ReplyMessageStep ==
  ASSUME IInv, NEW t \in Turns, ReplyMessage(t)
  PROVE  IInv'
<1>1. TypesNow /\ TurnInv(t)
  BY Types DEF IInv
<1>2. ReplyIs(t, "message", "resume")
  BY <1>1, ReplyMoved DEF TypesNow, Typed, ReplyMessage, Replies
<1>3. /\ msg' \in [Turns -> TurnStatuses]
      /\ \A u \in Turns : u # t => msg'[u] = msg[u]
      /\ leg[t] \in Legs
      /\ UNCHANGED <<turn, job, start, mirror, leg, abort, service, overlap,
                     lost>>
      /\ Recorded(t)
  BY <1>1, FaultRecorded DEF TypesNow, Typed, ReplyMessage, TurnStatuses, Active
<1>4. TypesNow' /\ Local(t)
  BY <1>1, <1>2, <1>3
  DEF TypesNow, Typed, Local, Same, SameService, ReplyIs, Recorded
<1>5. StartInv(t)'
  BY <1>1, <1>2, <1>3
  DEF TurnInv, StartInv, Followed, Pending, ReplyIs, Recorded
<1>6. MirrorInv(t)' /\ TicketInv(t)'
  BY <1>1, <1>2, <1>3
  DEF TurnInv, MirrorInv, TicketInv, Pending, ReplyIs, Continuing
<1>7. AbortInv(t)' /\ OwnInv(t)'
  BY <1>1, <1>2, <1>3 DEF TurnInv, AbortInv, OwnInv, Followed, ReplyIs, Continuing
<1>8. RestInv(t)'
  BY <1>1, <1>2, <1>3
  DEF TurnInv, AbortInv, RestInv, Undisturbed, Followed, ReplyIs, Continuing,
      Recorded
<1> QED
  BY <1>1, <1>4, <1>5, <1>6, <1>7, <1>8, OneTurn DEF TurnInv

\* A continuation is skipped only when nothing is left to continue.
LEMMA ReplyResumeStep ==
  ASSUME IInv, NEW t \in Turns, ReplyResume(t)
  PROVE  IInv'
<1>1. TypesNow /\ TurnInv(t)
  BY Types DEF IInv
<1>2. \/ ReplyIs(t, "resume", "reopen") /\ UNCHANGED <<lost, count>>
      \/ /\ ReplyIs(t, "resume", "idle") /\ UNCHANGED <<lost, count>>
         /\ job[t].st \notin OpenJobs \/ turn[t].jobID # TRUE
      \/ ReplyIs(t, "resume", "idle") /\ t \in lost' /\ count'.faults # 0
  BY <1>1, ReplyMoved, FaultRecorded DEF TypesNow, Typed, ReplyResume, Replies
<1>3. /\ leg[t] \in Legs /\ start[t] = "done"
      /\ UNCHANGED <<turn, msg, job, start, mirror, leg, abort, service,
                     overlap>>
      /\ Recorded(t)
  BY <1>1, FaultRecorded DEF TypesNow, Typed, ReplyResume, TurnInv, StartInv
<1>4. TypesNow' /\ Local(t)
  BY <1>1, <1>2, <1>3
  DEF TypesNow, Typed, Local, Same, SameService, ReplyIs, Recorded
<1>5. StartInv(t)'
  BY <1>1, <1>2, <1>3
  DEF TurnInv, StartInv, Followed, Pending, ReplyIs, Recorded
<1>6. MirrorInv(t)' /\ TicketInv(t)'
  BY <1>1, <1>2, <1>3
  DEF TurnInv, MirrorInv, TicketInv, Pending, ReplyIs, Continuing, OpenJobs, Recorded
<1>7. AbortInv(t)' /\ OwnInv(t)'
  BY <1>1, <1>2, <1>3
  DEF TurnInv, AbortInv, OwnInv, Followed, ReplyIs, Continuing, OpenJobs
<1>8. RestInv(t)'
  BY <1>1, <1>2, <1>3
  DEF TurnInv, RestInv, Undisturbed, ReplyIs, Continuing, OpenJobs, Outcome
<1> QED
  BY <1>1, <1>4, <1>5, <1>6, <1>7, <1>8, OneTurn DEF TurnInv

\* A job that has asked is reopened: a paused one, and even one that has ended.
JobReopens(t) ==
  /\ job' \in [Turns -> JobRecs] /\ \A u \in Turns : u # t => job'[u] = job[u]
  /\ job'[t].asked = "no" /\ job'[t].tracked = job[t].tracked
  /\ job[t].st = "approval_required" => job'[t].st = "reopened"
  /\ job[t].st \in FinishedJobs => job'[t].st = "revived"
  /\ job[t].st = "asking" => job'[t].st = "asking"

\* What Reopen does to a job that the registry tracks.
LEMMA JobReopened ==
  ASSUME job \in [Turns -> JobRecs], NEW t \in Turns, job[t].tracked = TRUE,
         job[t].st \in Asked,
         job' = [job EXCEPT ![t].asked = "no", ![t].st = Reopened(job[t])]
  PROVE  JobReopens(t)
<1> DEFINE st == Reopened(job[t])
           n == [job[t] EXCEPT !.asked = "no", !.st = st]
<1>1. job[t] \in JobRecs
  OBVIOUS
<1>2. /\ st \in JobStatuses
      /\ job[t].st = "approval_required" => st = "reopened"
      /\ job[t].st \in FinishedJobs => st = "revived"
      /\ job[t].st = "asking" => st = "asking"
  BY <1>1 DEF Reopened, JobRecs, JobStatuses, OpenJobs, FinishedJobs
<1> HIDE DEF st
<1>3. job' = [job EXCEPT ![t] = n]
  BY <1>1 DEF JobRecs, st
<1>4. /\ n \in JobRecs /\ n.asked = "no" /\ n.tracked = job[t].tracked
      /\ n.st = st
  BY <1>1, <1>2 DEF JobRecs, Asks
<1> HIDE DEF n
<1> QED
  BY <1>1, <1>2, <1>3, <1>4 DEF JobReopens

\* A continuation uses the request up and starts the next leg.
LEMMA ReplyReopenGoes ==
  ASSUME IInv, NEW t \in Turns, ReplyReopen(t),
         leg' = [leg EXCEPT ![t] = @ + 1],
         mirror' = [mirror EXCEPT ![<<t, leg[t] + 1>>].pc = "subscribe"],
         reply' = [reply EXCEPT ![t] = "continue"], UNCHANGED <<lost, count>>
  PROVE  IInv'
<1>1. TypesNow /\ TurnInv(t)
  BY Types DEF IInv
<1>2. /\ ReplyIs(t, "reopen", "continue")
      /\ UNCHANGED <<turn, msg, start, abort, service, overlap, lost, count>>
  BY <1>1, ReplyMoved DEF TypesNow, Typed, ReplyReopen, Replies
<1> DEFINE l == leg[t] + 1
<1>3. /\ job[t].tracked = TRUE /\ job[t].st \in Asked /\ leg[t] < MaxResumes
      /\ ~Pending(t) /\ mirror[<<t, leg[t]>>].pc # "subscribe" /\ start[t] = "done"
      /\ \A k \in Legs : mirror[<<t, k>>].todo # "native"
  BY <1>1, <1>2 DEF TurnInv, StartInv, TicketInv, ReplyIs, Continuing
<1>4. /\ leg[t] \in Legs /\ l \in Legs /\ l > leg[t] /\ l # leg[t]
      /\ \A k \in Legs : k > l => k > leg[t]
      /\ leg' \in [Turns -> Legs] /\ leg'[t] = l
      /\ \A u \in Turns : u # t => leg'[u] = leg[u]
  BY <1>1, <1>3, BoundsAreNat DEF TypesNow, Typed, ReplyReopen, Legs
<1>5. MirrorIs(t, l, "subscribe", mirror[<<t, l>>].seen, mirror[<<t, l>>].closed,
               mirror[<<t, l>>].todo, mirror[<<t, l>>].perm)
  BY <1>1, <1>4, MirrorMoved DEF TypesNow, Typed, ReplyReopen, MirrorPCs
<1>6. JobReopens(t)
  BY <1>1, <1>3, JobReopened DEF TypesNow, Typed, ReplyReopen
<1>7. TypesNow' /\ Local(t)
  BY <1>1, <1>2, <1>4, <1>5, <1>6
  DEF TypesNow, Typed, Local, Same, SameService, ReplyIs, MirrorIs, JobReopens
<1>8. StartInv(t)'
  BY <1>1, <1>2, <1>3, <1>6 DEF TurnInv, StartInv, ReplyIs, JobReopens
<1>9. MirrorInv(t)'
  <2>1. job[t].st \in {"asking", "approval_required"} \cup FinishedJobs
    BY <1>3 DEF Asked
  <2>2. \A k \in Legs : mirror[<<t, k>>].pc # "subscribe"
    BY <1>1, <1>3 DEF TurnInv, MirrorInv
  <2>3. mirror[<<t, l>>].pc = "off"
    BY <1>1, <1>4 DEF TurnInv, MirrorInv
  <2>4. /\ ~IsTerminal(job'[t].st)
        /\ IsTerminal(job[t].st) \/ (job[t].st = "asking" /\ job'[t].st = "asking")
    BY <1>6, <2>1 DEF IsTerminal, FinishedJobs, JobReopens
  <2>5. /\ \A k \in Legs : k # l => mirror'[<<t, k>>] = mirror[<<t, k>>]
        /\ mirror'[<<t, l>>].pc = "subscribe" /\ mirror'[<<t, l>>].todo = "no"
        /\ mirror'[<<t, l>>].perm = FALSE
    BY <1>1, <1>4, <1>5, <2>3 DEF TurnInv, MirrorInv, MirrorIs
  <2>6. /\ leg'[t] = l /\ l \in Legs /\ l \in Nat
        /\ \A k \in Legs : k > l => k > leg[t] /\ k # l
    BY <1>4, BoundsAreNat DEF Legs
  <2> HIDE DEF l
  <2>7. ASSUME NEW k \in Legs, k # l
        PROVE  LET m == mirror[<<t, k>>] IN
               /\ m.pc \in {"off", "subscribe"} => m.todo = "no" /\ m.perm = FALSE
               /\ m.todo # "no" => m.pc = "drain"
               /\ k > l => m.pc = "off"
               /\ m.pc # "subscribe"
               /\ m.pc = "drain" /\ m.closed = FALSE => job'[t].st = "asking"
    BY <1>1, <2>2, <2>4, <2>6, <2>7 DEF TurnInv, MirrorInv
  <2>8. SUFFICES ASSUME NEW k \in Legs
                 PROVE  LET m == mirror'[<<t, k>>] IN
                        /\ m.pc \in {"off", "subscribe"} => m.todo = "no" /\ m.perm = FALSE
                        /\ m.todo # "no" => m.pc = "drain"
                        /\ k > l => m.pc = "off"
                        /\ m.pc = "subscribe" => k = l
                        /\ m.pc = "drain" /\ m.closed = FALSE /\ k # l =>
                             job'[t].st = "asking"
    BY <2>4, <2>6 DEF MirrorInv
  <2>9. CASE k = l
    BY <2>5, <2>6, <2>9
  <2>10. CASE k # l
    BY <2>5, <2>7, <2>10
  <2> QED
    BY <2>9, <2>10
<1>10. TicketInv(t)'
  <2>1. mirror[<<t, l>>].pc = "off" /\ mirror[<<t, l>>].todo = "no"
    BY <1>1, <1>4 DEF TurnInv, MirrorInv
  <2>2. \A k \in Legs : mirror'[<<t, k>>].todo # "native"
    <3>1. /\ \A k \in Legs : k # l => mirror'[<<t, k>>] = mirror[<<t, k>>]
          /\ mirror'[<<t, l>>].todo = "no"
      BY <1>5, <2>1 DEF MirrorIs
    <3> HIDE DEF l
    <3> QED
      BY <1>3, <3>1
  <2>3. /\ ~Pending(t)' /\ reply'[t] = "continue" /\ job'[t].asked = "no"
        /\ job'[t].st # "active"
    BY <1>2, <1>3, <1>6 DEF Pending, ReplyIs, Asked, JobReopens
  <2> QED
    BY <2>2, <2>3 DEF TicketInv, Continuing
<1>11. AbortInv(t)' /\ OwnInv(t)'
  <2>1. AbortInv(t)'
    <3>1. /\ reply[t] \in Continuing /\ reply[t] = "reopen" /\ reply'[t] = "continue"
      BY <1>2 DEF ReplyIs, Continuing
    <3>2. job[t].st \notin OpenJobs => job'[t].st \notin OpenJobs
      BY <1>3, <1>6 DEF Asked, OpenJobs, FinishedJobs, JobReopens
    <3>3. t \notin overlap => \A k \in Legs : mirror[<<t, k>>].pc = "off"
      BY <1>1, <3>1 DEF TurnInv, AbortInv, Followed
    <3>4. \A k \in Legs : k # l => mirror'[<<t, k>>] = mirror[<<t, k>>]
      BY <1>5 DEF MirrorIs
    <3>5. leg'[t] = l
      BY <1>4
    <3> HIDE DEF l
    <3> QED
      BY <1>1, <1>2, <3>1, <3>2, <3>3, <3>4, <3>5 DEF TurnInv, AbortInv, Continuing
  <2>2. OwnInv(t)'
    BY <1>1, <1>2, <1>3, <1>4, <1>5, <1>6
    DEF TurnInv, OwnInv, Followed, ReplyIs, MirrorIs, Continuing, Asked,
        FinishedJobs, JobReopens
  <2> QED
    BY <2>1, <2>2
<1>12. RestInv(t)'
  <2>1. mirror[<<t, l>>].pc = "off" /\ mirror[<<t, l>>].perm = FALSE
    BY <1>1, <1>4 DEF TurnInv, MirrorInv
  <2> QED
    BY <1>1, <1>2, <1>3, <1>4, <1>5, <1>6, <2>1
    DEF TurnInv, RestInv, Undisturbed, ReplyIs, MirrorIs, Continuing, JobReopens
<1> QED
  BY <1>1, <1>7, <1>8, <1>9, <1>10, <1>11, <1>12, OneTurn DEF TurnInv

\* A continuation that cannot read turn or session leaves the job reopened, and
\* the turn is lost.
LEMMA ReplyReopenFails ==
  ASSUME IInv, NEW t \in Turns, ReplyReopen(t), Lose(t),
         reply' = [reply EXCEPT ![t] = "idle"], UNCHANGED <<leg, mirror>>
  PROVE  IInv'
<1>1. TypesNow /\ TurnInv(t)
  BY Types DEF IInv
<1>2. /\ ReplyIs(t, "reopen", "idle") /\ leg[t] \in Legs
      /\ UNCHANGED <<turn, msg, start, mirror, leg, abort, service, overlap>>
      /\ Recorded(t) /\ t \in lost' /\ count'.faults # 0
  BY <1>1, ReplyMoved, FaultRecorded DEF TypesNow, Typed, ReplyReopen, Replies
<1>3. /\ job[t].tracked = TRUE /\ job[t].st \in Asked /\ ~Pending(t)
      /\ start[t] = "done" /\ \A k \in Legs : mirror[<<t, k>>].todo # "native"
  BY <1>1, <1>2 DEF TurnInv, StartInv, TicketInv, ReplyIs, Continuing
<1>4. JobReopens(t)
  BY <1>1, <1>3, JobReopened DEF TypesNow, Typed, ReplyReopen
<1>5. TypesNow' /\ Local(t)
  BY <1>1, <1>2, <1>4
  DEF TypesNow, Typed, Local, Same, SameService, ReplyIs, Recorded, JobReopens
<1>6. StartInv(t)'
  BY <1>1, <1>2, <1>3, <1>4
  DEF TurnInv, StartInv, Followed, Pending, ReplyIs, JobReopens
<1>7. MirrorInv(t)'
  BY <1>1, <1>2, <1>3, <1>4
  DEF TurnInv, MirrorInv, JobReopens, IsTerminal, FinishedJobs, Asked
<1>8. TicketInv(t)'
  BY <1>1, <1>2, <1>3, <1>4
  DEF TurnInv, TicketInv, Pending, Continuing, ReplyIs, JobReopens
<1>9. AbortInv(t)' /\ OwnInv(t)'
  BY <1>1, <1>2, <1>3, <1>4
  DEF TurnInv, AbortInv, OwnInv, Continuing, ReplyIs, JobReopens, Asked, OpenJobs,
      FinishedJobs
<1>10. RestInv(t)'
  BY <1>2 DEF RestInv, Undisturbed
<1> QED
  BY <1>1, <1>5, <1>6, <1>7, <1>8, <1>9, <1>10, OneTurn DEF TurnInv

\* Either way the invariant is kept.
LEMMA ReplyReopenStep ==
  ASSUME IInv, NEW t \in Turns, ReplyReopen(t)
  PROVE  IInv'
  BY ReplyReopenGoes, ReplyReopenFails DEF ReplyReopen

\* The run goes on, or is aborted.
LEMMA ReplyContinueStep ==
  ASSUME IInv, NEW t \in Turns, ReplyContinue(t)
  PROVE  IInv'
<1>1. TypesNow /\ TurnInv(t)
  BY Types DEF IInv
<1>2. /\ ReplyIs(t, "continue", "idle") /\ leg[t] \in Legs /\ start[t] = "done"
      /\ UNCHANGED <<turn, msg, start, leg, abort, service, overlap>>
      /\ Recorded(t)
  BY <1>1, ReplyMoved, FaultRecorded
  DEF TypesNow, Typed, ReplyContinue, Replies, TurnInv, StartInv
<1>3. job[t].asked \in Asks /\ {"active", "aborted"} \subseteq JobStatuses
  BY <1>1 DEF TypesNow, Typed, JobRecs, JobStatuses, OpenJobs, FinishedJobs
<1>4. \/ /\ job[t].st \in {"reopened", "approval_required"}
         /\ JobIs(t, "active", job[t].asked)
      \/ job[t].st \in OpenJobs /\ JobIs(t, "aborted", job[t].asked)
      \/ /\ job[t].st \notin OpenJobs \/ (t \in lost' /\ count'.faults # 0)
         /\ job' = job /\ mirror' = mirror
  BY <1>1, <1>3, JobWritten, JobAborted, FaultRecorded
  DEF TypesNow, Typed, ReplyContinue
<1>5. TypesNow' /\ Local(t)
  BY <1>1, <1>2, <1>4
  DEF TypesNow, Typed, Local, Same, SameService, JobIs, ReplyIs, Recorded
<1>6. StartInv(t)'
  BY <1>1, <1>2, <1>4 DEF TurnInv, StartInv, Followed, JobIs, ReplyIs, Recorded
<1>7. MirrorInv(t)'
  BY <1>1, <1>2, <1>4 DEF TurnInv, MirrorInv, JobIs, IsTerminal, FinishedJobs
<1>8. TicketInv(t)'
  BY <1>1, <1>2, <1>4
  DEF TurnInv, TicketInv, Pending, JobIs, ReplyIs, Continuing, Asked, OpenJobs,
      FinishedJobs, Recorded
<1>9. AbortInv(t)' /\ OwnInv(t)'
  BY <1>1, <1>2, <1>4
  DEF TurnInv, AbortInv, OwnInv, Followed, JobIs, OpenJobs, ReplyIs, Continuing,
      Recorded
<1>10. RestInv(t)'
  BY <1>1, <1>2, <1>4
  DEF TurnInv, RestInv, Undisturbed, JobIs, ReplyIs, Continuing, IsTerminal,
      FinishedJobs, OpenJobs, Outcome, Recorded
<1> QED
  BY <1>1, <1>5, <1>6, <1>7, <1>8, <1>9, <1>10, OneTurn DEF TurnInv

-----------------------------------------------------------------------------
(* Crash, restart and the initial state.                                     *)

\* A crash ends every goroutine and leaves the rows.
LEMMA CrashStep ==
  ASSUME IInv, Crash
  PROVE  IInv'
<1>1. TypesNow /\ \A t \in Turns : TurnInv(t)
  BY Types DEF IInv
<1>2. /\ count' \in Counts /\ count'.faults # 0 /\ service' = "down"
      /\ UNCHANGED <<turn, msg, leg, overlap, lost>>
  BY <1>1, FaultCounted DEF Crash, TypesNow, Typed
<1>3. IdleMirror \in MirrorRecs
  BY DEF IdleMirror, MirrorRecs, JobStatuses, Asks
<1>4. /\ mirror' \in [Mirrors -> MirrorRecs] /\ job' \in [Turns -> JobRecs]
      /\ start' \in [Turns -> Starts] /\ reply' \in [Turns -> Replies]
      /\ abort' \in [Turns -> AbortRecs]
  <2>1. mirror' \in [Mirrors -> MirrorRecs]
    BY <1>3 DEF Crash
  <2>2. job' \in [Turns -> JobRecs]
    BY <1>1 DEF Crash, TypesNow, Typed, JobRecs
  <2>3. start' \in [Turns -> Starts] /\ reply' \in [Turns -> Replies]
    BY DEF Crash, Starts, Replies
  <2>4. abort' \in [Turns -> AbortRecs]
    BY <1>1 DEF Crash, TypesNow, Typed, AbortRecs
  <2> QED
    BY <2>1, <2>2, <2>3, <2>4
<1>5. TypeOK'
  BY <1>1, <1>2, <1>4, TypesNext DEF TypesNow, Typed
<1>6. ASSUME NEW t \in Turns
      PROVE  TurnInv(t)'
  <2>1. /\ TurnInv(t) /\ leg[t] \in Legs /\ leg'[t] = leg[t]
        /\ start'[t] = IF start[t] = "idle" THEN "idle" ELSE "done"
        /\ reply'[t] = "idle"
    BY <1>1, <1>2 DEF Crash, TypesNow, Typed
  <2>2. abort'[t].pc = "idle" /\ abort'[t].jobID = abort[t].jobID
    BY <1>1 DEF Crash, TypesNow, Typed, AbortRecs
  <2>3. job'[t].st = job[t].st /\ job'[t].asked = job[t].asked
    BY <1>1 DEF Crash, TypesNow, Typed, JobRecs
  <2>4. \A k \in Legs : /\ mirror'[<<t, k>>].pc = "off"
                        /\ mirror'[<<t, k>>].todo = "no"
                        /\ mirror'[<<t, k>>].perm = FALSE
    BY DEF Crash, Mirrors, IdleMirror
  <2>5. StartInv(t)'
    BY <1>2, <2>1, <2>2, <2>3, <2>4 DEF TurnInv, StartInv, Followed, Pending
  <2>6. MirrorInv(t)'
    BY <2>4 DEF MirrorInv
  <2>7. TicketInv(t)'
    BY <1>2, <2>1, <2>3, <2>4 DEF TurnInv, TicketInv, Pending, Continuing
  <2>8. AbortInv(t)' /\ OwnInv(t)'
    BY <1>2, <2>1, <2>2, <2>4 DEF AbortInv, OwnInv, Continuing
  <2>9. RestInv(t)'
    BY <1>2 DEF RestInv, Undisturbed
  <2> QED
    BY <2>5, <2>6, <2>7, <2>8, <2>9 DEF TurnInv
<1> QED
  BY <1>5, <1>6 DEF IInv

\* After a restart no turn is active and no run is open.
LEMMA ReconcileStep ==
  ASSUME IInv, ReconcileOnStartup
  PROVE  IInv'
<1>1. TypesNow /\ \A t \in Turns : TurnInv(t)
  BY Types DEF IInv
<1>2. /\ service = "down" /\ service' = "up"
      /\ UNCHANGED <<msg, start, mirror, leg, abort, reply, count, overlap,
                     lost>>
  BY DEF ReconcileOnStartup
<1>3. ASSUME NEW t \in Turns
      PROVE  /\ turn'[t] \in TurnRecs
             /\ turn'[t].jobID = turn[t].jobID /\ turn'[t].ref = turn[t].ref
             /\ turn'[t].req = turn[t].req
             /\ turn'[t].st \notin Active \cup {"approval_required"}
  <2> DEFINE st == IF turn[t].st \in Active \cup {"approval_required"}
                   THEN "aborted" ELSE turn[t].st
  <2>1. turn[t] \in TurnRecs /\ turn'[t] = [turn[t] EXCEPT !.st = st]
    BY <1>1 DEF ReconcileOnStartup, TypesNow, Typed
  <2>2. st \in TurnStatuses /\ st \notin Active \cup {"approval_required"}
    BY <2>1 DEF TurnRecs, TurnStatuses, Active, Ended
  <2> HIDE DEF st
  <2> QED
    BY <2>1, <2>2 DEF TurnRecs
<1>4. ASSUME NEW t \in Turns
      PROVE  /\ job'[t] \in JobRecs
             /\ job'[t].tracked = job[t].tracked /\ job'[t].asked = job[t].asked
             /\ job'[t].st = IF job[t].st \in OpenJobs THEN "aborted" ELSE job[t].st
  <2> DEFINE st == IF job[t].st \in OpenJobs THEN "aborted" ELSE job[t].st
  <2>1. job[t] \in JobRecs /\ job'[t] = [job[t] EXCEPT !.st = st]
    BY <1>1 DEF ReconcileOnStartup, TypesNow, Typed
  <2>2. st \in JobStatuses
    BY <2>1 DEF JobRecs, JobStatuses, FinishedJobs
  <2>3. /\ job'[t] \in JobRecs /\ job'[t].st = st
        /\ job'[t].tracked = job[t].tracked /\ job'[t].asked = job[t].asked
    <3> HIDE DEF st
    <3> QED
      BY <2>1, <2>2 DEF JobRecs
  <2> QED
    BY <2>3
<1>5. TypeOK'
  <2>1. turn' \in [Turns -> TurnRecs] /\ job' \in [Turns -> JobRecs]
    BY <1>3, <1>4 DEF ReconcileOnStartup
  <2> QED
    BY <1>1, <1>2, <2>1, TypesNext DEF TypesNow, Typed
<1>6. ASSUME NEW t \in Turns
      PROVE  TurnInv(t)'
  <2>1. /\ TurnInv(t) /\ leg[t] \in Legs /\ count.faults # 0
        /\ reply[t] = "idle" /\ abort[t].pc = "idle"
        /\ \A k \in Legs : mirror[<<t, k>>].pc = "off"
    <3>1. TurnInv(t) /\ leg[t] \in Legs
      BY <1>1 DEF TypesNow, Typed
    <3>2. ~Followed(t) /\ count.faults # 0
            /\ reply[t] = "idle" /\ abort[t].pc = "idle"
      BY <1>2, <3>1 DEF TurnInv, StartInv
    <3> QED
      BY <3>1, <3>2 DEF Followed
  <2>2. StartInv(t)'
    BY <1>2, <1>3, <1>4, <2>1 DEF TurnInv, StartInv, Followed, Pending, OpenJobs
  <2>3. MirrorInv(t)'
    BY <1>2, <2>1 DEF TurnInv, MirrorInv
  <2>4. TicketInv(t)'
    BY <1>2, <1>3, <1>4, <2>1
    DEF TurnInv, TicketInv, Pending, Continuing, Asked, OpenJobs, FinishedJobs
  <2>5. AbortInv(t)' /\ OwnInv(t)'
    BY <1>2, <1>3, <2>1 DEF TurnInv, AbortInv, OwnInv, Continuing
  <2>6. RestInv(t)'
    BY <1>2, <2>1 DEF RestInv, Undisturbed
  <2> QED
    BY <2>2, <2>3, <2>4, <2>5, <2>6 DEF TurnInv
<1> QED
  BY <1>5, <1>6 DEF IInv

\* The invariant holds in the initial state.
LEMMA InitHolds == Init => IInv
<1> SUFFICES ASSUME Init PROVE IInv
  OBVIOUS
<1>1. IdleMirror \in MirrorRecs /\ 0 \in Legs
  BY BoundsAreNat DEF IdleMirror, MirrorRecs, JobStatuses, Asks, Legs
<1>2. mirror \in [Mirrors -> MirrorRecs]
  BY <1>1 DEF Init
<1>3. TypesNow
  <2>1. /\ turn \in [Turns -> TurnRecs] /\ msg \in [Turns -> TurnStatuses]
        /\ job \in [Turns -> JobRecs] /\ abort \in [Turns -> AbortRecs]
    BY DEF Init, TurnRecs, TurnStatuses, JobRecs, JobStatuses, Asks, AbortRecs
  <2>2. /\ start \in [Turns -> Starts] /\ leg \in [Turns -> Legs]
        /\ reply \in [Turns -> Replies] /\ count \in Counts
        /\ service \in {"up", "down"} /\ overlap \in SUBSET Turns
        /\ lost \in SUBSET Turns
    BY <1>1 DEF Init, Starts, Replies, Counts
  <2> QED
    BY <1>2, <2>1, <2>2 DEF TypesNow, Typed
<1>4. ASSUME NEW t \in Turns
      PROVE  TurnInv(t)
  <2>1. /\ turn[t].st = "none" /\ turn[t].jobID = FALSE /\ turn[t].ref = "none"
        /\ job[t].st = "none" /\ job[t].asked = "no" /\ start[t] = "idle"
        /\ leg[t] = 0 /\ reply[t] = "idle" /\ service = "up"
        /\ abort[t].pc = "idle" /\ abort[t].jobID = FALSE
    BY DEF Init
  <2>2. \A k \in Legs : /\ mirror[<<t, k>>].pc = "off"
                        /\ mirror[<<t, k>>].todo = "no"
                        /\ mirror[<<t, k>>].perm = FALSE
    BY DEF Init, Mirrors, IdleMirror
  <2>3. StartInv(t) /\ MirrorInv(t)
    BY <2>1, <2>2 DEF StartInv, MirrorInv, Followed, Pending
  <2>4. TicketInv(t) /\ AbortInv(t) /\ OwnInv(t)
    BY <2>1, <2>2 DEF TicketInv, AbortInv, OwnInv, Pending, Continuing
  <2>5. RestInv(t)
    BY <1>1, <2>1, <2>2 DEF RestInv, Continuing
  <2> QED
    BY <2>3, <2>4, <2>5 DEF TurnInv
<1> QED
  BY <1>3, <1>4, Types DEF IInv

-----------------------------------------------------------------------------
(* The theorems.                                                             *)

\* Every step of the session keeps the invariant.
LEMMA StepKeeps == IInv /\ [Next]_vars => IInv'
<1> SUFFICES ASSUME IInv, [Next]_vars PROVE IInv'
  OBVIOUS
<1>1. ASSUME NEW t \in Turns, CreateTurn(t) \/ StartStep(t)
      PROVE  IInv'
  BY <1>1, CreateTurnStep, PersistUserMessageStep, EnqueueRunStep, MarkStartedStep,
     PersistPlaceholderStep, GiveUpStep DEF StartStep
<1>2. ASSUME NEW t \in Turns, JobAsks(t) \/ JobPauses(t) \/ JobEnds(t)
      PROVE  IInv'
  BY <1>2, JobAsksStep, JobPausesStep, JobEndsStep
<1>3. ASSUME NEW t \in Turns, AbortRead(t) \/ AbortStep(t)
      PROVE  IInv'
  BY <1>3, AbortReadStep, AbortCancelStep, AbortFinalizeStep DEF AbortStep
<1>4. ASSUME NEW t \in Turns, ReplyRead(t) \/ ReplyStep(t)
      PROVE  IInv'
  BY <1>4, ReplyReadStep, ReplyBrokerStep, ReplyRefuseStep, ReplyRespondStep,
     ReplyCloseStep, ReplyMarkStep, ReplyMessageStep, ReplyResumeStep,
     ReplyReopenStep, ReplyContinueStep DEF ReplyStep
<1>5. ASSUME NEW m \in Mirrors, MirrorStep(m)
      PROVE  IInv'
  <2>1. PICK t \in Turns, k \in Legs : m = <<t, k>>
    BY DEF Mirrors
  <2> QED
    BY <1>5, <2>1, MirrorSubscribeStep, MirrorPersistStep, MirrorSnapshotStep,
       MirrorMessageStep, MirrorFinalizeStep DEF MirrorStep
<1>6. CASE UNCHANGED vars
  <2>1. TypeOK'
    BY <1>6 DEF IInv, TypeOK, vars
  <2>2. \A t \in Turns : TurnInv(t)'
    BY <1>6, Frame DEF IInv, vars, Same, SameService
  <2> QED
    BY <2>1, <2>2 DEF IInv
<1> QED
  BY <1>1, <1>2, <1>3, <1>4, <1>5, <1>6, CrashStep, ReconcileStep DEF Next

\* The inductive invariant holds in every state of a session.
THEOREM Invariant == Spec => []IInv
  BY InitHolds, StepKeeps, PTL DEF Spec

\* Rows, messages, jobs and goroutines have their types; a turn is continued at
\* most as often as its agent asked.
THEOREM TypeCorrect == Spec => []TypeOK
<1>1. IInv => TypeOK
  BY DEF IInv
<1> QED
  BY <1>1, Invariant, PTL

\* A regular turn that is active and names its run has a goroutine that will
\* write its status, unless its last writer's own call has failed.
THEOREM ActiveTurnsOwned == Spec => []TurnOwned
<1>1. IInv => TurnOwned
  <2> SUFFICES ASSUME IInv, service = "up", NEW t \in Turns,
                      t \notin overlap \cup lost, turn[t].st \in Active, turn[t].jobID
               PROVE  Owned(t)
    BY DEF TurnOwned, Regular
  <2>1. turn[t].jobID = TRUE
    BY Types DEF IInv, TypesNow, Typed, TurnRecs
  <2> QED
    BY <2>1 DEF IInv, TurnInv, OwnInv, Owned
<1> QED
  BY <1>1, Invariant, PTL

\* An AbortTurn that ended the run is final for a regular turn.
THEOREM AbortsAreFinal == Spec => []AbortIsFinal
<1>1. IInv => AbortIsFinal
  <2> SUFFICES ASSUME IInv, NEW t \in Turns, t \notin overlap,
                      abort[t].pc = "done", abort[t].jobID
               PROVE  turn[t].st \notin Active
    BY DEF AbortIsFinal, Regular
  <2>1. abort[t].jobID = TRUE
    BY Types DEF IInv, TypesNow, Typed, AbortRecs
  <2> QED
    BY <2>1 DEF IInv, TurnInv, AbortInv
<1> QED
  BY <1>1, Invariant, PTL

\* A regular turn at rest that no failure, abort or refusal has touched shows
\* what its run did, in the row and in the assistant's message.
THEOREM RestingTurnsAgree == Spec => []RestAgrees
<1>1. IInv => RestAgrees
  <2> SUFFICES ASSUME IInv, NEW t \in Turns, t \notin overlap,
                      start[t] = "done", count.faults = 0, ~Owned(t),
                      abort[t].pc = "idle", reply[t] = "idle"
               PROVE  /\ msg[t] = turn[t].st
                      /\ \/ turn[t].st = MapJobStatus(job[t].st)
                         \/ /\ turn[t].st = "approval_required"
                            /\ turn[t].req = "pending"
    BY DEF RestAgrees, Regular
  <2>1. leg[t] \in Legs
    BY Types DEF IInv, TypesNow, Typed
  <2>2. mirror[<<t, leg[t]>>].pc = "off"
    BY <2>1 DEF Owned, Followed
  <2> QED
    BY <2>2 DEF IInv, TurnInv, RestInv, Undisturbed
<1> QED
  BY <1>1, Invariant, PTL
=============================================================================
