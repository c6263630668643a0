-------------------------- MODULE CronServiceProofs --------------------------
(***************************************************************************)
(* Proofs about CronService, for every set of jobs and of threads and      *)
(* every bound.                                                            *)
(***************************************************************************)
EXTENDS CronService, TLAPS

\* A call of runJobByID that is under way is about a job.
ThreadInv == \A r \in Threads : thread[r].pc # "idle" => thread[r].job \in Jobs

IInv == TypeOK /\ ThreadInv /\ ArmedMatchesFile

ThreadRecs == [pc : {"idle", "load", "run", "ok", "error"},
               job : Jobs \cup {NoJob}, force : BOOLEAN]
Counts == [faults : Nat, edits : Nat, stops : Nat, cli : Nat]

\* What is armed, a, suits a job of the file, when the service is up, no save
\* failed so far (clean) and the time is t.
Suits(a, job, up, clean, t) ==
  /\ a.st \in {"entry", "timer"} => job.stored /\ job.enabled
  /\ /\ up /\ job.stored /\ job.enabled /\ clean
     /\ job.at = Every \/ job.at > t
     => a.st # "off"

-----------------------------------------------------------------------------
(* Helpers.                                                                  *)

\* armJobLocked arms what the file asks for.
LEMMA ArmingSuits ==
  ASSUME NEW job \in JobRecords, now \in Nat
  PROVE  /\ Arming(job) \in ArmedStates
         /\ Arming(job).st \in {"entry", "timer"} => job.enabled
         /\ job.enabled /\ (job.at = Every \/ job.at > now)
              => Arming(job).st # "off"
<1>1. job.at \in Schedules
  BY DEF JobRecords
<1>2. /\ Armed("entry", Every) \in ArmedStates /\ Off \in ArmedStates
      /\ Armed("timer", job.at) \in ArmedStates
  BY <1>1 DEF ArmedStates, Armed, Off, Schedules
<1>3. /\ Armed("entry", Every).st = "entry" /\ Off.st = "off"
      /\ Armed("timer", job.at).st = "timer"
  BY DEF Armed, Off
<1>4. CASE job.enabled /\ job.at = Every
  <2>1. Arming(job) = Armed("entry", Every)
    BY <1>4 DEF Arming, Every
  <2> QED
    BY <1>2, <1>3, <1>4, <2>1
<1>5. CASE job.enabled /\ job.at # Every /\ job.at > now
  <2>1. Arming(job) = Armed("timer", job.at)
    BY <1>5 DEF Arming
  <2> QED
    BY <1>2, <1>3, <1>5, <2>1
<1>6. CASE ~job.enabled \/ (job.at # Every /\ ~(job.at > now))
  <2>1. Arming(job) = Off
    BY <1>6 DEF Arming
  <2> QED
    BY <1>2, <1>3, <1>6, <2>1
<1> QED
  BY <1>4, <1>5, <1>6

\* The file of an empty service, and one with nothing armed.
LEMMA OffType == Off \in ArmedStates /\ Off.st = "off"
  BY DEF Off, Armed, ArmedStates, Schedules

\* Adding a job, and changing a field of one, leave the file well typed.
LEMMA Fields ==
  ASSUME NEW job \in JobRecords, NEW b \in BOOLEAN
  PROVE  /\ [job EXCEPT !.stored = b] \in JobRecords
         /\ [job EXCEPT !.stored = b].stored = b
         /\ [job EXCEPT !.stored = b].enabled = job.enabled
         /\ [job EXCEPT !.stored = b].at = job.at
         /\ [job EXCEPT !.enabled = b] \in JobRecords
         /\ [job EXCEPT !.enabled = b].stored = job.stored
  BY DEF JobRecords

\* The bounded counters stay natural numbers.
LEMMA CountType ==
  ASSUME count \in Counts
  PROVE  /\ StoreFails => /\ count' \in Counts /\ count'.cli = count.cli
                         /\ count'.faults = count.faults + 1
                         /\ count'.edits = count.edits
         /\ Edit => /\ count' \in Counts /\ count'.cli = count.cli
                    /\ count'.faults = count.faults
                    /\ count'.edits = count.edits + 1
  BY DEF Counts, StoreFails, Edit

\* ArmedMatchesFile says that what is armed suits every job.
LEMMA MatchesSuits ==
  ArmedMatchesFile <=>
    (count.cli = 0 =>
       \A j \in Jobs : Suits(armed[j], store[j], started, count.faults = 0, now))
  BY DEF ArmedMatchesFile, Suits, Stored

-----------------------------------------------------------------------------
(* Steps on one job.                                                         *)

\* A step that replaces what is stored and armed of one job.
LEMMA JobStep ==
  ASSUME IInv, NEW j \in Jobs, NEW job \in JobRecords, NEW a \in ArmedStates,
         store' = [store EXCEPT ![j] = job],
         armed' = [armed EXCEPT ![j] = a],
         UNCHANGED <<now, started>>,
         count' \in Counts,
         last' \in [Jobs -> {"none", "ok", "error"}],
         thread' = thread \/ thread' \in [Threads -> ThreadRecs],
         \A r \in Threads : thread'[r].pc # "idle" => thread'[r].job \in Jobs,
         count'.cli = 0 => count.cli = 0,
         count'.faults = 0 => count.faults = 0,
         count'.cli = 0 => Suits(a, job, started, count'.faults = 0, now)
  PROVE  IInv'
<1>1. /\ store \in [Jobs -> JobRecords] /\ armed \in [Jobs -> ArmedStates]
      /\ thread \in [Threads -> ThreadRecs]
  BY DEF IInv, TypeOK, ThreadRecs
<1>2. /\ store' \in [Jobs -> JobRecords] /\ armed' \in [Jobs -> ArmedStates]
      /\ store'[j] = job /\ armed'[j] = a
      /\ \A i \in Jobs \ {j} : store'[i] = store[i] /\ armed'[i] = armed[i]
  BY <1>1
<1>3. thread' \in [Threads -> ThreadRecs]
  BY <1>1
<1>4. TypeOK'
  BY <1>2, <1>3 DEF IInv, TypeOK, ThreadRecs, Counts
<1>5. ThreadInv'
  BY DEF ThreadInv
<1>6. ASSUME count'.cli = 0, NEW i \in Jobs
      PROVE  Suits(armed'[i], store'[i], started', count'.faults = 0, now')
  <2>1. CASE i = j
    BY <1>2, <1>6, <2>1
  <2>2. CASE i # j
    <3>1. Suits(armed[i], store[i], started, count.faults = 0, now)
      BY <1>6, MatchesSuits DEF IInv
    <3> QED
      BY <1>2, <2>2, <3>1 DEF Suits
  <2> QED
    BY <2>1, <2>2
<1>7. ArmedMatchesFile'
  BY <1>6 DEF ArmedMatchesFile, Suits, Stored
<1> QED
  BY <1>4, <1>5, <1>7 DEF IInv

\* Arming a job as saved: it suits the file whatever it is.
LEMMA ArmStep ==
  ASSUME IInv, NEW j \in Jobs, NEW job \in JobRecords, job.stored,
         store' = [store EXCEPT ![j] = job], ArmJob(j, job), Edit,
         last' \in [Jobs -> {"none", "ok", "error"}],
         UNCHANGED <<now, started, thread>>
  PROVE  IInv'
<1> DEFINE a == IF started THEN Arming(job) ELSE Off
<1>1. now \in Nat /\ count \in Counts /\ started \in BOOLEAN
  BY CronAssumption DEF IInv, TypeOK, Counts
<1>2. a \in ArmedStates
  BY <1>1, ArmingSuits, OffType
<1>3. Suits(a, job, started, count'.faults = 0, now)
  <2>1. CASE started
    BY <1>1, <2>1, ArmingSuits DEF Suits
  <2>2. CASE ~started
    BY <2>2, OffType DEF Suits
  <2> QED
    BY <2>1, <2>2
<1>4. armed' = [armed EXCEPT ![j] = a]
  BY DEF ArmJob
<1>5. /\ count' \in Counts /\ count'.cli = count.cli
      /\ count'.faults = count.faults
  BY <1>1, CountType
<1>6. \A r \in Threads : thread'[r].pc # "idle" => thread'[r].job \in Jobs
  BY DEF IInv, ThreadInv
<1> HIDE DEF a
<1> QED
  BY <1>2, <1>3, <1>4, <1>5, <1>6, JobStep

\* Unarming a job, with a save that fails or with one that deletes the job.
LEMMA UnarmStep ==
  ASSUME IInv, NEW j \in Jobs, NEW job \in JobRecords,
         UnarmJob(j), store' = [store EXCEPT ![j] = job],
         count' \in Counts,
         count'.cli = count.cli, count'.faults >= count.faults,
         job.stored => count'.faults > 0,
         last' \in [Jobs -> {"none", "ok", "error"}],
         thread' = thread \/ thread' \in [Threads -> ThreadRecs],
         \A r \in Threads : thread'[r].pc # "idle" => thread'[r].job \in Jobs,
         UNCHANGED <<now, started>>
  PROVE  IInv'
<1>1. count \in Counts
  BY DEF IInv, TypeOK, Counts
<1>2. armed' = [armed EXCEPT ![j] = Off]
  BY DEF UnarmJob
<1>3. count'.faults = 0 => count.faults = 0
  BY <1>1 DEF Counts
<1>4. Suits(Off, job, started, count'.faults = 0, now)
  <2>1. job.stored => count'.faults # 0
    BY DEF Counts
  <2> QED
    BY <2>1, OffType DEF Suits
<1> QED
  BY <1>2, <1>3, <1>4, OffType, JobStep

\* A save that fails leaves the file as it is and the job unarmed.
LEMMA FailStep ==
  ASSUME IInv, NEW j \in Jobs, UnarmJob(j), StoreFails,
         thread' = thread \/ thread' \in [Threads -> ThreadRecs],
         \A r \in Threads : thread'[r].pc # "idle" => thread'[r].job \in Jobs,
         UNCHANGED <<now, started, store, last>>
  PROVE  IInv'
<1>1. /\ count \in Counts /\ store \in [Jobs -> JobRecords]
      /\ last \in [Jobs -> {"none", "ok", "error"}]
  BY DEF IInv, TypeOK, Counts
<1>2. store[j] \in JobRecords /\ store' = [store EXCEPT ![j] = store[j]]
  BY <1>1
<1>3. /\ count' \in Counts /\ count'.cli = count.cli
      /\ count'.faults = count.faults + 1
  BY <1>1, CountType
<1>4. count'.faults >= count.faults /\ count'.faults > 0
  BY <1>1, <1>3 DEF Counts
<1> QED
  BY <1>1, <1>2, <1>3, <1>4, UnarmStep

\* Threads that are left alone stay typed and keep their jobs.
LEMMA ThreadsKept ==
  ASSUME IInv, UNCHANGED thread
  PROVE  \A r \in Threads : thread'[r].pc # "idle" => thread'[r].job \in Jobs
  BY DEF IInv, ThreadInv

\* Facts about the types that the steps below use.
LEMMA Types ==
  IInv => /\ now \in Nat /\ started \in BOOLEAN
          /\ store \in [Jobs -> JobRecords] /\ armed \in [Jobs -> ArmedStates]
          /\ thread \in [Threads -> ThreadRecs]
          /\ last \in [Jobs -> {"none", "ok", "error"}] /\ count \in Counts
  BY CronAssumption DEF IInv, TypeOK, ThreadRecs, Counts

\* Add.
LEMMA AddStep == ASSUME IInv, NEW j \in Jobs, Add(j) PROVE IInv'
<1>1. PICK job \in JobRecords :
        job.stored /\ store' = [store EXCEPT ![j] = job] /\ ArmJob(j, job)
  BY DEF Add
<1>2. last' \in [Jobs -> {"none", "ok", "error"}]
  BY Types DEF Add
<1> QED
  BY <1>1, <1>2, ArmStep DEF Add

\* A change of a stored job, whether its save fails or not.
LEMMA ReplaceStep ==
  ASSUME IInv, NEW j \in Jobs, NEW job \in JobRecords, job.stored,
         NEW status \in {"none", "ok", "error"}, Replace(j, job, status),
         UNCHANGED <<now, started, thread>>
  PROVE  IInv'
<1>1. CASE /\ store' = [store EXCEPT ![j] = job]
           /\ last' = [last EXCEPT ![j] = status]
           /\ ArmJob(j, job) /\ Edit
  <2>1. last' \in [Jobs -> {"none", "ok", "error"}]
    BY <1>1, Types
  <2> QED
    BY <1>1, <2>1, ArmStep
<1>2. CASE StoreFails /\ UnarmJob(j) /\ UNCHANGED <<store, last>>
  BY <1>2, ThreadsKept, FailStep
<1> QED
  BY <1>1, <1>2 DEF Replace

\* Update and SetEnabled.
LEMMA ChangeStep ==
  ASSUME IInv, NEW j \in Jobs, Update(j) \/ SetEnabled(j) PROVE IInv'
<1>1. CASE Update(j)
  <2>1. PICK job \in JobRecords : job.stored /\ Replace(j, job, "none")
    BY <1>1 DEF Update
  <2> QED
    BY <1>1, <2>1, ReplaceStep DEF Update
<1>2. CASE SetEnabled(j)
  <2>1. PICK e \in BOOLEAN : Replace(j, [store[j] EXCEPT !.enabled = e], last[j])
    BY <1>2 DEF SetEnabled
  <2>2. store[j] \in JobRecords /\ last[j] \in {"none", "ok", "error"}
    BY Types
  <2>3. /\ [store[j] EXCEPT !.enabled = e] \in JobRecords
        /\ [store[j] EXCEPT !.enabled = e].stored = store[j].stored
    BY <2>2, Fields
  <2>4. store[j].stored
    BY <1>2 DEF SetEnabled, Stored
  <2> DEFINE job == [store[j] EXCEPT !.enabled = e]
  <2>5. job \in JobRecords /\ job.stored /\ Replace(j, job, last[j])
    BY <2>1, <2>3, <2>4
  <2> HIDE DEF job
  <2> QED
    BY <1>2, <2>2, <2>5, ReplaceStep DEF SetEnabled
<1> QED
  BY <1>1, <1>2

\* Deleting a job from the file.
LEMMA Deleted ==
  ASSUME IInv, NEW j \in Jobs, store' = [store EXCEPT ![j].stored = FALSE]
  PROVE  /\ store' = [store EXCEPT ![j] = [store[j] EXCEPT !.stored = FALSE]]
         /\ [store[j] EXCEPT !.stored = FALSE] \in JobRecords
         /\ ~[store[j] EXCEPT !.stored = FALSE].stored
  BY Types, Fields

\* Remove.
LEMMA RemoveStep == ASSUME IInv, NEW j \in Jobs, Remove(j) PROVE IInv'
<1>1. CASE StoreFails /\ UNCHANGED store
  BY <1>1, ThreadsKept, FailStep DEF Remove
<1>2. CASE store' = [store EXCEPT ![j].stored = FALSE] /\ Edit
  <2> DEFINE job == [store[j] EXCEPT !.stored = FALSE]
  <2>1. store' = [store EXCEPT ![j] = job] /\ job \in JobRecords /\ ~job.stored
    BY <1>2, Deleted
  <2>2. /\ count' \in Counts /\ count'.cli = count.cli
        /\ count'.faults = count.faults
    BY <1>2, Types, CountType
  <2>3. count'.faults >= count.faults
    BY <2>2 DEF Counts
  <2>4. last' \in [Jobs -> {"none", "ok", "error"}]
    BY Types DEF Remove
  <2> HIDE DEF job
  <2> QED
    BY <2>1, <2>2, <2>3, <2>4, ThreadsKept, UnarmStep DEF Remove
<1> QED
  BY <1>1, <1>2 DEF Remove

\* An edit of the command line: nothing is said of what is armed after it.
LEMMA ElsewhereStep == ASSUME IInv, NEW j \in Jobs, EditElsewhere(j) PROVE IInv'
<1>1. count' = [count EXCEPT !.edits = @ + 1, !.cli = @ + 1]
  BY DEF EditElsewhere
<1>2. count' \in Counts /\ count'.cli # 0
  <2>1. count \in Counts
    BY Types
  <2>2. count' \in Counts
    <3> DEFINE mid == [count EXCEPT !.edits = count.edits + 1]
    <3>1. mid \in Counts /\ mid.cli = count.cli
      BY <2>1 DEF Counts
    <3>2. count' = [mid EXCEPT !.cli = mid.cli + 1]
      BY <1>1, <2>1, <3>1 DEF Counts
    <3> HIDE DEF mid
    <3> QED
      BY <3>1, <3>2 DEF Counts
  <2>3. count'.cli = count.cli + 1 /\ count.cli \in Nat
    BY <1>1, <2>1 DEF Counts
  <2>4. count'.cli # 0
    BY <2>3
  <2> QED
    BY <2>2, <2>4
<1>3. last' \in [Jobs -> {"none", "ok", "error"}]
  BY Types DEF EditElsewhere
<1>4. store' \in [Jobs -> JobRecords]
  <2>1. store \in [Jobs -> JobRecords] /\ store[j] \in JobRecords
    BY Types
  <2>2. CASE UNCHANGED store
    BY <2>1, <2>2
  <2>3. ASSUME NEW job \in JobRecords, store' = [store EXCEPT ![j] = job]
        PROVE  store' \in [Jobs -> JobRecords]
    BY <2>1, <2>3
  <2>4. CASE store' = [store EXCEPT ![j].stored = FALSE]
    BY <2>3, <2>4, Deleted
  <2>5. CASE store' = [store EXCEPT ![j].enabled = ~@]
    <3> DEFINE b == ~store[j].enabled
    <3>1. b \in BOOLEAN
      OBVIOUS
    <3>2. [store[j] EXCEPT !.enabled = b] \in JobRecords
      BY <2>1, <3>1, Fields
    <3>3. store' = [store EXCEPT ![j] = [store[j] EXCEPT !.enabled = b]]
      BY <2>1, <2>5
    <3> QED
      BY <2>3, <3>2, <3>3
  <2> QED
    BY <2>2, <2>3, <2>4, <2>5 DEF EditElsewhere
<1>5. TypeOK'
  BY <1>2, <1>3, <1>4 DEF EditElsewhere, IInv, TypeOK, Counts
<1>6. ThreadInv' /\ ArmedMatchesFile'
  BY <1>2, ThreadsKept DEF EditElsewhere, ThreadInv, ArmedMatchesFile
<1> QED
  BY <1>5, <1>6 DEF IInv

-----------------------------------------------------------------------------
(* Start, Stop, Crash and the clock.                                         *)

\* Start arms every stored job as the file says.
LEMMA StartStep == ASSUME IInv, Start PROVE IInv'
<1>1. \A j \in Jobs : armed'[j] = IF store[j].stored THEN Arming(store[j]) ELSE Off
  BY DEF Start, Stored
<1>2. ASSUME NEW j \in Jobs
      PROVE  /\ armed'[j] \in ArmedStates
             /\ Suits(armed'[j], store[j], TRUE, count.faults = 0, now)
  <2>1. store[j] \in JobRecords /\ now \in Nat
    BY Types
  <2>2. CASE store[j].stored
    <3>1. armed'[j] = Arming(store[j])
      BY <1>1, <2>2
    <3> QED
      BY <2>1, <2>2, <3>1, ArmingSuits DEF Suits
  <2>3. CASE ~store[j].stored
    <3>1. armed'[j] = Off
      BY <1>1, <2>3
    <3> QED
      BY <2>3, <3>1, OffType DEF Suits
  <2> QED
    BY <2>2, <2>3
<1>3. armed' \in [Jobs -> ArmedStates]
  <2>1. armed' = [j \in Jobs |-> IF Stored(j) THEN Arming(store[j]) ELSE Off]
    BY DEF Start
  <2>2. \A j \in Jobs :
          (IF Stored(j) THEN Arming(store[j]) ELSE Off) \in ArmedStates
    BY <1>1, <1>2 DEF Stored
  <2> QED
    BY <2>1, <2>2
<1>4. TypeOK'
  BY <1>3 DEF Start, IInv, TypeOK
<1>5. ThreadInv'
  BY ThreadsKept DEF Start, ThreadInv
<1>6. ArmedMatchesFile'
  BY <1>2 DEF Start, ArmedMatchesFile, Suits, Stored
<1> QED
  BY <1>4, <1>5, <1>6 DEF IInv

\* Nothing is armed after a stop or a crash.
LEMMA HaltStep == ASSUME IInv, Stop \/ Crash PROVE IInv'
<1>1. Halt
  BY DEF Stop, Crash
<1>2. count' \in Counts
  BY <1>1, Types DEF Halt, Counts
<1>3. /\ armed' \in [Jobs -> ArmedStates]
      /\ \A j \in Jobs : armed'[j].st = "off"
  BY <1>1, OffType DEF Halt
<1>4. thread' \in [Threads -> ThreadRecs]
  <2>1. CASE UNCHANGED thread
    BY <2>1, Types
  <2>2. CASE thread' = [r \in Threads |-> [pc |-> "idle", job |-> NoJob,
                                           force |-> FALSE]]
    BY <2>2 DEF ThreadRecs
  <2> QED
    BY <2>1, <2>2 DEF Stop, Crash
<1>5. TypeOK'
  BY <1>1, <1>2, <1>3, <1>4 DEF Halt, IInv, TypeOK, ThreadRecs, Counts
<1>6. ThreadInv'
  BY ThreadsKept DEF Stop, Crash, ThreadInv
<1>7. ArmedMatchesFile'
  BY <1>1, <1>3 DEF Halt, ArmedMatchesFile
<1> QED
  BY <1>5, <1>6, <1>7 DEF IInv

\* As the clock goes on, fewer jobs have a run to come.
LEMMA TickStep == ASSUME IInv, Tick PROVE IInv'
<1>1. now \in 0..MaxNow /\ now' \in 0..MaxNow /\ now' = now + 1
  BY CronAssumption DEF IInv, TypeOK, Tick
<1>2. \A j \in Jobs : store[j].at \in Nat
  BY CronAssumption DEF IInv, TypeOK, JobRecords, Schedules, Every
<1>3. TypeOK'
  BY <1>1 DEF IInv, TypeOK, Tick
<1>4. ThreadInv'
  BY ThreadsKept DEF Tick, ThreadInv
<1>5. \A j \in Jobs : store[j].at > now' => store[j].at > now
  BY <1>1, <1>2, CronAssumption
<1>6. ArmedMatchesFile'
  BY <1>5 DEF Tick, IInv, ArmedMatchesFile, Stored
<1> QED
  BY <1>3, <1>4, <1>6 DEF IInv

-----------------------------------------------------------------------------
(* runJobByID.                                                               *)

\* A call that is made is about a job.
LEMMA CallEffect ==
  ASSUME IInv, NEW r \in Threads, NEW j \in Jobs, NEW f \in BOOLEAN, Call(r, j, f)
  PROVE  /\ thread' \in [Threads -> ThreadRecs]
         /\ \A q \in Threads : thread'[q].pc # "idle" => thread'[q].job \in Jobs
<1>1. thread \in [Threads -> ThreadRecs]
  BY Types
<1>2. [pc |-> "load", job |-> j, force |-> f] \in ThreadRecs
  BY DEF ThreadRecs
<1>3. thread' = [thread EXCEPT ![r] = [pc |-> "load", job |-> j, force |-> f]]
  BY DEF Call
<1> QED
  BY <1>1, <1>2, <1>3 DEF IInv, ThreadInv

\* A call that ends is idle, and one that goes on is about the same job.
LEMMA MoveEffect ==
  ASSUME IInv, NEW r \in Threads,
         \/ Done(r)
         \/ /\ thread[r].pc # "idle"
            /\ \E pc \in {"run", "ok", "error"} :
                 thread' = [thread EXCEPT ![r].pc = pc]
  PROVE  /\ thread' \in [Threads -> ThreadRecs]
         /\ \A q \in Threads : thread'[q].pc # "idle" => thread'[q].job \in Jobs
<1>1. thread \in [Threads -> ThreadRecs]
  BY Types
<1>2. CASE Done(r)
  <2>1. [pc |-> "idle", job |-> NoJob, force |-> FALSE] \in ThreadRecs
    BY DEF ThreadRecs
  <2>2. thread' = [thread EXCEPT ![r] = [pc |-> "idle", job |-> NoJob,
                                         force |-> FALSE]]
    BY <1>2 DEF Done
  <2> QED
    BY <1>1, <2>1, <2>2 DEF IInv, ThreadInv
<1>3. ASSUME NEW pc \in {"run", "ok", "error"}, thread[r].pc # "idle",
             thread' = [thread EXCEPT ![r].pc = pc]
      PROVE  /\ thread' \in [Threads -> ThreadRecs]
             /\ \A q \in Threads : thread'[q].pc # "idle" => thread'[q].job \in Jobs
  <2>1. /\ [thread[r] EXCEPT !.pc = pc] \in ThreadRecs
        /\ [thread[r] EXCEPT !.pc = pc].job = thread[r].job
    BY <1>1 DEF ThreadRecs
  <2>2. thread' = [thread EXCEPT ![r] = [thread[r] EXCEPT !.pc = pc]]
    BY <1>1, <1>3
  <2> QED
    BY <1>1, <1>3, <2>1, <2>2 DEF IInv, ThreadInv
<1> QED
  BY <1>2, <1>3

\* A step of calls only, in a well-typed state.
LEMMA ThreadStep ==
  ASSUME IInv, thread' \in [Threads -> ThreadRecs],
         \A q \in Threads : thread'[q].pc # "idle" => thread'[q].job \in Jobs,
         UNCHANGED <<now, store, armed, started>>,
         last' \in [Jobs -> {"none", "ok", "error"}], count' \in Counts,
         count'.cli = 0 => count.cli = 0, count'.faults = 0 => count.faults = 0
  PROVE  IInv'
<1>1. TypeOK'
  BY DEF IInv, TypeOK, ThreadRecs, Counts
<1>2. ThreadInv'
  BY DEF ThreadInv
<1>3. ArmedMatchesFile'
  BY DEF IInv, ArmedMatchesFile, Stored
<1> QED
  BY <1>1, <1>2, <1>3 DEF IInv

\* A timer that fires stays in the map, an entry stays armed.
LEMMA FireStep == ASSUME IInv, NEW r \in Threads, NEW j \in Jobs, Fire(r, j) PROVE IInv'
<1>1. /\ thread' \in [Threads -> ThreadRecs]
      /\ \A q \in Threads : thread'[q].pc # "idle" => thread'[q].job \in Jobs
  BY CallEffect DEF Fire
<1>2. CASE UNCHANGED armed
  BY <1>1, <1>2, Types, ThreadStep DEF Fire
<1>3. CASE /\ armed[j].st = "timer"
           /\ armed' = [armed EXCEPT ![j] = Armed("fired", Every)]
  <2> DEFINE a == Armed("fired", Every)
  <2>1. a \in ArmedStates /\ a.st = "fired"
    BY DEF Armed, ArmedStates, Schedules
  <2>2. Suits(a, store[j], started, count.faults = 0, now)
    BY <2>1 DEF Suits
  <2>3. store[j] \in JobRecords /\ store' = [store EXCEPT ![j] = store[j]]
    BY Types DEF Fire
  <2>4. UNCHANGED <<now, started, last, count>>
    BY DEF Fire
  <2>5. armed' = [armed EXCEPT ![j] = a]
    BY <1>3
  <2> HIDE DEF a
  <2> QED
    BY <1>1, <2>1, <2>2, <2>3, <2>4, <2>5, Types, JobStep
<1> QED
  BY <1>2, <1>3 DEF Fire

\* RunNow.
LEMMA RunNowStep ==
  ASSUME IInv, NEW r \in Threads, NEW j \in Jobs, RunNow(r, j) PROVE IInv'
<1>1. /\ thread' \in [Threads -> ThreadRecs]
      /\ \A q \in Threads : thread'[q].pc # "idle" => thread'[q].job \in Jobs
  BY CallEffect DEF RunNow
<1>2. /\ count' \in Counts /\ count'.cli = count.cli
      /\ count'.faults = count.faults
  BY Types, CountType DEF RunNow
<1> QED
  BY <1>1, <1>2, Types, ThreadStep DEF RunNow

\* The run of a job, up to its result.
LEMMA LoadRunStep ==
  ASSUME IInv, NEW r \in Threads, LoadJob(r) \/ RunJob(r) PROVE IInv'
<1>1. UNCHANGED <<now, store, armed, started, last>>
  BY DEF LoadJob, RunJob
<1>2. /\ thread' \in [Threads -> ThreadRecs]
      /\ \A q \in Threads : thread'[q].pc # "idle" => thread'[q].job \in Jobs
  <2>1. \/ Done(r)
        \/ /\ thread[r].pc # "idle"
           /\ \E pc \in {"run", "ok", "error"} :
                thread' = [thread EXCEPT ![r].pc = pc]
    BY DEF LoadJob, RunJob
  <2> QED
    BY <2>1, MoveEffect
<1>3. /\ count' \in Counts /\ count'.cli = count.cli
      /\ count'.faults = 0 => count.faults = 0
  <2>1. UNCHANGED count \/ StoreFails
    BY DEF LoadJob, RunJob
  <2>2. CASE StoreFails
    <3>1. /\ count' \in Counts /\ count'.cli = count.cli
          /\ count'.faults = count.faults + 1
      BY <2>2, Types, CountType
    <3> QED
      BY <3>1, Types DEF Counts
  <2> QED
    BY <2>1, <2>2, Types
<1> QED
  BY <1>1, <1>2, <1>3, Types, ThreadStep

\* The result of a run is saved only if the file still has the job, and a job
\* that is deleted is unarmed in the same step.
LEMMA FinishStep == ASSUME IInv, NEW r \in Threads, FinishRun(r) PROVE IInv'
<1> DEFINE j == thread[r].job
           outcome == thread[r].pc
           deletes == store[j].once /\ outcome = "ok"
<1>1. outcome \in {"ok", "error"} /\ j \in Jobs
  BY DEF FinishRun, IInv, ThreadInv
<1>2. /\ thread' \in [Threads -> ThreadRecs]
      /\ \A q \in Threads : thread'[q].pc # "idle" => thread'[q].job \in Jobs
  BY MoveEffect DEF FinishRun
<1>3. UNCHANGED <<now, started>>
  BY DEF FinishRun
<1>4. CASE UNCHANGED <<store, armed, last, count>>
  BY <1>2, <1>3, <1>4, Types, ThreadStep
<1>5. CASE deletes /\ UnarmJob(j) /\ StoreFails /\ UNCHANGED <<store, last>>
  BY <1>1, <1>2, <1>3, <1>5, FailStep
<1>6. CASE UNCHANGED armed /\ StoreFails /\ UNCHANGED <<store, last>>
  <2>1. /\ count' \in Counts /\ count'.cli = count.cli
        /\ count'.faults = count.faults + 1
    BY <1>6, Types, CountType
  <2>2. count'.faults = 0 => count.faults = 0
    BY <2>1, Types DEF Counts
  <2> QED
    BY <1>2, <1>3, <1>6, <2>1, <2>2, Types, ThreadStep
<1>7. CASE /\ deletes /\ UnarmJob(j)
           /\ store' = [store EXCEPT ![j].stored = FALSE]
           /\ UNCHANGED <<last, count>>
  <2> DEFINE job == [store[j] EXCEPT !.stored = FALSE]
  <2>1. store' = [store EXCEPT ![j] = job] /\ job \in JobRecords /\ ~job.stored
    BY <1>1, <1>7, Deleted
  <2>2. count' \in Counts /\ count'.faults >= count.faults
    BY <1>7, Types DEF Counts
  <2> HIDE DEF job
  <2> QED
    BY <1>1, <1>2, <1>3, <1>7, <2>1, <2>2, Types, UnarmStep
<1>8. CASE /\ UNCHANGED <<store, armed, count>>
           /\ last' = [last EXCEPT ![j] = outcome]
  <2>1. last' \in [Jobs -> {"none", "ok", "error"}]
    BY <1>1, <1>8, Types
  <2> QED
    BY <1>2, <1>3, <1>8, <2>1, Types, ThreadStep
<1>9. CASE /\ Stored(j)
           /\ IF deletes THEN UnarmJob(j) ELSE UNCHANGED armed
           /\ store' = [store EXCEPT ![j].stored = ~deletes]
           /\ last' = [last EXCEPT ![j] = IF deletes THEN @ ELSE outcome]
           /\ UNCHANGED count
  <2>1. CASE deletes
    <3>1. last' = last
      BY <1>1, <1>9, <2>1, Types
    <3>2. store' = [store EXCEPT ![j].stored = FALSE]
      BY <1>9, <2>1
    <3> QED
      BY <1>7, <1>9, <2>1, <3>1, <3>2
  <2>2. CASE ~deletes
    <3>1. store' = [store EXCEPT ![j].stored = TRUE]
      BY <1>9, <2>2
    <3>2. store \in [Jobs -> JobRecords] /\ store[j].stored = TRUE
      BY <1>1, <1>9, Types DEF Stored, JobRecords
    <3>3. store' = store
      BY <1>1, <3>1, <3>2 DEF JobRecords
    <3>4. last' = [last EXCEPT ![j] = outcome]
      BY <1>9, <2>2
    <3> QED
      BY <1>8, <1>9, <2>2, <3>3, <3>4
  <2> QED
    BY <2>1, <2>2
<1> QED
  BY <1>4, <1>5, <1>6, <1>9 DEF FinishRun

-----------------------------------------------------------------------------
(* The theorems.                                                             *)

\* The empty service satisfies the invariant.
LEMMA InvInit == Init => IInv
<1> SUFFICES ASSUME Init PROVE IInv
  OBVIOUS
<1>1. store \in [Jobs -> JobRecords] /\ \A j \in Jobs : ~store[j].stored
  BY DEF Init, JobRecords, Schedules
<1>2. armed \in [Jobs -> ArmedStates] /\ \A j \in Jobs : armed[j].st = "off"
  BY OffType DEF Init
<1>3. /\ thread \in [Threads -> ThreadRecs]
      /\ \A r \in Threads : thread[r].pc = "idle"
  BY DEF Init, ThreadRecs
<1>4. count \in Counts
  BY DEF Init, Counts
<1>5. now \in 0..MaxNow
  BY CronAssumption DEF Init
<1>6. TypeOK
  BY <1>1, <1>2, <1>3, <1>4, <1>5 DEF Init, TypeOK, ThreadRecs, Counts
<1>7. ThreadInv /\ ArmedMatchesFile
  BY <1>1, <1>2, <1>3 DEF ThreadInv, ArmedMatchesFile, Stored
<1> QED
  BY <1>6, <1>7 DEF IInv

\* Every step keeps the invariant.
LEMMA InvNext == IInv /\ [Next]_vars => IInv'
<1> SUFFICES ASSUME IInv, [Next]_vars PROVE IInv'
  OBVIOUS
<1>1. ASSUME NEW j \in Jobs, Add(j) PROVE IInv'
  BY <1>1, AddStep
<1>2. ASSUME NEW j \in Jobs, Update(j) \/ SetEnabled(j) PROVE IInv'
  BY <1>2, ChangeStep
<1>3. ASSUME NEW j \in Jobs, Remove(j) PROVE IInv'
  BY <1>3, RemoveStep
<1>4. ASSUME NEW j \in Jobs, EditElsewhere(j) PROVE IInv'
  BY <1>4, ElsewhereStep
<1>5. CASE Start
  BY <1>5, StartStep
<1>6. CASE Stop \/ Crash
  BY <1>6, HaltStep
<1>7. CASE Tick
  BY <1>7, TickStep
<1>8. ASSUME NEW r \in Threads, NEW j \in Jobs, Fire(r, j) PROVE IInv'
  BY <1>8, FireStep
<1>9. ASSUME NEW r \in Threads, NEW j \in Jobs, RunNow(r, j) PROVE IInv'
  BY <1>9, RunNowStep
<1>10. ASSUME NEW r \in Threads, RunStep(r) PROVE IInv'
  BY <1>10, LoadRunStep, FinishStep DEF RunStep
<1>11. CASE UNCHANGED vars
  BY <1>11 DEF vars, IInv, TypeOK, ThreadInv, ArmedMatchesFile, Stored
<1> QED
  BY <1>1, <1>2, <1>3, <1>4, <1>5, <1>6, <1>7, <1>8, <1>9, <1>10, <1>11 DEF Next

\* The invariant holds throughout.
THEOREM Invariant == Spec => []IInv
  BY InvInit, InvNext, PTL DEF Spec

\* The file, what is armed and the calls under way are well typed.
THEOREM TypeCorrect == Spec => []TypeOK
<1>1. IInv => TypeOK
  BY DEF IInv
<1> QED
  BY <1>1, Invariant, PTL

\* As long as the command line leaves the file alone, the service runs nothing
\* that the file does not have enabled and, while saves succeed, forgets no
\* job that has a run to come: for any number of jobs and of runs that overlap.
THEOREM MemoryMatchesFile == Spec => []ArmedMatchesFile
<1>1. IInv => ArmedMatchesFile
  BY DEF IInv
<1> QED
  BY <1>1, Invariant, PTL

\* A run that ends never brings back a job that was removed meanwhile.
THEOREM NoResurrection == Spec => RemovedStaysRemoved
<1> DEFINE Stays == \A j \in Jobs :
                      ~Stored(j) /\ Stored(j)' => count'.edits = count.edits + 1
<1>1. IInv /\ [Next]_vars => [Stays]_vars
  <2> SUFFICES ASSUME IInv, Next PROVE Stays
    OBVIOUS
  <2>1. count \in Counts
    BY Types
  <2>2. CASE UNCHANGED store
    BY <2>2 DEF Stored
  <2>3. CASE Edit
    BY <2>1, <2>3, CountType
  <2>4. ASSUME NEW j \in Jobs, EditElsewhere(j) PROVE Stays
    <3>1. count' = [count EXCEPT !.edits = @ + 1, !.cli = @ + 1]
      BY <2>4 DEF EditElsewhere
    <3> QED
      BY <2>1, <3>1 DEF Counts
  <2>5. ASSUME NEW j \in Jobs, Add(j) \/ Update(j) \/ SetEnabled(j) \/ Remove(j)
        PROVE  Stays
    <3>1. Edit \/ UNCHANGED store
      BY <2>5 DEF Add, Update, SetEnabled, Remove, Replace
    <3> QED
      BY <2>2, <2>3, <3>1
  <2>6. CASE Start \/ Stop \/ Crash \/ Tick
    BY <2>2, <2>6 DEF Start, Stop, Crash, Halt, Tick
  <2>7. ASSUME NEW r \in Threads, NEW j \in Jobs, Fire(r, j) \/ RunNow(r, j)
        PROVE  Stays
    BY <2>2, <2>7 DEF Fire, RunNow
  <2>8. ASSUME NEW r \in Threads, LoadJob(r) \/ RunJob(r) PROVE Stays
    BY <2>2, <2>8 DEF LoadJob, RunJob
  <2>9. ASSUME NEW r \in Threads, FinishRun(r) PROVE Stays
    <3> DEFINE j == thread[r].job
    <3>1. store \in [Jobs -> JobRecords]
      BY Types
    <3>2. CASE /\ Stored(j)
               /\ store' = [store EXCEPT ![j].stored =
                              ~(store[j].once /\ thread[r].pc = "ok")]
      <4>1. \A i \in Jobs : i # j => store'[i] = store[i]
        BY <3>1, <3>2
      <4> QED
        BY <3>2, <4>1 DEF Stored
    <3> QED
      BY <2>2, <2>9, <3>2 DEF FinishRun
  <2> QED
    BY <2>4, <2>5, <2>6, <2>7, <2>8, <2>9 DEF Next, RunStep
<1> QED
  BY <1>1, Invariant, PTL DEF Spec, RemovedStaysRemoved
=============================================================================
