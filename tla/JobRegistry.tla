---------------------------- MODULE JobRegistry ----------------------------
(***************************************************************************)
(* The in-memory job registry of internal/jobs/registry.go.                *)
(*                                                                         *)
(* Every method holds r.mu, so a method is one action, with two            *)
(* exceptions that the code makes visible:                                 *)
(*   - Complete, Fail and PauseForApproval publish their last event, let   *)
(*     go of the lock, and take it again in markTerminal;                  *)
(*   - Wait reads the done channel under the lock, blocks without it, and  *)
(*     takes it again for the final Snapshot.                              *)
(*                                                                         *)
(* Time is abstracted to the order of the entries' updatedAt: "older" has  *)
(* the pairs of tracked jobs of which the first was updated before.        *)
(* An event is its sequence number.                                        *)
(***************************************************************************)
EXTENDS Integers, Sequences, FiniteSets

CONSTANTS Jobs,        \* the job ids handed to RegisterWithID, each used once
          Busy,        \* bound: the jobs that are used after they were registered
          Clients,     \* callers of Subscribe (one subscription each)
          Finishers,   \* goroutines calling Complete, Fail or PauseForApproval
          Waiters,     \* callers of Wait
          MaxTracked,  \* r.maxTracked
          MaxEvents,   \* r.maxEvents
          SubBuffer,   \* jobSubscriberBuffer
          MaxSeq,      \* bound: events published per job
          MaxReopens   \* bound: Reopen calls per job

ASSUME RegistryAssumption ==
  /\ Jobs # {} /\ Busy \subseteq Jobs
  /\ MaxTracked \in Nat \ {0}
  /\ MaxEvents \in Nat \ {0}
  /\ SubBuffer \in Nat \ {0}
  /\ MaxSeq \in Nat
  /\ MaxReopens \in Nat

VARIABLES tracked,    \* the keys of r.jobs
          known,      \* ids that were registered at some time
          entry,      \* r.jobs[id] (meaningful for tracked ids)
          older,      \* the order of updatedAt
          early,      \* history: ids reopened while they were not terminal
          closedDone, \* done channels that were closed, as <<id, generation>>
          sub,        \* the subscribers' side of their channels
          fin,        \* finish calls in progress
          wait        \* Wait calls in progress

vars == <<tracked, known, entry, older, early, closedDone, sub, fin, wait>>

\* What Complete, Fail and PauseForApproval leave behind ("completed" stands
\* for every status a caller gives Complete).
FinalStatuses == {"completed", "failed", "approval_required"}
Statuses      == FinalStatuses \cup {"queued", "running"}

Entries == [status      : Statuses,
            events      : Seq(Nat),
            nextSeq     : Nat,
            done        : Nat,          \* generation of the done channel
            cancel      : BOOLEAN,
            terminal    : BOOLEAN,
            subscribers : SUBSET Clients]

\* The entry RegisterWithID makes.
NewEntry == [status |-> "queued", events |-> <<>>, nextSeq |-> 0, done |-> 0,
             cancel |-> FALSE, terminal |-> FALSE, subscribers |-> {}]

\* A subscriber's channel: what is in its buffer, whether it was closed, the
\* last sequence number the client knows (from the snapshot or the channel),
\* and whether a full buffer ever made Publish drop an event for it.
Subscriptions == [pc : {"idle", "reading", "ended"}, job : Jobs,
                  queue : Seq(Nat), closed : BOOLEAN,
                  last : Nat, dropped : BOOLEAN]

FinishCalls == [pc : {"idle", "mark"}, job : Jobs, status : FinalStatuses]

WaitCalls == [pc : {"idle", "blocked", "woken", "returned"}, job : Jobs,
              done : Nat, ok : BOOLEAN]

AnyJob == CHOOSE j \in Jobs : TRUE

Init ==
  /\ tracked = {}
  /\ known = {}
  /\ entry = [j \in Jobs |-> NewEntry]
  /\ older = {}
  /\ early = {}
  /\ closedDone = {}
  /\ sub = [c \in Clients |-> [pc |-> "idle", job |-> AnyJob, queue |-> <<>>,
                               closed |-> FALSE, last |-> 0, dropped |-> FALSE]]
  /\ fin = [f \in Finishers |-> [pc |-> "idle", job |-> AnyJob,
                                 status |-> "completed"]]
  /\ wait = [w \in Waiters |-> [pc |-> "idle", job |-> AnyJob, done |-> 0,
                                ok |-> FALSE]]

-----------------------------------------------------------------------------
(* cleanupLocked: updatedAt and its consequences.                            *)

\* The order of updatedAt without the jobs of S.
Without(S) == {p \in older : p[1] \notin S /\ p[2] \notin S}

\* entry.updatedAt = time.Now(): j becomes the most recently updated job.
Touch(j) == Without({j}) \cup {<<i, j>> : i \in tracked \ {j}}

\* (Mutant: active jobs are candidates for eviction as well.)
MutTerminalIn(S) == S

TerminalIn(S) == {j \in S : entry[j].terminal}

\* The sets of terminal jobs of S that hold the oldest ones, up to some age.
OldestTerminal(S) ==
  {G \in SUBSET TerminalIn(S) :
     \A j \in G, i \in TerminalIn(S) : <<i, j>> \in older => i \in G}

Lesser(a, b) == IF a < b THEN a ELSE b

\* (Mutant: the target is missed by one.)
MutEvicted(left) ==
  LET excess == Cardinality(left) - MaxTracked - 1
  IN  IF excess <= 0 THEN {{}}
      ELSE {G \in OldestTerminal(left) :
              Cardinality(G) = Lesser(excess, Cardinality(TerminalIn(left)))}

\* evictOldestLocked(false), repeated while there are too many entries and a
\* terminal one is left.
Evicted(left) ==
  LET excess == Cardinality(left) - MaxTracked
  IN  IF excess <= 0 THEN {{}}
      ELSE {G \in OldestTerminal(left) :
              Cardinality(G) = Lesser(excess, Cardinality(TerminalIn(left)))}

-----------------------------------------------------------------------------
(* The methods.                                                              *)

\* cleanupLocked comes first: it removes the terminal jobs, expired, whose age
\* exceeds r.retention, and evicts others if there are still too many.
Register(j) ==
  /\ j \notin known
  /\ \E expired \in OldestTerminal(tracked) :
       \E evicted \in Evicted(tracked \ expired) :
         LET gone == expired \cup evicted IN
         /\ tracked' = (tracked \ gone) \cup {j}
         /\ older' = Without(gone) \cup {<<i, j>> : i \in tracked \ gone}
  /\ known' = known \cup {j}
  /\ entry' = [entry EXCEPT ![j] = NewEntry]
  /\ UNCHANGED <<early, closedDone, sub, fin, wait>>

AttachCancel(j) ==
  /\ j \in tracked
  /\ entry' = [entry EXCEPT ![j].cancel = TRUE]
  /\ older' = Touch(j)
  /\ UNCHANGED <<tracked, known, early, closedDone, sub, fin, wait>>

\* (Mutant: one event too few is cut off.)
MutRetain(events, e) ==
  LET all == Append(events, e)
  IN  IF Len(all) > MaxEvents + 1
      THEN SubSeq(all, Len(all) - MaxEvents, Len(all)) ELSE all

\* entry.events after appending e: the last MaxEvents events.
Retain(events, e) ==
  LET all == Append(events, e)
  IN  IF Len(all) > MaxEvents
      THEN SubSeq(all, Len(all) - MaxEvents + 1, Len(all)) ELSE all

\* A non-blocking send of e on the channel of s.
Offer(s, e) ==
  IF Len(s.queue) < SubBuffer
  THEN [s EXCEPT !.queue = Append(@, e)]
  ELSE [s EXCEPT !.dropped = TRUE]

\* (Mutant: Publish does not look at the terminal flag.)
MutPublishEvent(j, st) ==
  LET e == entry[j].nextSeq + 1 IN
  /\ j \in tracked
  /\ entry[j].nextSeq < MaxSeq
  /\ entry' = [entry EXCEPT ![j].status = st,
                            ![j].nextSeq = @ + 1,
                            ![j].events = Retain(@, e)]
  /\ older' = Touch(j)
  /\ sub' = [c \in Clients |->
               IF c \in entry[j].subscribers THEN Offer(sub[c], e) ELSE sub[c]]

\* Publish of an event that carries status st.
PublishEvent(j, st) ==
  LET e == entry[j].nextSeq + 1 IN
  /\ j \in tracked
  /\ ~entry[j].terminal
  /\ entry[j].nextSeq < MaxSeq
  /\ entry' = [entry EXCEPT ![j].status = st,
                            ![j].nextSeq = @ + 1,
                            ![j].events = Retain(@, e)]
  /\ older' = Touch(j)
  /\ sub' = [c \in Clients |->
               IF c \in entry[j].subscribers THEN Offer(sub[c], e) ELSE sub[c]]

\* Publish of an ordinary event: with a status, or without one (the status
\* stays). A Publish that finds no entry or a terminal one changes nothing.
Publish(j) ==
  /\ PublishEvent(j, entry[j].status) \/ PublishEvent(j, "running")
  /\ UNCHANGED <<tracked, known, early, closedDone, fin, wait>>

\* (Mutant: the final status is the one the job happened to have.)
MutFinishPublish(f, j, st) ==
  /\ fin[f].pc = "idle"
  /\ PublishEvent(j, st)
  /\ fin' = [fin EXCEPT ![f] = [pc |-> "mark", job |-> j,
                                status |-> entry[j].status]]
  /\ UNCHANGED <<tracked, known, early, closedDone, wait>>

\* The first half of Complete, Fail and PauseForApproval: the last event.
FinishPublish(f, j, st) ==
  /\ fin[f].pc = "idle"
  /\ PublishEvent(j, st)
  /\ fin' = [fin EXCEPT ![f] = [pc |-> "mark", job |-> j, status |-> st]]
  /\ UNCHANGED <<tracked, known, early, closedDone, wait>>

\* (Mutant: the subscribers are forgotten, their channels stay open.)
MutMarkTerminal(f) ==
  LET j == fin[f].job IN
  /\ fin[f].pc = "mark"
  /\ fin' = [fin EXCEPT ![f].pc = "idle"]
  /\ \/ (j \notin tracked \/ entry[j].terminal)
        /\ UNCHANGED <<entry, older, closedDone, sub>>
     \/ /\ j \in tracked /\ ~entry[j].terminal
        /\ entry' = [entry EXCEPT ![j].status = fin[f].status,
                                  ![j].terminal = TRUE, ![j].subscribers = {}]
        /\ older' = Touch(j)
        /\ closedDone' = closedDone \cup {<<j, entry[j].done>>}
        /\ UNCHANGED sub
  /\ UNCHANGED <<tracked, known, early, wait>>

\* (Mutant: the done channel is not closed.)
MutMarkTerminalDone(f) ==
  LET j == fin[f].job IN
  /\ fin[f].pc = "mark"
  /\ fin' = [fin EXCEPT ![f].pc = "idle"]
  /\ \/ (j \notin tracked \/ entry[j].terminal)
        /\ UNCHANGED <<entry, older, sub>>
     \/ /\ j \in tracked /\ ~entry[j].terminal
        /\ entry' = [entry EXCEPT ![j].status = fin[f].status,
                                  ![j].terminal = TRUE, ![j].subscribers = {}]
        /\ older' = Touch(j)
        /\ sub' = [c \in Clients |->
                     IF c \in entry[j].subscribers
                     THEN [sub[c] EXCEPT !.closed = TRUE] ELSE sub[c]]
  /\ UNCHANGED <<tracked, known, early, closedDone, wait>>

\* The second half, markTerminal, in a critical section of its own. It closes
\* the done channel and every subscriber's channel.
MarkTerminal(f) ==
  LET j == fin[f].job
      noop == j \notin tracked \/ entry[j].terminal
  IN
  /\ fin[f].pc = "mark"
  /\ fin' = [fin EXCEPT ![f].pc = "idle"]
  /\ \/ noop /\ UNCHANGED <<entry, older, closedDone, sub>>
     \/ /\ ~noop
        /\ entry' = [entry EXCEPT ![j].status = fin[f].status,
                                  ![j].terminal = TRUE,
                                  ![j].subscribers = {}]
        /\ older' = Touch(j)
        /\ closedDone' = closedDone \cup {<<j, entry[j].done>>}
        /\ sub' = [c \in Clients |->
                     IF c \in entry[j].subscribers
                     THEN [sub[c] EXCEPT !.closed = TRUE] ELSE sub[c]]
  /\ UNCHANGED <<tracked, known, early, wait>>

\* Reopen looks neither at the status nor at the terminal flag.
Reopen(j) ==
  /\ j \in tracked
  /\ entry[j].done < MaxReopens
  /\ entry' = [entry EXCEPT ![j].terminal = FALSE, ![j].status = "running",
                            ![j].done = @ + 1]
  /\ older' = Touch(j)
  /\ early' = IF entry[j].terminal THEN early ELSE early \cup {j}
  /\ UNCHANGED <<tracked, known, closedDone, sub, fin, wait>>

\* (Mutant: the position is taken from the length of the trimmed log.)
MutSubscribe(c, j) ==
  /\ sub[c].pc = "idle"
  /\ j \in tracked
  /\ sub' = [sub EXCEPT ![c] = [pc |-> "reading", job |-> j, queue |-> <<>>,
                                closed |-> entry[j].terminal,
                                last |-> Len(entry[j].events),
                                dropped |-> FALSE]]
  /\ entry' = IF entry[j].terminal THEN entry
              ELSE [entry EXCEPT ![j].subscribers = @ \cup {c}]
  /\ UNCHANGED <<tracked, known, older, early, closedDone, fin, wait>>

\* Snapshot and channel are taken in one critical section.
Subscribe(c, j) ==
  /\ sub[c].pc = "idle"
  /\ j \in tracked
  /\ sub' = [sub EXCEPT ![c] = [pc |-> "reading", job |-> j, queue |-> <<>>,
                                closed |-> entry[j].terminal,
                                last |-> entry[j].nextSeq, dropped |-> FALSE]]
  /\ entry' = IF entry[j].terminal THEN entry
              ELSE [entry EXCEPT ![j].subscribers = @ \cup {c}]
  /\ UNCHANGED <<tracked, known, older, early, closedDone, fin, wait>>

\* The unsubscribe function: only a channel that is still registered is closed.
Unsubscribe(c) ==
  LET j == sub[c].job IN
  /\ sub[c].pc = "reading"
  /\ j \in tracked
  /\ c \in entry[j].subscribers
  /\ entry' = [entry EXCEPT ![j].subscribers = @ \ {c}]
  /\ sub' = [sub EXCEPT ![c].closed = TRUE, ![c].pc = "ended"]
  /\ UNCHANGED <<tracked, known, older, early, closedDone, fin, wait>>

\* The client takes the next event, or learns that the channel is closed.
Receive(c) ==
  /\ sub[c].pc = "reading"
  /\ \/ /\ sub[c].queue # <<>>
        /\ sub' = [sub EXCEPT ![c].queue = Tail(@),
                              ![c].last = Head(sub[c].queue)]
     \/ /\ sub[c].queue = <<>> /\ sub[c].closed
        /\ sub' = [sub EXCEPT ![c].pc = "ended"]
  /\ UNCHANGED <<tracked, known, entry, older, early, closedDone, fin, wait>>

\* Wait: the critical section that captures the done channel.
WaitBegin(w, j) ==
  /\ wait[w].pc = "idle"
  /\ wait' = [wait EXCEPT ![w] =
                [pc |-> IF j \notin tracked THEN "returned"
                        ELSE IF entry[j].terminal THEN "woken" ELSE "blocked",
                 job |-> j, done |-> entry[j].done, ok |-> FALSE]]
  /\ UNCHANGED <<tracked, known, entry, older, early, closedDone, sub, fin>>

WaitDone(w) ==
  /\ wait[w].pc = "blocked"
  /\ <<wait[w].job, wait[w].done>> \in closedDone
  /\ wait' = [wait EXCEPT ![w].pc = "woken"]
  /\ UNCHANGED <<tracked, known, entry, older, early, closedDone, sub, fin>>

WaitCtxDone(w) ==
  /\ wait[w].pc = "blocked"
  /\ wait' = [wait EXCEPT ![w].pc = "returned"]
  /\ UNCHANGED <<tracked, known, entry, older, early, closedDone, sub, fin>>

\* The final Snapshot: the entry may have been cleaned up in between.
WaitReturn(w) ==
  /\ wait[w].pc = "woken"
  /\ wait' = [wait EXCEPT ![w].pc = "returned", ![w].ok = wait[w].job \in tracked]
  /\ UNCHANGED <<tracked, known, entry, older, early, closedDone, sub, fin>>

Next ==
  \/ \E j \in Jobs : Register(j)
  \/ \E j \in Busy : AttachCancel(j) \/ Publish(j) \/ Reopen(j)
  \/ \E f \in Finishers :
       \/ \E j \in Busy, st \in FinalStatuses : FinishPublish(f, j, st)
       \/ MarkTerminal(f)
  \/ \E c \in Clients :
       \/ \E j \in Busy : Subscribe(c, j)
       \/ Unsubscribe(c) \/ Receive(c)
  \/ \E w \in Waiters :
       \/ \E j \in Busy : WaitBegin(w, j)
       \/ WaitDone(w) \/ WaitCtxDone(w) \/ WaitReturn(w)

\* A goroutine inside a registry method is eventually scheduled; a client that
\* ranges over its channel keeps receiving.
Fairness ==
  /\ \A f \in Finishers : WF_vars(MarkTerminal(f))
  /\ \A c \in Clients : WF_vars(Receive(c))
  /\ \A w \in Waiters : WF_vars(WaitDone(w)) /\ WF_vars(WaitReturn(w))

Spec == Init /\ [][Next]_vars /\ Fairness

-----------------------------------------------------------------------------
(* Properties.                                                               *)

\* The types of the registry's state (registry.go, types Registry and entry).
TypeOK ==
  /\ known \in SUBSET Jobs
  /\ tracked \in SUBSET known
  /\ entry \in [Jobs -> Entries]
  /\ older \in SUBSET (tracked \X tracked)
  /\ early \in SUBSET Jobs
  /\ closedDone \in SUBSET (Jobs \X Nat)
  /\ sub \in [Clients -> Subscriptions]
  /\ fin \in [Finishers -> FinishCalls]
  /\ wait \in [Waiters -> WaitCalls]

\* Subscribe takes the snapshot and registers the channel in one critical
\* section, so a client that never let its buffer overflow sees every event
\* exactly once and in order: what it has seen and what is in its channel
\* reach up to the job's last event, with no gap and no repetition, whatever
\* is published, finished or reopened around it.
GapFreeDelivery ==
  \A c \in Clients :
    LET s == sub[c] e == entry[s.job] IN
    s.pc = "reading" /\ c \in e.subscribers /\ ~s.dropped
      => /\ \A i \in 1..Len(s.queue) : s.queue[i] = s.last + i
         /\ s.last + Len(s.queue) = e.nextSeq

\* Cleanup removes terminal entries only and markTerminal closes every
\* channel, so no client is left reading a channel that nobody can close: an
\* open channel belongs to a tracked job that is not terminal.
NoStrandedSubscriber ==
  \A c \in Clients :
    sub[c].pc = "reading" /\ ~sub[c].closed
      => /\ sub[c].job \in tracked
         /\ ~entry[sub[c].job].terminal
         /\ c \in entry[sub[c].job].subscribers

\* A caller blocked in Wait can still be woken: the done channel it captured
\* was closed, or it is the one that the next markTerminal of a tracked,
\* active job will close. The only thing that can strand it is a Reopen of a
\* job that was not terminal, because Reopen replaces the channel unclosed.
WaitersWakeable ==
  \A w \in Waiters :
    LET j == wait[w].job IN
    wait[w].pc = "blocked" /\ j \notin early
      => \/ <<j, wait[w].done>> \in closedDone
         \/ j \in tracked /\ ~entry[j].terminal /\ entry[j].done = wait[w].done

\* The replay log of a job is the unbroken run of its most recent events, and
\* holds MaxEvents of them once that many were published (Publish's trimming).
ReplayWindow ==
  \A j \in tracked :
    LET e == entry[j] IN
    /\ Len(e.events) = Lesser(e.nextSeq, MaxEvents)
    /\ \A i \in 1..Len(e.events) :
         e.events[i] = e.nextSeq - Len(e.events) + i

\* "Active jobs are control-plane state, not cache entries": a job that is not
\* terminal is never dropped, however far the registry exceeds its target.
ActiveNeverEvicted ==
  [][\A j \in tracked : ~entry[j].terminal => j \in tracked']_vars

\* RegisterWithID cleans up first: right after it, the registry is back at its
\* target (plus the new job) or holds active jobs only.
RegisterRestoresTarget ==
  [][known' # known =>
       \/ Cardinality(tracked') <= MaxTracked + 1
       \/ \A j \in tracked' : ~entry'[j].terminal]_vars

\* While a job is terminal its log and its status are frozen: late publishers
\* and late finishers leave no trace. Only Reopen ends this.
TerminalFrozen ==
  [][\A j \in tracked \cap tracked' :
       entry[j].terminal /\ entry'[j].terminal
         => /\ entry'[j].status = entry[j].status
            /\ entry'[j].nextSeq = entry[j].nextSeq
            /\ entry'[j].events = entry[j].events]_vars

\* A finisher that has published its last event also ends the subscriptions of
\* the job, even when another finisher or Reopen comes between its two halves.
SubscriptionsEnd ==
  \A f \in Finishers, c \in Clients :
    (fin[f].pc = "mark" /\ sub[c].pc = "reading" /\ sub[c].job = fin[f].job)
      ~> (sub[c].pc = "ended")
=============================================================================
