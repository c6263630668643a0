-------------------------- MODULE JobRegistryProofs --------------------------
(***************************************************************************)
(* Proofs about JobRegistry, for every set of jobs, clients, finishers and *)
(* waiters, every size of the registry, of its logs and of its channels.   *)
(***************************************************************************)
EXTENDS JobRegistry, FiniteSetTheorems, SequenceTheorems, TLAPS

-----------------------------------------------------------------------------
(* The inductive invariant: the properties that the runs check, and what     *)
(* relates the two sides of a subscription and the order of updatedAt.       *)

\* A registered channel is open, read by its client, and of an active job.
SubInv ==
  \A j \in Jobs : \A c \in entry[j].subscribers :
    /\ sub[c].pc = "reading" /\ sub[c].job = j /\ ~sub[c].closed
    /\ j \in tracked /\ ~entry[j].terminal

\* updatedAt orders the tracked jobs totally, and there are finitely many.
OrderInv ==
  /\ IsFiniteSet(tracked)
  /\ \A i \in tracked : <<i, i>> \notin older
  /\ \A i, j \in tracked : i # j => (<<i, j>> \in older <=> <<j, i>> \notin older)
  /\ \A i, j, k \in tracked :
       <<i, j>> \in older /\ <<j, k>> \in older => <<i, k>> \in older

IInv ==
  /\ TypeOK /\ OrderInv /\ SubInv
  /\ GapFreeDelivery /\ NoStrandedSubscriber /\ ReplayWindow /\ WaitersWakeable

-----------------------------------------------------------------------------
(* Lemmas about the operators.                                               *)

\* Publish's trimming keeps the type, the bound, and the most recent events.
LEMMA RetainWindow ==
  ASSUME NEW events \in Seq(Nat), NEW n \in Nat,
         Len(events) = Lesser(n, MaxEvents),
         \A i \in 1..Len(events) : events[i] = n - Len(events) + i
  PROVE  LET kept == Retain(events, n + 1) IN
         /\ kept \in Seq(Nat)
         /\ Len(kept) = Lesser(n + 1, MaxEvents)
         /\ \A i \in 1..Len(kept) : kept[i] = (n + 1) - Len(kept) + i
<1> DEFINE all == Append(events, n + 1)
<1>0. MaxEvents \in Nat /\ MaxEvents > 0
  BY RegistryAssumption
<1>1. /\ Len(events) \in Nat /\ n + 1 \in Nat
      /\ Len(events) <= MaxEvents /\ Len(events) <= n
  BY <1>0, LenProperties DEF Lesser
<1>2. /\ all \in Seq(Nat) /\ Len(all) = Len(events) + 1
      /\ \A i \in 1..Len(events) : all[i] = events[i]
      /\ all[Len(events) + 1] = n + 1
  BY <1>1, AppendProperties
<1>3. \A i \in 1..Len(all) : all[i] = n - Len(events) + i
  <2> SUFFICES ASSUME NEW i \in 1..Len(all) PROVE all[i] = n - Len(events) + i
    OBVIOUS
  <2>1. CASE i = Len(events) + 1
    BY <1>1, <1>2, <2>1
  <2>2. CASE i # Len(events) + 1
    <3>1. i \in 1..Len(events)
      BY <1>1, <1>2, <2>2
    <3> QED
      BY <1>2, <3>1
  <2> QED
    BY <2>1, <2>2
<1> HIDE DEF all
<1>4. CASE Len(all) > MaxEvents
  <2> DEFINE m == Len(all) - MaxEvents + 1
             kept == SubSeq(all, m, Len(all))
  <2>1. Retain(events, n + 1) = kept
    BY <1>4 DEF Retain, all
  <2>2. /\ m \in Int /\ Len(all) \in Int /\ m <= Len(all) /\ m = 2
        /\ Len(all) - m + 1 = MaxEvents /\ Len(events) = MaxEvents
    BY <1>0, <1>1, <1>2, <1>4
  <2>3. \A i \in m..Len(all) : all[i] \in Nat
    <3>1. \A i \in 1..Len(all) : all[i] \in Nat
      BY <1>2, ElementOfSeq
    <3> QED
      BY <2>2, <3>1
  <2> HIDE DEF m
  <2>4. /\ kept \in Seq(Nat) /\ Len(kept) = MaxEvents
        /\ \A i \in 1..MaxEvents : kept[i] = all[m + i - 1]
    BY <2>2, <2>3, SubSeqProperties
  <2>5. Lesser(n + 1, MaxEvents) = MaxEvents
    BY <1>0, <1>1, <2>2 DEF Lesser
  <2>6. ASSUME NEW i \in 1..MaxEvents PROVE kept[i] = (n + 1) - MaxEvents + i
    <3>1. m + i - 1 \in 1..Len(all) /\ m + i - 1 = i + 1
      BY <1>0, <1>2, <2>2
    <3>2. kept[i] = n - Len(events) + (i + 1)
      BY <1>3, <2>4, <3>1
    <3> QED
      BY <1>0, <2>2, <3>2
  <2> HIDE DEF kept
  <2> QED
    BY <2>1, <2>4, <2>5, <2>6
<1>5. CASE Len(all) <= MaxEvents
  <2>1. Retain(events, n + 1) = all
    BY <1>0, <1>1, <1>2, <1>5 DEF Retain, all
  <2>2. Len(events) = n /\ Len(all) = Lesser(n + 1, MaxEvents)
    BY <1>0, <1>1, <1>2, <1>5 DEF Lesser
  <2>3. \A i \in 1..Len(all) : all[i] = (n + 1) - Len(all) + i
    BY <1>1, <1>2, <1>3, <2>2
  <2> QED
    BY <1>2, <2>1, <2>2, <2>3
<1> QED
  BY <1>0, <1>1, <1>2, <1>4, <1>5

\* A send appends the event, or notes that it was dropped; nothing else of the
\* subscription changes.
LEMMA OfferEffect ==
  ASSUME NEW s \in Subscriptions, NEW e \in Nat
  PROVE  LET o == Offer(s, e) IN
         /\ o \in Subscriptions
         /\ o.pc = s.pc /\ o.job = s.job /\ o.closed = s.closed /\ o.last = s.last
         /\ \/ o.dropped = TRUE
            \/ o.queue = Append(s.queue, e) /\ o.dropped = s.dropped
<1>1. s.queue \in Seq(Nat)
  BY DEF Subscriptions
<1>2. Append(s.queue, e) \in Seq(Nat)
  BY <1>1, AppendProperties
<1> DEFINE q == Append(s.queue, e)
<1>3. CASE Len(s.queue) < SubBuffer
  <2>1. Offer(s, e) = [s EXCEPT !.queue = q]
    BY <1>3 DEF Offer
  <2>2. q \in Seq(Nat)
    BY <1>2
  <2> HIDE DEF q
  <2>3. /\ [s EXCEPT !.queue = q] \in Subscriptions
        /\ [s EXCEPT !.queue = q].pc = s.pc
        /\ [s EXCEPT !.queue = q].job = s.job
        /\ [s EXCEPT !.queue = q].closed = s.closed
        /\ [s EXCEPT !.queue = q].last = s.last
        /\ [s EXCEPT !.queue = q].queue = q
        /\ [s EXCEPT !.queue = q].dropped = s.dropped
    BY <2>2 DEF Subscriptions
  <2> QED
    BY <2>1, <2>3 DEF q
<1>4. CASE ~(Len(s.queue) < SubBuffer)
  <2>1. Offer(s, e) = [s EXCEPT !.dropped = TRUE]
    BY <1>4 DEF Offer
  <2>2. /\ [s EXCEPT !.dropped = TRUE] \in Subscriptions
        /\ [s EXCEPT !.dropped = TRUE].pc = s.pc
        /\ [s EXCEPT !.dropped = TRUE].job = s.job
        /\ [s EXCEPT !.dropped = TRUE].closed = s.closed
        /\ [s EXCEPT !.dropped = TRUE].last = s.last
        /\ [s EXCEPT !.dropped = TRUE].dropped = TRUE
    BY DEF Subscriptions
  <2> QED
    BY <2>1, <2>2
<1> QED
  BY <1>3, <1>4

\* What cleanupLocked removes is terminal.
LEMMA EvictionTerminal ==
  ASSUME NEW S, NEW G \in OldestTerminal(S)
  PROVE  G \subseteq S /\ \A j \in G : entry[j].terminal
  BY DEF OldestTerminal, TerminalIn

\* The same of what evictOldestLocked removes after that.
LEMMA EvictedTerminal ==
  ASSUME NEW S, NEW G \in Evicted(S)
  PROVE  G \subseteq S /\ \A j \in G : entry[j].terminal
<1>1. G = {} \/ G \in OldestTerminal(S)
  BY DEF Evicted
<1> QED
  BY <1>1, EvictionTerminal

\* Touching a job makes it the most recent one.
LEMMA TouchOrder ==
  ASSUME TypeOK, OrderInv, NEW j \in tracked, UNCHANGED tracked, older' = Touch(j)
  PROVE  older' \in SUBSET (tracked \X tracked) /\ OrderInv'
<1>1. older \in SUBSET (tracked \X tracked)
  BY DEF TypeOK
<1>2. \A a, b \in tracked :
        <<a, b>> \in older' <=> \/ <<a, b>> \in older /\ a # j /\ b # j
                                \/ b = j /\ a # j
  BY DEF Touch, Without
<1>3. older' \in SUBSET (tracked \X tracked)
  BY <1>1 DEF Touch, Without
<1> QED
  BY <1>2, <1>3 DEF OrderInv

-----------------------------------------------------------------------------
(* What the steps do to the entries and the channels.                        *)

\* Types of the components of a well-typed state.
LEMMA EntryTypes ==
  ASSUME TypeOK, NEW j \in Jobs
  PROVE  /\ entry[j] \in Entries
         /\ entry[j].status \in Statuses /\ entry[j].events \in Seq(Nat)
         /\ entry[j].nextSeq \in Nat /\ entry[j].done \in Nat
         /\ entry[j].terminal \in BOOLEAN /\ entry[j].subscribers \subseteq Clients
  BY DEF TypeOK, Entries

\* An event is published to a tracked, active job: its number is the next one,
\* and it is offered to the registered channels.
LEMMA PublishEffect ==
  ASSUME IInv, NEW j \in Jobs, NEW st \in Statuses, PublishEvent(j, st)
  PROVE  /\ j \in tracked /\ ~entry[j].terminal
         /\ entry' \in [Jobs -> Entries]
         /\ \A i \in Jobs \ {j} : entry'[i] = entry[i]
         /\ entry'[j].nextSeq = entry[j].nextSeq + 1
         /\ entry'[j].events = Retain(entry[j].events, entry[j].nextSeq + 1)
         /\ entry'[j].done = entry[j].done /\ ~entry'[j].terminal
         /\ entry'[j].subscribers = entry[j].subscribers
         /\ sub' \in [Clients -> Subscriptions]
         /\ \A c \in Clients :
              IF c \in entry[j].subscribers
              THEN sub'[c] = Offer(sub[c], entry[j].nextSeq + 1)
              ELSE sub'[c] = sub[c]
<1> DEFINE n == entry[j].nextSeq + 1
           ev == Retain(entry[j].events, n)
           new == [entry[j] EXCEPT !.status = st, !.nextSeq = n, !.events = ev]
<1>1. TypeOK /\ j \in tracked /\ ~entry[j].terminal
  BY DEF IInv, PublishEvent
<1>2. /\ entry[j] \in Entries /\ entry[j].nextSeq \in Nat
      /\ entry[j].events \in Seq(Nat) /\ n \in Nat
      /\ entry \in [Jobs -> Entries] /\ sub \in [Clients -> Subscriptions]
  BY <1>1, EntryTypes DEF TypeOK
<1>3. ev \in Seq(Nat)
  <2>1. /\ Len(entry[j].events) = Lesser(entry[j].nextSeq, MaxEvents)
        /\ \A i \in 1..Len(entry[j].events) :
             entry[j].events[i] = entry[j].nextSeq - Len(entry[j].events) + i
    BY <1>1 DEF IInv, ReplayWindow
  <2> QED
    BY <1>2, <2>1, RetainWindow
<1>4. entry' = [entry EXCEPT ![j] = new]
  BY <1>2 DEF PublishEvent
<1>5. sub' = [c \in Clients |->
                IF c \in entry[j].subscribers THEN Offer(sub[c], n) ELSE sub[c]]
  BY DEF PublishEvent
<1>6. sub' \in [Clients -> Subscriptions]
  <2>1. \A c \in Clients : Offer(sub[c], n) \in Subscriptions
    BY <1>2, OfferEffect
  <2> HIDE DEF n
  <2> QED
    BY <1>2, <1>5, <2>1
<1> HIDE DEF ev
<1>7. /\ new \in Entries /\ new.nextSeq = n /\ new.events = ev
      /\ new.done = entry[j].done /\ new.terminal = entry[j].terminal
      /\ new.subscribers = entry[j].subscribers
  BY <1>2, <1>3 DEF Entries
<1> HIDE DEF new
<1>8. /\ entry' \in [Jobs -> Entries] /\ entry'[j] = new
      /\ \A i \in Jobs \ {j} : entry'[i] = entry[i]
  BY <1>2, <1>4, <1>7
<1>9. \A c \in Clients :
        IF c \in entry[j].subscribers THEN sub'[c] = Offer(sub[c], n)
                                      ELSE sub'[c] = sub[c]
  BY <1>5
<1> QED
  BY <1>1, <1>6, <1>7, <1>8, <1>9 DEF ev

\* Publishing keeps the invariant, whoever publishes.
LEMMA PublishInv ==
  ASSUME IInv, NEW j \in Jobs, NEW st \in Statuses, PublishEvent(j, st),
         UNCHANGED <<tracked, known, early, closedDone, wait>>,
         fin' = fin \/ fin' \in [Finishers -> FinishCalls]
  PROVE  IInv'
<1> DEFINE n == entry[j].nextSeq
<1>0. TypeOK /\ OrderInv /\ n \in Nat /\ entry[j].events \in Seq(Nat)
  BY EntryTypes DEF IInv
<1>1. /\ j \in tracked /\ ~entry[j].terminal
      /\ entry' \in [Jobs -> Entries]
      /\ \A i \in Jobs \ {j} : entry'[i] = entry[i]
      /\ entry'[j].nextSeq = n + 1
      /\ entry'[j].events = Retain(entry[j].events, n + 1)
      /\ entry'[j].done = entry[j].done /\ ~entry'[j].terminal
      /\ entry'[j].subscribers = entry[j].subscribers
      /\ sub' \in [Clients -> Subscriptions]
      /\ \A c \in Clients :
           IF c \in entry[j].subscribers THEN sub'[c] = Offer(sub[c], n + 1)
                                         ELSE sub'[c] = sub[c]
  BY PublishEffect
<1>2. older' \in SUBSET (tracked \X tracked) /\ OrderInv'
  BY <1>0, <1>1, TouchOrder DEF PublishEvent
<1>3. TypeOK'
  BY <1>0, <1>1, <1>2 DEF TypeOK
<1>4. \A i \in Jobs : /\ entry'[i].subscribers = entry[i].subscribers
                      /\ entry'[i].done = entry[i].done
                      /\ i \in tracked => (entry'[i].terminal <=> entry[i].terminal)
  BY <1>1
<1>5. \A c \in Clients :
        /\ sub'[c].pc = sub[c].pc /\ sub'[c].job = sub[c].job
        /\ sub'[c].closed = sub[c].closed /\ sub'[c].last = sub[c].last
        /\ c \notin entry[j].subscribers => sub'[c] = sub[c]
        /\ c \in entry[j].subscribers /\ ~sub'[c].dropped =>
             /\ ~sub[c].dropped /\ sub'[c].queue = Append(sub[c].queue, n + 1)
  <2> SUFFICES ASSUME NEW c \in Clients
               PROVE  /\ sub'[c].pc = sub[c].pc /\ sub'[c].job = sub[c].job
                      /\ sub'[c].closed = sub[c].closed /\ sub'[c].last = sub[c].last
                      /\ c \notin entry[j].subscribers => sub'[c] = sub[c]
                      /\ c \in entry[j].subscribers /\ ~sub'[c].dropped =>
                           /\ ~sub[c].dropped
                           /\ sub'[c].queue = Append(sub[c].queue, n + 1)
    OBVIOUS
  <2>1. sub[c] \in Subscriptions /\ n + 1 \in Nat
    BY <1>0 DEF TypeOK
  <2>2. CASE c \in entry[j].subscribers
    <3> DEFINE e == n + 1
               o == Offer(sub[c], e)
    <3>1. sub'[c] = o /\ e \in Nat
      BY <1>1, <2>1, <2>2
    <3> HIDE DEF e
    <3>2. /\ o.pc = sub[c].pc /\ o.job = sub[c].job
          /\ o.closed = sub[c].closed /\ o.last = sub[c].last
          /\ \/ o.dropped = TRUE
             \/ o.queue = Append(sub[c].queue, e) /\ o.dropped = sub[c].dropped
      BY <2>1, <3>1, OfferEffect
    <3> HIDE DEF o
    <3> QED
      BY <2>2, <3>1, <3>2, Zenon DEF e
  <2>3. CASE c \notin entry[j].subscribers
    BY <1>1, <2>3
  <2> QED
    BY <2>2, <2>3
<1>6. SubInv'
  <2>1. \A i \in Jobs : entry[i].subscribers \subseteq Clients
    BY <1>0, EntryTypes
  <2> QED
    BY <1>4, <1>5, <2>1 DEF IInv, SubInv
<1>7. NoStrandedSubscriber'
  <2>1. \A c \in Clients : sub[c].job \in Jobs
    BY <1>0 DEF TypeOK, Subscriptions
  <2> QED
    BY <1>4, <1>5, <2>1 DEF IInv, NoStrandedSubscriber
<1>8. WaitersWakeable'
  <2>1. \A w \in Waiters : wait[w].job \in Jobs
    BY <1>0 DEF TypeOK, WaitCalls
  <2> QED
    BY <1>4, <2>1 DEF IInv, WaitersWakeable
<1>9. ReplayWindow'
  <2>1. tracked \subseteq Jobs
    BY <1>0 DEF TypeOK
  <2>2. /\ Len(entry[j].events) = Lesser(n, MaxEvents)
        /\ \A i \in 1..Len(entry[j].events) :
             entry[j].events[i] = n - Len(entry[j].events) + i
    BY <1>1 DEF IInv, ReplayWindow
  <2> DEFINE kept == Retain(entry[j].events, n + 1)
  <2>3. /\ Len(kept) = Lesser(n + 1, MaxEvents)
        /\ \A i \in 1..Len(kept) : kept[i] = (n + 1) - Len(kept) + i
    BY <1>0, <2>2, RetainWindow
  <2>4. entry'[j].events = kept /\ entry'[j].nextSeq = n + 1
    BY <1>1
  <2> HIDE DEF kept, n
  <2> QED
    BY <1>1, <2>1, <2>3, <2>4 DEF IInv, ReplayWindow
<1>10. GapFreeDelivery'
  <2> SUFFICES ASSUME NEW c \in Clients, sub'[c].pc = "reading",
                      c \in entry'[sub'[c].job].subscribers, ~sub'[c].dropped
               PROVE  /\ \A i \in 1..Len(sub'[c].queue) :
                           sub'[c].queue[i] = sub'[c].last + i
                      /\ sub'[c].last + Len(sub'[c].queue) = entry'[sub'[c].job].nextSeq
    BY DEF GapFreeDelivery
  <2>1. sub[c] \in Subscriptions
    BY <1>0 DEF TypeOK
  <2>2. /\ sub[c].queue \in Seq(Nat) /\ sub[c].last \in Nat /\ sub[c].job \in Jobs
    BY <2>1 DEF Subscriptions
  <2>3. c \in entry[sub[c].job].subscribers
    BY <1>4, <1>5, <2>2
  <2>4. ~sub[c].dropped
    BY <1>5
  <2>5. /\ \A i \in 1..Len(sub[c].queue) : sub[c].queue[i] = sub[c].last + i
        /\ sub[c].last + Len(sub[c].queue) = entry[sub[c].job].nextSeq
    BY <1>5, <2>3, <2>4 DEF IInv, GapFreeDelivery
  <2>6. CASE sub[c].job = j
    <3>1. /\ sub'[c].queue = Append(sub[c].queue, n + 1) /\ sub'[c].last = sub[c].last
          /\ sub'[c].job = j
      BY <1>5, <2>3, <2>6
    <3>2. /\ Len(sub'[c].queue) = Len(sub[c].queue) + 1
          /\ \A i \in 1..Len(sub[c].queue) : sub'[c].queue[i] = sub[c].queue[i]
          /\ sub'[c].queue[Len(sub[c].queue) + 1] = n + 1
      BY <1>0, <2>2, <3>1, AppendProperties
    <3>3. Len(sub[c].queue) \in Nat /\ n = sub[c].last + Len(sub[c].queue)
      BY <2>2, <2>5, <2>6, LenProperties
    <3>4. ASSUME NEW i \in 1..Len(sub'[c].queue)
          PROVE  sub'[c].queue[i] = sub'[c].last + i
      <4>1. CASE i = Len(sub[c].queue) + 1
        <5>1. sub'[c].queue[i] = n + 1
          BY <3>2, <4>1
        <5>2. n + 1 = sub[c].last + i
          <6> HIDE DEF n
          <6> QED
            BY <2>2, <3>3, <4>1
        <5> QED
          BY <3>1, <5>1, <5>2
      <4>2. CASE i # Len(sub[c].queue) + 1
        <5>1. i \in 1..Len(sub[c].queue)
          BY <3>2, <3>3, <4>2
        <5> QED
          BY <2>5, <3>1, <3>2, <5>1
      <4> QED
        BY <4>1, <4>2
    <3>5. sub'[c].last + Len(sub'[c].queue) = n + 1
      BY <2>2, <3>1, <3>2, <3>3
    <3> QED
      BY <1>1, <3>1, <3>4, <3>5
  <2>7. CASE sub[c].job # j
    <3>1. c \notin entry[j].subscribers
      BY <2>7 DEF IInv, SubInv
    <3>2. sub'[c] = sub[c] /\ entry'[sub[c].job] = entry[sub[c].job]
      BY <1>1, <1>5, <2>2, <2>7, <3>1
    <3> QED
      BY <2>5, <3>2
  <2> QED
    BY <2>6, <2>7
<1> QED
  BY <1>2, <1>3, <1>6, <1>7, <1>8, <1>9, <1>10 DEF IInv

\* A step that touches a tracked job and leaves its log, its channels and the
\* subscriptions alone.
LEMMA EntryChange ==
  ASSUME IInv, NEW j \in tracked, NEW v \in Entries,
         entry' = [entry EXCEPT ![j] = v],
         v.nextSeq = entry[j].nextSeq, v.events = entry[j].events,
         v.subscribers = entry[j].subscribers,
         v.terminal => entry[j].terminal,
         older' = Touch(j), UNCHANGED <<tracked, known, closedDone, sub, fin, wait>>,
         early' \in SUBSET Jobs, WaitersWakeable'
  PROVE  IInv'
<1>1. TypeOK /\ OrderInv /\ tracked \subseteq Jobs /\ j \in Jobs
      /\ entry \in [Jobs -> Entries]
  BY DEF IInv, TypeOK
<1>2. /\ entry' \in [Jobs -> Entries] /\ entry'[j] = v
      /\ \A i \in Jobs \ {j} : entry'[i] = entry[i]
  BY <1>1
<1>3. older' \in SUBSET (tracked \X tracked) /\ OrderInv'
  BY <1>1, TouchOrder
<1>4. TypeOK'
  BY <1>1, <1>2, <1>3 DEF TypeOK
<1>5. \A i \in Jobs : /\ entry'[i].subscribers = entry[i].subscribers
                      /\ entry'[i].nextSeq = entry[i].nextSeq
                      /\ entry'[i].events = entry[i].events
                      /\ ~entry[i].terminal => ~entry'[i].terminal
  BY <1>2
<1>6. \A c \in Clients : sub[c].job \in Jobs
  BY <1>1 DEF TypeOK, Subscriptions
<1>7. SubInv' /\ NoStrandedSubscriber'
  BY <1>5, <1>6 DEF IInv, SubInv, NoStrandedSubscriber
<1>8. GapFreeDelivery'
  BY <1>5, <1>6 DEF IInv, GapFreeDelivery
<1>9. ReplayWindow'
  BY <1>1, <1>5 DEF IInv, ReplayWindow
<1> QED
  BY <1>3, <1>4, <1>7, <1>8, <1>9 DEF IInv

\* AttachCancel.
LEMMA AttachCancelStep == ASSUME IInv, NEW j \in Jobs, AttachCancel(j) PROVE IInv'
<1> DEFINE v == [entry[j] EXCEPT !.cancel = TRUE]
<1>1. TypeOK /\ entry \in [Jobs -> Entries] /\ entry[j] \in Entries
  BY DEF IInv, TypeOK
<1>2. entry' = [entry EXCEPT ![j] = v]
  BY <1>1 DEF AttachCancel
<1>3. /\ v \in Entries /\ v.nextSeq = entry[j].nextSeq /\ v.events = entry[j].events
      /\ v.subscribers = entry[j].subscribers /\ v.terminal = entry[j].terminal
      /\ v.done = entry[j].done
  BY <1>1 DEF Entries
<1> HIDE DEF v
<1>4. \A i \in Jobs : /\ entry'[i].terminal = entry[i].terminal
                      /\ entry'[i].done = entry[i].done
  BY <1>1, <1>2, <1>3
<1>5. WaitersWakeable'
  <2>1. \A w \in Waiters : wait[w].job \in Jobs
    BY <1>1 DEF TypeOK, WaitCalls
  <2> QED
    BY <1>4, <2>1 DEF AttachCancel, IInv, WaitersWakeable
<1>6. early' \in SUBSET Jobs
  BY <1>1 DEF AttachCancel, TypeOK
<1> QED
  BY <1>2, <1>3, <1>5, <1>6, EntryChange DEF AttachCancel

\* Reopen. The channel of a terminal job was closed when it became terminal;
\* of one that was not, the waiters are given up.
LEMMA ReopenStep == ASSUME IInv, NEW j \in Jobs, Reopen(j) PROVE IInv'
<1> DEFINE d == entry[j].done + 1
           v == [entry[j] EXCEPT !.terminal = FALSE, !.status = "running",
                                 !.done = d]
<1>1. /\ TypeOK /\ entry \in [Jobs -> Entries] /\ entry[j] \in Entries
      /\ entry[j].done \in Nat /\ entry[j].terminal \in BOOLEAN
  BY EntryTypes DEF IInv, TypeOK
<1>2. entry' = [entry EXCEPT ![j] = v]
  BY <1>1 DEF Reopen
<1>3. d \in Nat
  BY <1>1
<1> HIDE DEF d
<1>4. /\ v \in Entries /\ v.nextSeq = entry[j].nextSeq /\ v.events = entry[j].events
      /\ v.subscribers = entry[j].subscribers /\ ~v.terminal
  BY <1>1, <1>3 DEF Entries, Statuses
<1> HIDE DEF v
<1>5. \A i \in Jobs \ {j} : entry'[i] = entry[i]
  BY <1>1, <1>2
<1>6. /\ early' \in SUBSET Jobs /\ early \subseteq early'
      /\ ~entry[j].terminal => j \in early'
  <2>1. CASE entry[j].terminal
    BY <1>1, <2>1 DEF Reopen, TypeOK
  <2>2. CASE ~entry[j].terminal
    BY <1>1, <2>2 DEF Reopen, TypeOK
  <2> QED
    BY <2>1, <2>2
<1>7. WaitersWakeable'
  <2> SUFFICES ASSUME NEW w \in Waiters, wait[w].pc = "blocked",
                      wait[w].job \notin early'
               PROVE  \/ <<wait[w].job, wait[w].done>> \in closedDone
                      \/ /\ wait[w].job \in tracked /\ ~entry'[wait[w].job].terminal
                         /\ entry'[wait[w].job].done = wait[w].done
    BY DEF Reopen, WaitersWakeable
  <2>1. wait[w].job \in Jobs
    BY <1>1 DEF TypeOK, WaitCalls
  <2>2. \/ <<wait[w].job, wait[w].done>> \in closedDone
        \/ /\ wait[w].job \in tracked /\ ~entry[wait[w].job].terminal
           /\ entry[wait[w].job].done = wait[w].done
    BY <1>6 DEF IInv, WaitersWakeable
  <2> QED
    BY <1>5, <1>6, <2>1, <2>2
<1> QED
  BY <1>2, <1>4, <1>6, <1>7, EntryChange DEF Reopen

\* markTerminal: the channels of the job are closed with it.
LEMMA MarkTerminalStep == ASSUME IInv, NEW f \in Finishers, MarkTerminal(f) PROVE IInv'
<1> DEFINE j == fin[f].job
<1>1. /\ TypeOK /\ OrderInv /\ fin \in [Finishers -> FinishCalls]
      /\ tracked \subseteq Jobs
  BY DEF IInv, TypeOK
<1>2. j \in Jobs /\ fin[f].status \in FinalStatuses
  BY <1>1 DEF FinishCalls
<1>3. fin' \in [Finishers -> FinishCalls]
  BY <1>1 DEF MarkTerminal, FinishCalls
<1>4. UNCHANGED <<tracked, known, early, wait>>
  BY DEF MarkTerminal
<1>5. CASE UNCHANGED <<entry, older, closedDone, sub>>
  <2>1. TypeOK'
    BY <1>1, <1>3, <1>4, <1>5 DEF TypeOK
  <2>2. OrderInv' /\ SubInv' /\ NoStrandedSubscriber' /\ WaitersWakeable'
    BY <1>4, <1>5 DEF IInv, OrderInv, SubInv, NoStrandedSubscriber, WaitersWakeable
  <2>3. GapFreeDelivery' /\ ReplayWindow'
    BY <1>4, <1>5 DEF IInv, GapFreeDelivery, ReplayWindow
  <2> QED
    BY <2>1, <2>2, <2>3 DEF IInv
<1>6. ASSUME j \in tracked, ~entry[j].terminal,
             entry' = [entry EXCEPT ![j].status = fin[f].status,
                                    ![j].terminal = TRUE,
                                    ![j].subscribers = {}],
             older' = Touch(j),
             closedDone' = closedDone \cup {<<j, entry[j].done>>},
             sub' = [c \in Clients |->
                       IF c \in entry[j].subscribers
                       THEN [sub[c] EXCEPT !.closed = TRUE] ELSE sub[c]]
      PROVE  IInv'
  <2> DEFINE v == [entry[j] EXCEPT !.status = fin[f].status, !.terminal = TRUE,
                                   !.subscribers = {}]
  <2>1. /\ entry \in [Jobs -> Entries] /\ entry[j] \in Entries
        /\ entry[j].done \in Nat /\ sub \in [Clients -> Subscriptions]
    BY <1>1, <1>2, EntryTypes DEF TypeOK
  <2>2. entry' = [entry EXCEPT ![j] = v]
    BY <1>6, <2>1
  <2>3. /\ v \in Entries /\ v.nextSeq = entry[j].nextSeq /\ v.events = entry[j].events
        /\ v.subscribers = {} /\ v.terminal = TRUE /\ v.done = entry[j].done
    BY <1>2, <2>1 DEF Entries, Statuses
  <2> HIDE DEF v
  <2>4. /\ entry' \in [Jobs -> Entries] /\ entry'[j] = v
        /\ \A i \in Jobs \ {j} : entry'[i] = entry[i]
    BY <1>2, <2>1, <2>2, <2>3
  <2>5. \A c \in Clients :
          /\ [sub[c] EXCEPT !.closed = TRUE] \in Subscriptions
          /\ [sub[c] EXCEPT !.closed = TRUE].closed = TRUE
    BY <2>1 DEF Subscriptions
  <2>6. sub' \in [Clients -> Subscriptions]
    BY <1>6, <2>1, <2>5
  <2>7. \A c \in Clients :
          /\ c \in entry[j].subscribers => sub'[c].closed = TRUE
          /\ c \notin entry[j].subscribers => sub'[c] = sub[c]
    BY <1>6, <2>5
  <2>8. older' \in SUBSET (tracked \X tracked) /\ OrderInv'
    BY <1>1, <1>4, <1>6, TouchOrder
  <2>9. closedDone' \in SUBSET (Jobs \X Nat)
    BY <1>1, <1>2, <1>6, <2>1 DEF TypeOK
  <2>10. TypeOK'
    BY <1>1, <1>3, <1>4, <2>4, <2>6, <2>8, <2>9 DEF TypeOK
  <2>11. \A i \in Jobs, c \in Clients :
           c \in entry'[i].subscribers =>
             /\ i # j /\ c \in entry[i].subscribers /\ c \notin entry[j].subscribers
             /\ sub'[c] = sub[c] /\ sub[c].job = i
    BY <1>2, <2>3, <2>4, <2>7 DEF IInv, SubInv
  <2>12. \A i \in Jobs : entry'[i].subscribers \subseteq Clients
    BY <2>4 DEF Entries
  <2>13. SubInv'
    BY <1>4, <2>4, <2>11, <2>12 DEF IInv, SubInv
  <2>14. NoStrandedSubscriber'
    <3> SUFFICES ASSUME NEW c \in Clients, sub'[c].pc = "reading", ~sub'[c].closed
                 PROVE  /\ sub'[c].job \in tracked
                        /\ ~entry'[sub'[c].job].terminal
                        /\ c \in entry'[sub'[c].job].subscribers
      BY <1>4 DEF NoStrandedSubscriber
    <3>1. c \notin entry[j].subscribers /\ sub'[c] = sub[c]
      BY <2>7
    <3>2. /\ sub[c].job \in tracked /\ ~entry[sub[c].job].terminal
          /\ c \in entry[sub[c].job].subscribers
      BY <3>1 DEF IInv, NoStrandedSubscriber
    <3>3. sub[c].job # j /\ sub[c].job \in Jobs
      BY <1>1, <3>1, <3>2
    <3> QED
      BY <2>4, <3>1, <3>2, <3>3
  <2>15. WaitersWakeable'
    <3> SUFFICES ASSUME NEW w \in Waiters, wait[w].pc = "blocked",
                        wait[w].job \notin early
                 PROVE  \/ <<wait[w].job, wait[w].done>> \in closedDone'
                        \/ /\ wait[w].job \in tracked /\ ~entry'[wait[w].job].terminal
                           /\ entry'[wait[w].job].done = wait[w].done
      BY <1>4 DEF WaitersWakeable
    <3>1. \/ <<wait[w].job, wait[w].done>> \in closedDone
          \/ /\ wait[w].job \in tracked /\ ~entry[wait[w].job].terminal
             /\ entry[wait[w].job].done = wait[w].done
      BY DEF IInv, WaitersWakeable
    <3>2. CASE wait[w].job = j
      BY <1>6, <3>1, <3>2
    <3>3. CASE wait[w].job # j
      BY <1>1, <1>6, <2>4, <3>1, <3>3
    <3> QED
      BY <3>2, <3>3
  <2>16. ReplayWindow'
    <3>1. \A i \in tracked : /\ entry'[i].nextSeq = entry[i].nextSeq
                             /\ entry'[i].events = entry[i].events
      BY <1>1, <2>3, <2>4
    <3> QED
      BY <1>4, <3>1 DEF IInv, ReplayWindow
  <2>17. GapFreeDelivery'
    <3> SUFFICES ASSUME NEW c \in Clients, sub'[c].pc = "reading",
                        c \in entry'[sub'[c].job].subscribers, ~sub'[c].dropped
                 PROVE  /\ \A i \in 1..Len(sub'[c].queue) :
                             sub'[c].queue[i] = sub'[c].last + i
                        /\ sub'[c].last + Len(sub'[c].queue)
                             = entry'[sub'[c].job].nextSeq
      BY DEF GapFreeDelivery
    <3>1. sub'[c].job \in Jobs
      BY <2>6 DEF Subscriptions
    <3>2. /\ sub'[c] = sub[c] /\ sub[c].job # j
          /\ c \in entry[sub[c].job].subscribers
      BY <2>11, <3>1
    <3>3. entry'[sub[c].job] = entry[sub[c].job]
      BY <2>4, <3>1, <3>2
    <3> QED
      BY <3>2, <3>3 DEF IInv, GapFreeDelivery
  <2> QED
    BY <2>8, <2>10, <2>13, <2>14, <2>15, <2>16, <2>17 DEF IInv
<1> QED
  BY <1>5, <1>6 DEF MarkTerminal

-----------------------------------------------------------------------------
(* Clients.                                                                  *)

\* The subscription s of client c, with S the subscribers of job j, agree with
\* each other and with the job.
Consistent(c, s, j, S) ==
  /\ S \ {c} = entry[j].subscribers \ {c}
  /\ \A i \in Jobs : c \in (IF i = j THEN S ELSE entry[i].subscribers) =>
       /\ s.pc = "reading" /\ s.job = i /\ ~s.closed
       /\ i \in tracked /\ ~entry[i].terminal
  /\ s.pc = "reading" /\ ~s.closed =>
       /\ s.job \in tracked /\ ~entry[s.job].terminal
       /\ c \in (IF s.job = j THEN S ELSE entry[s.job].subscribers)
  /\ /\ s.pc = "reading" /\ ~s.dropped
     /\ c \in (IF s.job = j THEN S ELSE entry[s.job].subscribers)
     => /\ \A i \in 1..Len(s.queue) : s.queue[i] = s.last + i
        /\ s.last + Len(s.queue) = entry[s.job].nextSeq

\* A step of one client, which may change who subscribes to one job.
LEMMA ClientStep ==
  ASSUME IInv, NEW c \in Clients, NEW s \in Subscriptions,
         NEW j \in Jobs, NEW S \in SUBSET Clients,
         sub' = [sub EXCEPT ![c] = s],
         entry' = [entry EXCEPT ![j] = [entry[j] EXCEPT !.subscribers = S]],
         UNCHANGED <<tracked, known, older, early, closedDone, fin, wait>>,
         Consistent(c, s, j, S)
  PROVE  IInv'
<1> USE DEF Consistent
<1> DEFINE v == [entry[j] EXCEPT !.subscribers = S]
<1>1. /\ TypeOK /\ OrderInv /\ tracked \subseteq Jobs
      /\ entry \in [Jobs -> Entries] /\ entry[j] \in Entries
      /\ sub \in [Clients -> Subscriptions]
  BY DEF IInv, TypeOK
<1>2. /\ v \in Entries /\ v.subscribers = S
      /\ v.nextSeq = entry[j].nextSeq /\ v.events = entry[j].events
      /\ v.terminal = entry[j].terminal /\ v.done = entry[j].done
  BY <1>1 DEF Entries
<1>3. entry' = [entry EXCEPT ![j] = v]
  OBVIOUS
<1> HIDE DEF v
<1>4. /\ entry' \in [Jobs -> Entries]
      /\ \A i \in Jobs : /\ entry'[i].nextSeq = entry[i].nextSeq
                         /\ entry'[i].events = entry[i].events
                         /\ entry'[i].terminal = entry[i].terminal
                         /\ entry'[i].done = entry[i].done
                         /\ entry'[i].subscribers =
                              IF i = j THEN S ELSE entry[i].subscribers
  BY <1>1, <1>2, <1>3
<1>5. /\ sub' \in [Clients -> Subscriptions] /\ sub'[c] = s
      /\ \A d \in Clients \ {c} : sub'[d] = sub[d]
  BY <1>1
<1>6. TypeOK'
  BY <1>1, <1>4, <1>5 DEF TypeOK
<1>7. OrderInv'
  BY DEF IInv, OrderInv
<1>8. \A i \in Jobs, d \in Clients \ {c} :
        d \in entry'[i].subscribers <=> d \in entry[i].subscribers
  BY <1>4
<1>9. s.job \in Jobs /\ \A d \in Clients : sub[d].job \in Jobs
  BY <1>1 DEF Subscriptions
<1>10. SubInv'
  <2> SUFFICES ASSUME NEW i \in Jobs, NEW d \in entry'[i].subscribers
               PROVE  /\ sub'[d].pc = "reading" /\ sub'[d].job = i /\ ~sub'[d].closed
                      /\ i \in tracked /\ ~entry'[i].terminal
    BY DEF SubInv
  <2>1. d \in Clients
    BY <1>4 DEF Entries
  <2>2. CASE d = c
    BY <1>4, <1>5, <2>2
  <2>3. CASE d # c
    BY <1>4, <1>5, <1>8, <2>1, <2>3 DEF IInv, SubInv
  <2> QED
    BY <2>2, <2>3
<1>11. NoStrandedSubscriber'
  <2> SUFFICES ASSUME NEW d \in Clients, sub'[d].pc = "reading", ~sub'[d].closed
               PROVE  /\ sub'[d].job \in tracked /\ ~entry'[sub'[d].job].terminal
                      /\ d \in entry'[sub'[d].job].subscribers
    BY DEF NoStrandedSubscriber
  <2>1. CASE d = c
    BY <1>4, <1>5, <1>9, <2>1
  <2>2. CASE d # c
    BY <1>4, <1>5, <1>8, <1>9, <2>2 DEF IInv, NoStrandedSubscriber
  <2> QED
    BY <2>1, <2>2
<1>12. GapFreeDelivery'
  <2> SUFFICES ASSUME NEW d \in Clients, sub'[d].pc = "reading",
                      d \in entry'[sub'[d].job].subscribers, ~sub'[d].dropped
               PROVE  /\ \A i \in 1..Len(sub'[d].queue) :
                           sub'[d].queue[i] = sub'[d].last + i
                      /\ sub'[d].last + Len(sub'[d].queue) = entry'[sub'[d].job].nextSeq
    BY DEF GapFreeDelivery
  <2>1. CASE d = c
    BY <1>4, <1>5, <1>9, <2>1
  <2>2. CASE d # c
    BY <1>4, <1>5, <1>8, <1>9, <2>2 DEF IInv, GapFreeDelivery
  <2> QED
    BY <2>1, <2>2
<1>13. WaitersWakeable'
  <2>1. \A w \in Waiters : wait[w].job \in Jobs
    BY <1>1 DEF TypeOK, WaitCalls
  <2> QED
    BY <1>4, <2>1 DEF IInv, WaitersWakeable
<1>14. ReplayWindow'
  BY <1>1, <1>4 DEF IInv, ReplayWindow
<1> QED
  BY <1>6, <1>7, <1>10, <1>11, <1>12, <1>13, <1>14 DEF IInv

\* Rewriting a set of subscribers with itself changes nothing.
LEMMA SameSubscribers ==
  ASSUME TypeOK, NEW j \in Jobs, entry' = entry
  PROVE  entry' = [entry EXCEPT ![j] =
                     [entry[j] EXCEPT !.subscribers = entry[j].subscribers]]
<1>1. entry \in [Jobs -> Entries]
  BY DEF TypeOK
<1>2. [entry[j] EXCEPT !.subscribers = entry[j].subscribers] = entry[j]
  BY <1>1 DEF Entries
<1> QED
  BY <1>1, <1>2

\* Subscribe: the client knows all events so far, and gets those to come.
LEMMA SubscribeStep ==
  ASSUME IInv, NEW c \in Clients, NEW j \in Jobs, Subscribe(c, j) PROVE IInv'
<1> DEFINE t == entry[j].terminal
           s == [pc |-> "reading", job |-> j, queue |-> <<>>, closed |-> t,
                 last |-> entry[j].nextSeq, dropped |-> FALSE]
           S == IF t THEN entry[j].subscribers ELSE entry[j].subscribers \cup {c}
<1>1. /\ TypeOK /\ t \in BOOLEAN /\ entry[j].nextSeq \in Nat
      /\ entry[j].subscribers \subseteq Clients
  BY EntryTypes DEF IInv
<1>2. j \in tracked /\ sub[c].pc = "idle"
  BY DEF Subscribe
<1>3. s \in Subscriptions
  <2>1. <<>> \in Seq(Nat)
    BY EmptySeq
  <2> QED
    BY <1>1, <2>1 DEF Subscriptions
<1>4. sub' = [sub EXCEPT ![c] = s]
  BY DEF Subscribe
<1>5. /\ s.pc = "reading" /\ s.job = j /\ s.queue = <<>> /\ s.closed = t
      /\ s.last = entry[j].nextSeq
  OBVIOUS
<1>6. S \in SUBSET Clients /\ S \ {c} = entry[j].subscribers \ {c}
  BY <1>1
<1>7. \A i \in Jobs : c \notin entry[i].subscribers
  BY <1>2 DEF IInv, SubInv
<1>8. t => entry[j].subscribers = {}
  BY DEF IInv, SubInv
<1>9. entry' = [entry EXCEPT ![j] = [entry[j] EXCEPT !.subscribers = S]]
  <2>1. CASE t
    BY <1>1, <2>1, SameSubscribers DEF Subscribe
  <2>2. CASE ~t
    BY <1>1, <2>2 DEF Subscribe, TypeOK
  <2> QED
    BY <2>1, <2>2
<1>10. c \in S <=> ~t
  BY <1>7
<1>11. /\ \A i \in 1..Len(s.queue) : s.queue[i] = s.last + i
       /\ s.last + Len(s.queue) = entry[j].nextSeq
  <2>1. Len(s.queue) = 0
    BY <1>5
  <2> QED
    BY <1>1, <1>5, <2>1
<1> HIDE DEF s, S
<1>12. UNCHANGED <<tracked, known, older, early, closedDone, fin, wait>>
  BY DEF Subscribe
<1>13. Consistent(c, s, j, S)
  <2>1. \A i \in Jobs : c \in (IF i = j THEN S ELSE entry[i].subscribers) =>
          /\ s.pc = "reading" /\ s.job = i /\ ~s.closed
          /\ i \in tracked /\ ~entry[i].terminal
    BY <1>2, <1>5, <1>7, <1>10
  <2>2. ~s.closed => j \in tracked /\ ~entry[j].terminal /\ c \in S
    BY <1>2, <1>5, <1>10
  <2> QED
    BY <1>5, <1>6, <1>11, <2>1, <2>2 DEF Consistent
<1> QED
  BY <1>3, <1>4, <1>6, <1>9, <1>12, <1>13, ClientStep

\* The unsubscribe function.
LEMMA UnsubscribeStep == ASSUME IInv, NEW c \in Clients, Unsubscribe(c) PROVE IInv'
<1> DEFINE j == sub[c].job
           S == entry[j].subscribers \ {c}
           s == [sub[c] EXCEPT !.closed = TRUE, !.pc = "ended"]
<1>1. /\ TypeOK /\ sub \in [Clients -> Subscriptions] /\ sub[c] \in Subscriptions
      /\ j \in Jobs
  BY DEF IInv, TypeOK, Subscriptions
<1>2. /\ s \in Subscriptions /\ s.pc = "ended" /\ s.job = j
  BY <1>1 DEF Subscriptions
<1>3. sub' = [sub EXCEPT ![c] = s]
  BY <1>1 DEF Unsubscribe
<1>4. entry' = [entry EXCEPT ![j] = [entry[j] EXCEPT !.subscribers = S]]
  BY <1>1 DEF Unsubscribe, TypeOK
<1>5. S \in SUBSET Clients /\ S \ {c} = entry[j].subscribers \ {c} /\ c \notin S
  BY <1>1, EntryTypes
<1>6. \A i \in Jobs \ {j} : c \notin entry[i].subscribers
  BY DEF IInv, SubInv
<1>7. UNCHANGED <<tracked, known, older, early, closedDone, fin, wait>>
  BY DEF Unsubscribe
<1> HIDE DEF s, S, j
<1>8. Consistent(c, s, j, S)
  BY <1>2, <1>5, <1>6 DEF Consistent
<1> QED
  BY <1>1, <1>2, <1>3, <1>4, <1>5, <1>7, <1>8, ClientStep

\* A client takes an event: it is the next one.
LEMMA ReceiveStep == ASSUME IInv, NEW c \in Clients, Receive(c) PROVE IInv'
<1> DEFINE j == sub[c].job
           S == entry[j].subscribers
<1>1. /\ TypeOK /\ sub \in [Clients -> Subscriptions] /\ sub[c] \in Subscriptions
      /\ j \in Jobs /\ sub[c].queue \in Seq(Nat) /\ sub[c].last \in Nat
  BY DEF IInv, TypeOK, Subscriptions
<1>2. UNCHANGED <<tracked, known, entry, older, early, closedDone, fin, wait>>
  BY DEF Receive
<1>3. entry' = [entry EXCEPT ![j] = [entry[j] EXCEPT !.subscribers = S]]
  BY <1>1, <1>2, SameSubscribers
<1>4. S \in SUBSET Clients
  BY <1>1, EntryTypes
<1>5. \A i \in Jobs \ {j} : c \notin entry[i].subscribers
  BY DEF IInv, SubInv
<1>6. c \in S => ~sub[c].closed /\ j \in tracked /\ ~entry[j].terminal
  BY <1>1 DEF IInv, SubInv
<1>7. sub[c].pc = "reading"
  BY DEF Receive
<1>8. ~sub[c].closed => j \in tracked /\ ~entry[j].terminal /\ c \in S
  BY <1>7 DEF IInv, NoStrandedSubscriber
<1>9. c \in S /\ ~sub[c].dropped =>
        /\ \A i \in 1..Len(sub[c].queue) : sub[c].queue[i] = sub[c].last + i
        /\ sub[c].last + Len(sub[c].queue) = entry[j].nextSeq
  BY <1>7 DEF IInv, GapFreeDelivery
<1>10. CASE /\ sub[c].queue # <<>>
            /\ sub' = [sub EXCEPT ![c].queue = Tail(@),
                                  ![c].last = Head(sub[c].queue)]
  <2> DEFINE q == Tail(sub[c].queue)
             h == Head(sub[c].queue)
             s == [sub[c] EXCEPT !.queue = q, !.last = h]
  <2>1. sub' = [sub EXCEPT ![c] = s]
    BY <1>1, <1>10
  <2>2. /\ q \in Seq(Nat) /\ h \in Nat /\ Len(q) = Len(sub[c].queue) - 1
        /\ \A i \in 1..Len(q) : q[i] = sub[c].queue[i + 1]
    BY <1>1, <1>10, HeadTailProperties
  <2>3. h = sub[c].queue[1] /\ Len(sub[c].queue) \in Nat /\ Len(sub[c].queue) > 0
    BY <1>1, <1>10, LenProperties, EmptySeq
  <2> HIDE DEF q, h
  <2>4. /\ s \in Subscriptions /\ s.pc = sub[c].pc /\ s.job = j /\ s.queue = q
        /\ s.last = h /\ s.closed = sub[c].closed /\ s.dropped = sub[c].dropped
    BY <1>1, <2>2 DEF Subscriptions
  <2>5. c \in S /\ ~s.dropped =>
          /\ \A i \in 1..Len(s.queue) : s.queue[i] = s.last + i
          /\ s.last + Len(s.queue) = entry[j].nextSeq
    <3> SUFFICES ASSUME c \in S, ~s.dropped
                 PROVE  /\ \A i \in 1..Len(q) : q[i] = h + i
                        /\ h + Len(q) = entry[j].nextSeq
      BY <2>4
    <3>1. /\ \A i \in 1..Len(sub[c].queue) : sub[c].queue[i] = sub[c].last + i
          /\ sub[c].last + Len(sub[c].queue) = entry[j].nextSeq
      BY <1>9, <2>4
    <3>2. h = sub[c].last + 1
      BY <2>3, <3>1
    <3>3. ASSUME NEW i \in 1..Len(q) PROVE q[i] = h + i
      <4>1. i + 1 \in 1..Len(sub[c].queue) /\ i \in Nat
        BY <2>2, <2>3
      <4>2. q[i] = sub[c].last + (i + 1)
        BY <2>2, <3>1, <4>1
      <4>3. sub[c].last \in Nat
        BY <1>1
      <4> HIDE DEF s, j, S
      <4> QED
        BY <3>2, <4>1, <4>2, <4>3
    <3>4. h + Len(q) = entry[j].nextSeq
      <4>1. sub[c].last \in Nat
        BY <1>1
      <4>2. h + Len(q) = sub[c].last + Len(sub[c].queue)
        <5>1. Len(q) = Len(sub[c].queue) - 1 /\ Len(sub[c].queue) \in Nat
          BY <2>2, <2>3
        <5> HIDE DEF s, j, S
        <5> QED
          BY <3>2, <4>1, <5>1
      <4> QED
        BY <3>1, <4>2
    <3> QED
      BY <3>3, <3>4
  <2> HIDE DEF s, S, j
  <2>6. Consistent(c, s, j, S)
    <3>1. \A i \in Jobs : c \in (IF i = j THEN S ELSE entry[i].subscribers) =>
            /\ s.pc = "reading" /\ s.job = i /\ ~s.closed
            /\ i \in tracked /\ ~entry[i].terminal
      BY <1>5, <1>6, <1>7, <2>4
    <3>2. ~s.closed => j \in tracked /\ ~entry[j].terminal /\ c \in S
      BY <1>8, <2>4
    <3>3. S \ {c} = entry[j].subscribers \ {c}
      BY DEF S
    <3> QED
      BY <2>4, <2>5, <3>1, <3>2, <3>3 DEF Consistent
  <2> QED
    BY <1>1, <1>2, <1>3, <1>4, <2>1, <2>4, <2>6, ClientStep
<1>11. CASE /\ sub[c].queue = <<>> /\ sub[c].closed
            /\ sub' = [sub EXCEPT ![c].pc = "ended"]
  <2> DEFINE s == [sub[c] EXCEPT !.pc = "ended"]
  <2>1. sub' = [sub EXCEPT ![c] = s]
    BY <1>1, <1>11
  <2>2. s \in Subscriptions /\ s.pc = "ended" /\ s.job = j
    BY <1>1 DEF Subscriptions
  <2>3. c \notin S
    BY <1>6, <1>11
  <2>4. S \ {c} = entry[j].subscribers \ {c}
    OBVIOUS
  <2> HIDE DEF s, S, j
  <2>5. \A i \in Jobs : c \notin (IF i = j THEN S ELSE entry[i].subscribers)
    BY <1>5, <2>3
  <2>6. Consistent(c, s, j, S)
    BY <1>1, <2>2, <2>4, <2>5 DEF Consistent
  <2> QED
    BY <1>1, <1>2, <1>3, <1>4, <2>1, <2>2, <2>6, ClientStep
<1> QED
  BY <1>10, <1>11 DEF Receive
-----------------------------------------------------------------------------
(* Wait.                                                                     *)

\* A step of a Wait call: whoever blocks, blocks on the channel of an active job.
LEMMA WaitStep ==
  ASSUME IInv, NEW w \in Waiters, NEW v \in WaitCalls,
         wait' = [wait EXCEPT ![w] = v],
         v.pc = "blocked" => /\ v.job \in tracked /\ ~entry[v.job].terminal
                             /\ entry[v.job].done = v.done,
         UNCHANGED <<tracked, known, entry, older, early, closedDone, sub, fin>>
  PROVE  IInv'
<1>1. wait \in [Waiters -> WaitCalls]
  BY DEF IInv, TypeOK
<1>2. /\ wait' \in [Waiters -> WaitCalls] /\ wait'[w] = v
      /\ \A u \in Waiters \ {w} : wait'[u] = wait[u]
  BY <1>1
<1>3. TypeOK'
  BY <1>2 DEF IInv, TypeOK
<1>4. OrderInv' /\ SubInv' /\ NoStrandedSubscriber'
  BY DEF IInv, OrderInv, SubInv, NoStrandedSubscriber
<1>5. GapFreeDelivery' /\ ReplayWindow'
  BY DEF IInv, GapFreeDelivery, ReplayWindow
<1>6. WaitersWakeable'
  BY <1>2 DEF IInv, WaitersWakeable
<1> QED
  BY <1>3, <1>4, <1>5, <1>6 DEF IInv

\* Wait captures the done channel.
LEMMA WaitBeginStep ==
  ASSUME IInv, NEW w \in Waiters, NEW j \in Jobs, WaitBegin(w, j) PROVE IInv'
<1> DEFINE p == IF j \notin tracked THEN "returned"
                ELSE IF entry[j].terminal THEN "woken" ELSE "blocked"
           v == [pc |-> p, job |-> j, done |-> entry[j].done, ok |-> FALSE]
<1>1. entry[j].done \in Nat
  BY EntryTypes DEF IInv
<1>2. p \in {"blocked", "woken", "returned"}
  OBVIOUS
<1>3. p = "blocked" => j \in tracked /\ ~entry[j].terminal
  OBVIOUS
<1>4. wait' = [wait EXCEPT ![w] = v]
  BY DEF WaitBegin
<1> HIDE DEF p
<1>5. /\ v \in WaitCalls /\ v.pc = p /\ v.job = j /\ v.done = entry[j].done
  BY <1>1, <1>2 DEF WaitCalls
<1> HIDE DEF v
<1>6. UNCHANGED <<tracked, known, entry, older, early, closedDone, sub, fin>>
  BY DEF WaitBegin
<1>7. v.pc = "blocked" => /\ v.job \in tracked /\ ~entry[v.job].terminal
                          /\ entry[v.job].done = v.done
  BY <1>3, <1>5
<1> QED
  BY <1>4, <1>5, <1>6, <1>7, WaitStep

\* The rest of Wait: woken, given up, or returned.
LEMMA WaitRestStep ==
  ASSUME IInv, NEW w \in Waiters, WaitDone(w) \/ WaitCtxDone(w) \/ WaitReturn(w)
  PROVE  IInv'
<1>1. wait \in [Waiters -> WaitCalls] /\ wait[w] \in WaitCalls
  BY DEF IInv, TypeOK
<1>2. UNCHANGED <<tracked, known, entry, older, early, closedDone, sub, fin>>
  BY DEF WaitDone, WaitCtxDone, WaitReturn
<1>3. CASE WaitDone(w)
  <2> DEFINE v == [wait[w] EXCEPT !.pc = "woken"]
  <2>1. wait' = [wait EXCEPT ![w] = v]
    BY <1>1, <1>3 DEF WaitDone
  <2>2. v \in WaitCalls /\ v.pc = "woken"
    BY <1>1 DEF WaitCalls
  <2> HIDE DEF v
  <2> QED
    BY <1>2, <2>1, <2>2, WaitStep
<1>4. CASE WaitCtxDone(w)
  <2> DEFINE v == [wait[w] EXCEPT !.pc = "returned"]
  <2>1. wait' = [wait EXCEPT ![w] = v]
    BY <1>1, <1>4 DEF WaitCtxDone
  <2>2. v \in WaitCalls /\ v.pc = "returned"
    BY <1>1 DEF WaitCalls
  <2> HIDE DEF v
  <2> QED
    BY <1>2, <2>1, <2>2, WaitStep
<1>5. CASE WaitReturn(w)
  <2> DEFINE b == wait[w].job \in tracked
             v == [wait[w] EXCEPT !.pc = "returned", !.ok = b]
  <2>1. wait' = [wait EXCEPT ![w] = v]
    BY <1>1, <1>5 DEF WaitReturn
  <2>2. b \in BOOLEAN
    OBVIOUS
  <2> HIDE DEF b
  <2>3. v \in WaitCalls /\ v.pc = "returned"
    BY <1>1, <2>2 DEF WaitCalls
  <2> HIDE DEF v
  <2> QED
    BY <1>2, <2>1, <2>3, WaitStep
<1> QED
  BY <1>3, <1>4, <1>5

-----------------------------------------------------------------------------
(* Registration and cleanup.                                                 *)

\* RegisterWithID removes terminal jobs only and adds a fresh entry.
LEMMA RegisterStep == ASSUME IInv, NEW j \in Jobs, Register(j) PROVE IInv'
<1>0. PICK expired \in OldestTerminal(tracked) :
        \E evicted \in Evicted(tracked \ expired) :
          /\ tracked' = (tracked \ (expired \cup evicted)) \cup {j}
          /\ older' = Without(expired \cup evicted)
                        \cup {<<i, j>> : i \in tracked \ (expired \cup evicted)}
  BY DEF Register
<1>1. PICK evicted \in Evicted(tracked \ expired) :
        /\ tracked' = (tracked \ (expired \cup evicted)) \cup {j}
        /\ older' = Without(expired \cup evicted)
                      \cup {<<i, j>> : i \in tracked \ (expired \cup evicted)}
  BY <1>0
<1> DEFINE gone == expired \cup evicted
           stay == tracked \ gone
<1>2. gone \subseteq tracked /\ \A i \in gone : entry[i].terminal
  BY EvictionTerminal, EvictedTerminal
<1>3. /\ tracked' = stay \cup {j}
      /\ older' = Without(gone) \cup {<<i, j>> : i \in stay}
  BY <1>1
<1>4. stay \subseteq tracked /\ \A i \in tracked : ~entry[i].terminal => i \in stay
  BY <1>2
<1>5. /\ TypeOK /\ OrderInv /\ j \notin tracked /\ tracked \subseteq Jobs
      /\ known' = known \cup {j} /\ entry' = [entry EXCEPT ![j] = NewEntry]
      /\ UNCHANGED <<early, closedDone, sub, fin, wait>>
      /\ entry \in [Jobs -> Entries] /\ older \in SUBSET (tracked \X tracked)
  BY DEF IInv, TypeOK, Register
<1>6. \A a, b \in tracked' :
        <<a, b>> \in older' <=> \/ <<a, b>> \in older /\ a \in stay /\ b \in stay
                                \/ b = j /\ a \in stay
  BY <1>3, <1>5 DEF Without
<1>7. older' \in SUBSET (tracked' \X tracked')
  BY <1>3, <1>5 DEF Without
<1> HIDE DEF stay, gone
<1>8. IsFiniteSet(tracked')
  <2>1. IsFiniteSet(stay)
    BY <1>4, <1>5, FS_Subset DEF OrderInv
  <2> QED
    BY <1>3, <2>1, FS_AddElement
<1>9. OrderInv'
  BY <1>3, <1>4, <1>5, <1>6, <1>8 DEF OrderInv
<1>10. NewEntry \in Entries
  BY EmptySeq DEF NewEntry, Entries, Statuses
<1>11. /\ entry' \in [Jobs -> Entries] /\ entry'[j] = NewEntry
       /\ \A i \in Jobs \ {j} : entry'[i] = entry[i]
  BY <1>5, <1>10
<1>12. TypeOK'
  <2>1. known' \in SUBSET Jobs /\ tracked' \in SUBSET known'
    BY <1>3, <1>4, <1>5 DEF TypeOK
  <2> QED
    BY <1>5, <1>7, <1>11, <2>1 DEF TypeOK
<1>13. /\ NewEntry.subscribers = {} /\ NewEntry.nextSeq = 0
       /\ NewEntry.events = <<>> /\ ~NewEntry.terminal
  BY DEF NewEntry
<1>14. \A i \in Jobs : \A c \in entry'[i].subscribers :
         i # j /\ c \in entry[i].subscribers /\ entry'[i] = entry[i]
  BY <1>11, <1>13
<1>15. SubInv'
  BY <1>3, <1>4, <1>5, <1>14 DEF IInv, SubInv
<1>16. \A c \in Clients : sub[c].job \in Jobs
  BY <1>5 DEF TypeOK, Subscriptions
<1>17. NoStrandedSubscriber'
  BY <1>3, <1>4, <1>5, <1>11, <1>16 DEF IInv, NoStrandedSubscriber
<1>18. GapFreeDelivery'
  BY <1>5, <1>14, <1>16 DEF IInv, GapFreeDelivery
<1>19. WaitersWakeable'
  <2>1. \A w \in Waiters : wait[w].job \in Jobs
    BY <1>5 DEF TypeOK, WaitCalls
  <2> QED
    BY <1>3, <1>4, <1>5, <1>11, <2>1 DEF IInv, WaitersWakeable
<1>20. ReplayWindow'
  <2>1. /\ Len(entry'[j].events) = Lesser(entry'[j].nextSeq, MaxEvents)
        /\ \A i \in 1..Len(entry'[j].events) :
             entry'[j].events[i] = entry'[j].nextSeq - Len(entry'[j].events) + i
    <3>1. entry'[j].events = <<>> /\ entry'[j].nextSeq = 0
      BY <1>11, <1>13
    <3>2. Len(entry'[j].events) = 0
      BY <3>1
    <3>3. Lesser(0, MaxEvents) = 0
      BY RegistryAssumption DEF Lesser
    <3>4. 1..0 = {}
      OBVIOUS
    <3> QED
      BY <3>1, <3>2, <3>3, <3>4
  <2>2. \A i \in tracked' : i = j \/ (i \in tracked /\ entry'[i] = entry[i])
    BY <1>3, <1>4, <1>5, <1>11
  <2> QED
    BY <2>1, <2>2 DEF IInv, ReplayWindow
<1> QED
  BY <1>9, <1>12, <1>15, <1>17, <1>18, <1>19, <1>20 DEF IInv

-----------------------------------------------------------------------------
(* The invariant.                                                            *)

\* It holds of the empty registry.
LEMMA InvInit == Init => IInv
<1> SUFFICES ASSUME Init PROVE IInv
  OBVIOUS
<1>1. AnyJob \in Jobs
  BY RegistryAssumption DEF AnyJob
<1>2. NewEntry \in Entries /\ NewEntry.subscribers = {}
  BY EmptySeq DEF NewEntry, Entries, Statuses
<1>3. \A j \in Jobs : entry[j] = NewEntry
  BY DEF Init
<1>4. /\ sub \in [Clients -> Subscriptions]
      /\ \A c \in Clients : sub[c].pc = "idle"
  BY <1>1, EmptySeq DEF Init, Subscriptions
<1>5. fin \in [Finishers -> FinishCalls]
  BY <1>1 DEF Init, FinishCalls, FinalStatuses
<1>6. /\ wait \in [Waiters -> WaitCalls]
      /\ \A w \in Waiters : wait[w].pc = "idle"
  BY <1>1 DEF Init, WaitCalls
<1>7. TypeOK
  <2>1. entry \in [Jobs -> Entries]
    BY <1>2 DEF Init
  <2>2. /\ tracked = {} /\ known = {} /\ older = {} /\ early = {} /\ closedDone = {}
    BY DEF Init
  <2> QED
    BY <1>4, <1>5, <1>6, <2>1, <2>2 DEF TypeOK
<1>8. OrderInv
  BY FS_EmptySet DEF Init, OrderInv
<1>9. SubInv
  BY <1>2, <1>3 DEF SubInv
<1>10. GapFreeDelivery /\ NoStrandedSubscriber
  BY <1>4 DEF GapFreeDelivery, NoStrandedSubscriber
<1>11. ReplayWindow
  BY DEF Init, ReplayWindow
<1>12. WaitersWakeable
  BY <1>6 DEF WaitersWakeable
<1> QED
  BY <1>7, <1>8, <1>9, <1>10, <1>11, <1>12 DEF IInv

\* A stuttering step keeps it.
LEMMA InvStutter == IInv /\ UNCHANGED vars => IInv'
<1> SUFFICES ASSUME IInv, UNCHANGED vars PROVE IInv'
  OBVIOUS
<1>1. UNCHANGED <<tracked, known, entry, older, early, closedDone, sub, fin, wait>>
  BY DEF vars
<1>2. TypeOK'
  BY <1>1 DEF IInv, TypeOK
<1>3. OrderInv' /\ SubInv' /\ NoStrandedSubscriber'
  BY <1>1 DEF IInv, OrderInv, SubInv, NoStrandedSubscriber
<1>4. GapFreeDelivery' /\ ReplayWindow' /\ WaitersWakeable'
  BY <1>1 DEF IInv, GapFreeDelivery, ReplayWindow, WaitersWakeable
<1> QED
  BY <1>2, <1>3, <1>4 DEF IInv

\* Every step of the registry and of its callers keeps it.
LEMMA InvNext == IInv /\ [Next]_vars => IInv'
<1> SUFFICES ASSUME IInv, [Next]_vars PROVE IInv'
  OBVIOUS
<1>1. ASSUME NEW j \in Jobs, Publish(j) PROVE IInv'
  <2>1. entry[j].status \in Statuses /\ "running" \in Statuses
    BY EntryTypes DEF IInv, Statuses
  <2>2. PICK st \in Statuses : PublishEvent(j, st)
    BY <1>1, <2>1 DEF Publish
  <2>3. UNCHANGED <<tracked, known, early, closedDone, fin, wait>>
    BY <1>1 DEF Publish
  <2> QED
    BY <2>2, <2>3, PublishInv
<1>2. ASSUME NEW f \in Finishers, NEW j \in Jobs, NEW st \in FinalStatuses,
             FinishPublish(f, j, st)
      PROVE  IInv'
  <2> DEFINE v == [pc |-> "mark", job |-> j, status |-> st]
  <2>1. v \in FinishCalls
    BY DEF FinishCalls
  <2>2. fin' = [fin EXCEPT ![f] = v] /\ fin \in [Finishers -> FinishCalls]
    BY <1>2 DEF FinishPublish, IInv, TypeOK
  <2> HIDE DEF v
  <2>3. fin' \in [Finishers -> FinishCalls]
    BY <2>1, <2>2
  <2>4. /\ PublishEvent(j, st) /\ st \in Statuses
        /\ UNCHANGED <<tracked, known, early, closedDone, wait>>
    BY <1>2 DEF FinishPublish, Statuses
  <2> QED
    BY <2>3, <2>4, PublishInv
<1>3. CASE Next
  <2>1. CASE \E j \in Jobs : Register(j) \/ AttachCancel(j) \/ Publish(j) \/ Reopen(j)
    BY <1>1, <2>1, RegisterStep, AttachCancelStep, ReopenStep
  <2>2. CASE \E f \in Finishers :
               \/ \E j \in Jobs, st \in FinalStatuses : FinishPublish(f, j, st)
               \/ MarkTerminal(f)
    BY <1>2, <2>2, MarkTerminalStep
  <2>3. CASE \E c \in Clients :
               \/ \E j \in Jobs : Subscribe(c, j)
               \/ Unsubscribe(c) \/ Receive(c)
    BY <2>3, SubscribeStep, UnsubscribeStep, ReceiveStep
  <2>4. CASE \E w \in Waiters :
               \/ \E j \in Jobs : WaitBegin(w, j)
               \/ WaitDone(w) \/ WaitCtxDone(w) \/ WaitReturn(w)
    BY <2>4, WaitBeginStep, WaitRestStep
  <2> QED
    BY <1>3, <2>1, <2>2, <2>3, <2>4, RegistryAssumption DEF Next
<1>4. CASE UNCHANGED vars
  BY <1>4, InvStutter
<1> QED
  BY <1>3, <1>4

\* The inductive invariant holds in every reachable state.
THEOREM Invariant == Spec => []IInv
  BY InvInit, InvNext, PTL DEF Spec

\* The registry's state is well typed throughout.
THEOREM TypeCorrect == Spec => []TypeOK
<1>1. IInv => TypeOK
  BY DEF IInv
<1> QED
  BY <1>1, Invariant, PTL

\* Subscribe's snapshot and channel fit together, and Publish keeps them so: a
\* client that never let its buffer overflow misses no event and sees none
\* twice, for any number of clients, finishers and reopenings.
THEOREM DeliveryGapFree == Spec => []GapFreeDelivery
<1>1. IInv => GapFreeDelivery
  BY DEF IInv
<1> QED
  BY <1>1, Invariant, PTL

\* No client reads a channel that nobody can close any more.
THEOREM SubscribersNotStranded == Spec => []NoStrandedSubscriber
<1>1. IInv => NoStrandedSubscriber
  BY DEF IInv
<1> QED
  BY <1>1, Invariant, PTL

\* The replay log is the window of the most recent events, for every size.
THEOREM LogIsWindow == Spec => []ReplayWindow
<1>1. IInv => ReplayWindow
  BY DEF IInv
<1> QED
  BY <1>1, Invariant, PTL

\* A caller blocked in Wait can be woken, unless its job was reopened while it
\* was not terminal.
THEOREM WaitersCanWake == Spec => []WaitersWakeable
<1>1. IInv => WaitersWakeable
  BY DEF IInv
<1> QED
  BY <1>1, Invariant, PTL

-----------------------------------------------------------------------------
(* Action properties.                                                        *)

\* Only RegisterWithID changes which jobs are known and tracked.
LEMMA OnlyRegister ==
  ASSUME [Next]_vars, \A j \in Jobs : ~Register(j)
  PROVE  UNCHANGED <<tracked, known>>
<1>1. CASE UNCHANGED vars
  BY <1>1 DEF vars
<1>2. CASE \E j \in Jobs : AttachCancel(j) \/ Publish(j) \/ Reopen(j)
  BY <1>2 DEF AttachCancel, Publish, Reopen
<1>3. CASE \E f \in Finishers :
             \/ \E j \in Jobs, st \in FinalStatuses : FinishPublish(f, j, st)
             \/ MarkTerminal(f)
  BY <1>3 DEF FinishPublish, MarkTerminal
<1>4. CASE \E c \in Clients :
             \/ \E j \in Jobs : Subscribe(c, j)
             \/ Unsubscribe(c) \/ Receive(c)
  BY <1>4 DEF Subscribe, Unsubscribe, Receive
<1>5. CASE \E w \in Waiters :
             \/ \E j \in Jobs : WaitBegin(w, j)
             \/ WaitDone(w) \/ WaitCtxDone(w) \/ WaitReturn(w)
  BY <1>5 DEF WaitBegin, WaitDone, WaitCtxDone, WaitReturn
<1> QED
  BY <1>1, <1>2, <1>3, <1>4, <1>5, RegistryAssumption DEF Next

\* cleanupLocked drops no active job, however far the registry is over its
\* target ("active jobs are control-plane state, not cache entries").
THEOREM ActiveKept == Spec => ActiveNeverEvicted
<1> DEFINE A == \A j \in tracked : ~entry[j].terminal => j \in tracked'
<1>1. ASSUME [Next]_vars PROVE A
  <2>1. ASSUME NEW j \in Jobs, Register(j) PROVE A
    <3>1. PICK expired \in OldestTerminal(tracked) :
            \E evicted \in Evicted(tracked \ expired) :
              tracked' = (tracked \ (expired \cup evicted)) \cup {j}
      BY <2>1 DEF Register
    <3>2. PICK evicted \in Evicted(tracked \ expired) :
            tracked' = (tracked \ (expired \cup evicted)) \cup {j}
      BY <3>1
    <3> QED
      BY <3>2, EvictionTerminal, EvictedTerminal
  <2> QED
    BY <1>1, <2>1, OnlyRegister
<1>2. [Next]_vars => A
  BY <1>1
<1> HIDE DEF A
<1>3. [][Next]_vars => [][A]_vars
  BY <1>2, PTL
<1> QED
  BY <1>3 DEF Spec, ActiveNeverEvicted, A

\* Eviction takes what is too much, or all terminal jobs there are.
LEMMA EvictedEnough ==
  ASSUME NEW S, IsFiniteSet(S), NEW G \in Evicted(S)
  PROVE  \/ Cardinality(S \ G) <= MaxTracked
         \/ \A i \in S \ G : ~entry[i].terminal
<1> DEFINE T == TerminalIn(S)
           excess == Cardinality(S) - MaxTracked
<1>0. MaxTracked \in Nat
  BY RegistryAssumption
<1>1. T \in SUBSET S /\ \A i \in S \ T : ~entry[i].terminal
  BY DEF TerminalIn
<1>2. IsFiniteSet(T) /\ Cardinality(T) \in Nat /\ Cardinality(S) \in Nat
  BY <1>1, FS_Subset, FS_CardinalityType
<1>3. CASE excess <= 0
  <2>1. G = {}
    BY <1>3 DEF Evicted
  <2>2. S \ G = S
    BY <2>1
  <2>3. Cardinality(S) <= MaxTracked
    BY <1>0, <1>2, <1>3
  <2> QED
    BY <2>2, <2>3
<1>4. CASE ~(excess <= 0)
  <2>1. G \in OldestTerminal(S) /\ Cardinality(G) = Lesser(excess, Cardinality(T))
    BY <1>4 DEF Evicted
  <2>2. G \in SUBSET T
    BY <2>1 DEF OldestTerminal
  <2> HIDE DEF T
  <2>3. S \cap G = G
    BY <1>1, <2>2
  <2>4. Cardinality(S \ G) = Cardinality(S) - Cardinality(G)
    BY <2>3, FS_Difference
  <2>5. CASE Cardinality(G) = excess
    BY <1>0, <1>2, <2>4, <2>5
  <2>6. CASE Cardinality(G) = Cardinality(T)
    <3>1. G = T
      BY <1>2, <2>2, <2>6, FS_Subset
    <3> QED
      BY <1>1, <3>1
  <2> QED
    BY <2>1, <2>5, <2>6 DEF Lesser
<1> QED
  BY <1>3, <1>4

\* Right after RegisterWithID the registry is at its target, plus the new job,
\* or holds active jobs only, for every target and every number of jobs.
THEOREM TargetRestored == Spec => RegisterRestoresTarget
<1> DEFINE A == known' # known =>
                  \/ Cardinality(tracked') <= MaxTracked + 1
                  \/ \A j \in tracked' : ~entry'[j].terminal
<1>1. ASSUME IInv, [Next]_vars PROVE A
  <2>1. ASSUME NEW j \in Jobs, Register(j)
        PROVE  \/ Cardinality(tracked') <= MaxTracked + 1
               \/ \A i \in tracked' : ~entry'[i].terminal
    <3>1. PICK expired \in OldestTerminal(tracked) :
            \E evicted \in Evicted(tracked \ expired) :
              tracked' = (tracked \ (expired \cup evicted)) \cup {j}
      BY <2>1 DEF Register
    <3>2. PICK evicted \in Evicted(tracked \ expired) :
            tracked' = (tracked \ (expired \cup evicted)) \cup {j}
      BY <3>1
    <3> DEFINE left == tracked \ expired
               stay == left \ evicted
    <3>3. tracked' = stay \cup {j} /\ stay \subseteq tracked
      BY <3>2
    <3>4. IsFiniteSet(left)
      BY <1>1, FS_Difference DEF IInv, OrderInv
    <3>5. IsFiniteSet(stay)
      BY <3>4, FS_Difference
    <3>6. \/ Cardinality(stay) <= MaxTracked
          \/ \A i \in stay : ~entry[i].terminal
      BY <3>2, <3>4, EvictedEnough
    <3> HIDE DEF left, stay
    <3>7. CASE Cardinality(stay) <= MaxTracked
      <4>1. Cardinality(stay) \in Nat
        BY <3>5, FS_CardinalityType
      <4>2. \/ Cardinality(tracked') = Cardinality(stay)
            \/ Cardinality(tracked') = Cardinality(stay) + 1
        BY <3>3, <3>5, FS_AddElement
      <4> QED
        BY <3>7, <4>1, <4>2, RegistryAssumption
    <3>8. CASE \A i \in stay : ~entry[i].terminal
      <4>1. /\ entry \in [Jobs -> Entries] /\ tracked \subseteq Jobs
            /\ entry' = [entry EXCEPT ![j] = NewEntry] /\ ~NewEntry.terminal
        BY <1>1, <2>1 DEF Register, IInv, TypeOK, NewEntry
      <4> QED
        BY <3>3, <3>8, <4>1
    <3> QED
      BY <3>6, <3>7, <3>8
  <2>2. (\A j \in Jobs : ~Register(j)) => known' = known
    BY <1>1, OnlyRegister
  <2> QED
    BY <2>1, <2>2
<1>2. IInv /\ [Next]_vars => A
  BY <1>1
<1> HIDE DEF A
<1>3. []IInv /\ [][Next]_vars => [][A]_vars
  BY <1>2, PTL
<1>4. Spec => [][A]_vars
  BY <1>3, Invariant, PTL DEF Spec
<1> QED
  BY <1>4 DEF RegisterRestoresTarget, A

\* The log and the status of a job: what TerminalFrozen compares.
SameLog(j) ==
  /\ entry'[j].status = entry[j].status
  /\ entry'[j].nextSeq = entry[j].nextSeq
  /\ entry'[j].events = entry[j].events

\* No step but Reopen changes the log or the status of a terminal job.
LEMMA FrozenStep ==
  ASSUME IInv, [Next]_vars, NEW i \in tracked, entry[i].terminal, entry'[i].terminal
  PROVE  SameLog(i)
<1>1. TypeOK /\ i \in Jobs /\ i \in known /\ entry \in [Jobs -> Entries]
  BY DEF IInv, TypeOK
<1>2. ASSUME NEW j \in Jobs, Register(j) PROVE SameLog(i)
  <2>1. i # j /\ entry' = [entry EXCEPT ![j] = NewEntry]
    BY <1>1, <1>2 DEF Register
  <2> QED
    BY <1>1, <2>1 DEF SameLog
<1>3. ASSUME NEW j \in Jobs, AttachCancel(j) PROVE SameLog(i)
  <2>1. entry' = [entry EXCEPT ![j].cancel = TRUE] /\ entry[j] \in Entries
    BY <1>1, <1>3 DEF AttachCancel
  <2> QED
    BY <1>1, <2>1 DEF SameLog, Entries
<1>4. ASSUME NEW j \in Jobs, NEW st \in Statuses, PublishEvent(j, st) PROVE SameLog(i)
  <2>1. ~entry[j].terminal /\ \A k \in Jobs \ {j} : entry'[k] = entry[k]
    BY <1>4, PublishEffect
  <2> QED
    BY <1>1, <2>1 DEF SameLog
<1>5. ASSUME NEW j \in Jobs, Publish(j) PROVE SameLog(i)
  <2>1. entry[j].status \in Statuses /\ "running" \in Statuses
    BY <1>1, EntryTypes DEF Statuses
  <2> QED
    BY <1>4, <1>5, <2>1 DEF Publish
<1>6. ASSUME NEW j \in Jobs, Reopen(j) PROVE SameLog(i)
  <2> DEFINE v == [entry[j] EXCEPT !.terminal = FALSE, !.status = "running",
                                   !.done = entry[j].done + 1]
  <2>1. entry' = [entry EXCEPT ![j] = v] /\ entry[j] \in Entries
    BY <1>1, <1>6 DEF Reopen
  <2>2. v.terminal = FALSE
    BY <2>1 DEF Entries
  <2> HIDE DEF v
  <2>3. i # j
    BY <1>1, <2>1, <2>2
  <2> QED
    BY <1>1, <2>1, <2>3 DEF SameLog
<1>7. ASSUME NEW f \in Finishers, MarkTerminal(f) PROVE SameLog(i)
  <2> DEFINE j == fin[f].job
  <2>1. j \in Jobs
    BY <1>1 DEF TypeOK, FinishCalls
  <2>2. CASE UNCHANGED entry
    BY <2>2 DEF SameLog
  <2>3. CASE /\ ~entry[j].terminal
             /\ entry' = [entry EXCEPT ![j].status = fin[f].status,
                                       ![j].terminal = TRUE,
                                       ![j].subscribers = {}]
    BY <1>1, <2>1, <2>3 DEF SameLog
  <2> QED
    BY <1>7, <2>2, <2>3 DEF MarkTerminal
<1>8. ASSUME NEW c \in Clients, NEW j \in Jobs, Subscribe(c, j) PROVE SameLog(i)
  <2>1. CASE UNCHANGED entry
    BY <2>1 DEF SameLog
  <2>2. CASE /\ ~entry[j].terminal
             /\ entry' = [entry EXCEPT ![j].subscribers = @ \cup {c}]
    BY <1>1, <2>2 DEF SameLog
  <2> QED
    BY <1>8, <2>1, <2>2 DEF Subscribe
<1>9. ASSUME NEW c \in Clients, Unsubscribe(c) PROVE SameLog(i)
  <2> DEFINE j == sub[c].job
             S == entry[j].subscribers \ {c}
  <2>1. /\ j \in Jobs /\ entry[j] \in Entries
        /\ entry' = [entry EXCEPT ![j] = [entry[j] EXCEPT !.subscribers = S]]
    BY <1>1, <1>9 DEF Unsubscribe, TypeOK, Subscriptions
  <2> HIDE DEF j, S
  <2> QED
    BY <1>1, <2>1 DEF SameLog, Entries
<1>10. ASSUME UNCHANGED entry PROVE SameLog(i)
  BY <1>10 DEF SameLog
<1>11. CASE \E j \in Jobs : Register(j) \/ AttachCancel(j) \/ Publish(j) \/ Reopen(j)
  BY <1>2, <1>3, <1>5, <1>6, <1>11
<1>12. CASE \E f \in Finishers :
              \/ \E j \in Jobs, st \in FinalStatuses : FinishPublish(f, j, st)
              \/ MarkTerminal(f)
  BY <1>4, <1>7, <1>12 DEF FinishPublish, Statuses
<1>13. CASE \E c \in Clients :
              \/ \E j \in Jobs : Subscribe(c, j)
              \/ Unsubscribe(c) \/ Receive(c)
  BY <1>8, <1>9, <1>10, <1>13 DEF Receive
<1>14. CASE \/ UNCHANGED vars
            \/ \E w \in Waiters :
                 \/ \E j \in Jobs : WaitBegin(w, j)
                 \/ WaitDone(w) \/ WaitCtxDone(w) \/ WaitReturn(w)
  BY <1>10, <1>14 DEF vars, WaitBegin, WaitDone, WaitCtxDone, WaitReturn
<1> QED
  BY <1>11, <1>12, <1>13, <1>14, RegistryAssumption DEF Next

\* Late publishers and late finishers leave no trace in a terminal job.
THEOREM TerminalStaysFrozen == Spec => TerminalFrozen
<1> DEFINE A == \A j \in tracked \cap tracked' :
                  entry[j].terminal /\ entry'[j].terminal
                    => /\ entry'[j].status = entry[j].status
                       /\ entry'[j].nextSeq = entry[j].nextSeq
                       /\ entry'[j].events = entry[j].events
<1>1. IInv /\ [Next]_vars => A
  BY FrozenStep DEF SameLog
<1> HIDE DEF A
<1>2. []IInv /\ [][Next]_vars => [][A]_vars
  BY <1>1, PTL
<1>3. Spec => [][A]_vars
  BY <1>2, Invariant, PTL DEF Spec
<1> QED
  BY <1>3 DEF TerminalFrozen, A
=============================================================================
