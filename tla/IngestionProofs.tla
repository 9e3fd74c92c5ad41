---------------------------- MODULE IngestionProofs ----------------------------
(***************************************************************************)
(* Ingestion's safety, for any number of sources, minutes, schedulers,     *)
(* workers, faults and redeliveries.                                       *)
(***************************************************************************)
EXTENDS Ingestion, TLAPS

USE StoreAssumption, SchedulerAssumption, CollectorAssumption

(***************************************************************************)
(* Helpers                                                                 *)
(***************************************************************************)

\* Sending a message keeps the queue a set of messages, each one old or new.
LEMMA SendAddsOne ==
  ASSUME NEW j \in Jobs, Send(j), ingestionQueue \subseteq Messages
  PROVE  /\ ingestionQueue' \subseteq Messages
         /\ \A m \in ingestionQueue' : m \in ingestionQueue \/ m.job = j
<1>1. CASE UNCHANGED ingestionQueue
  BY <1>1
<1>2. ASSUME NEW c \in 1..MaxCopies,
             ingestionQueue' = ingestionQueue \cup
               {[job |-> j, copy |-> c, receives |-> 0, attempt |-> 0]}
      PROVE  /\ ingestionQueue' \subseteq Messages
             /\ \A m \in ingestionQueue' : m \in ingestionQueue \/ m.job = j
  <2>1. [job |-> j, copy |-> c, receives |-> 0, attempt |-> 0] \in Messages
    BY DEF Messages, StoreAssumption
  <2> QED
    BY <1>2, <2>1
<1> QED
  BY <1>1, <1>2 DEF Send

\* What is left for a scheduler to visit is always a set of slots.
LEMMA TodoAreSlots ==
  ASSUME NEW window
  PROVE  Recoverable \subseteq Slots /\ DueIn(window) \subseteq Slots
BY DEF Recoverable, DueIn, Slots, Windows, StoreAssumption

\* An unlock or an abandoned key keeps the lock table well formed.
LEMMA LockTyped ==
  ASSUME SchedTypeOK, NEW p \in Schedulers
  PROVE  /\ Released(p) \in [Slots -> Schedulers \cup {Free, Orphan}]
         /\ Abandoned(p) \in [Slots -> Schedulers \cup {Free, Orphan}]
BY DEF Released, Abandoned, SchedTypeOK

\* A fault only counts.
LEMMA FaultTyped ==
  ASSUME StoreTypeOK, Fault,
         UNCHANGED <<active, jobs, ingestionQueue, published>>
  PROVE  StoreTypeOK'
BY DEF StoreTypeOK, Fault

\* One process replaces its record by a well-formed one.
LEMMA SchedulerReplaced ==
  ASSUME SchedTypeOK, NEW p \in Schedulers, NEW s \in SchedulerState,
         sched' = [sched EXCEPT ![p] = s]
  PROVE  sched' \in [Schedulers -> SchedulerState]
BY DEF SchedTypeOK

LEMMA WorkerReplaced ==
  ASSUME CollectorTypeOK, NEW w \in Workers, NEW s \in WorkerState,
         worker' = [worker EXCEPT ![w] = s]
  PROVE  worker' \in [Workers -> WorkerState]
BY DEF CollectorTypeOK

\* A well-formed record stays so when some of its fields get well-formed values.
LEMMA SchedulerRecords ==
  ASSUME NEW s \in SchedulerState
  PROVE  /\ \A loop \in Loops, window \in Windows, todo \in SUBSET Slots :
              [s EXCEPT !.pc = "loop", !.loop = loop, !.window = window,
                        !.todo = todo] \in SchedulerState
         /\ \A loop \in Loops, todo \in SUBSET Slots :
              [s EXCEPT !.loop = loop, !.todo = todo] \in SchedulerState
         /\ \A k \in Slots, todo \in SUBSET Slots :
              [s EXCEPT !.pc = "select", !.slot = k, !.todo = todo]
                \in SchedulerState
         /\ \A j \in Jobs :
              [s EXCEPT !.pc = "publish", !.job = j] \in SchedulerState
         /\ \A j \in Jobs, pc \in InLock :
              [s EXCEPT !.job = j, !.pc = pc] \in SchedulerState
         /\ [s EXCEPT !.pc = "idle", !.todo = {}, !.ticked = s.window]
              \in SchedulerState
<1>1. ASSUME NEW loop \in Loops, NEW window \in Windows,
             NEW todo \in SUBSET Slots
      PROVE  [s EXCEPT !.pc = "loop", !.loop = loop, !.window = window,
                       !.todo = todo] \in SchedulerState
  BY Zenon DEF SchedulerState
<1>2. ASSUME NEW loop \in Loops, NEW todo \in SUBSET Slots
      PROVE  [s EXCEPT !.loop = loop, !.todo = todo] \in SchedulerState
  BY Zenon DEF SchedulerState
<1>3. ASSUME NEW k \in Slots, NEW todo \in SUBSET Slots
      PROVE  [s EXCEPT !.pc = "select", !.slot = k, !.todo = todo]
               \in SchedulerState
  BY Zenon DEF SchedulerState, InLock
<1>4. ASSUME NEW j \in Jobs
      PROVE  [s EXCEPT !.pc = "publish", !.job = j] \in SchedulerState
  BY Zenon DEF SchedulerState, InLock
<1>5. [s EXCEPT !.pc = "idle", !.todo = {}, !.ticked = s.window]
        \in SchedulerState
  BY Zenon DEF SchedulerState
<1>6. ASSUME NEW j \in Jobs, NEW pc \in InLock
      PROVE  [s EXCEPT !.job = j, !.pc = pc] \in SchedulerState
  BY Zenon DEF SchedulerState
<1> QED
  BY <1>1, <1>2, <1>3, <1>4, <1>5, <1>6, Zenon

LEMMA WorkerRecords ==
  ASSUME NEW s \in WorkerState
  PROVE  /\ \A pc \in {"failing", "settle"}, outcome \in {"ack", "retry", "leave"} :
              [s EXCEPT !.pc = pc, !.outcome = outcome] \in WorkerState
         /\ \A c \in Contents :
              [s EXCEPT !.pc = "archive", !.content = c] \in WorkerState
         /\ \A pc \in {"persist", "announce"}, r \in RawSignals \cup {Nothing} :
              [s EXCEPT !.pc = pc, !.raw = r] \in WorkerState
<1>1. ASSUME NEW pc \in {"failing", "settle"},
             NEW outcome \in {"ack", "retry", "leave"}
      PROVE  [s EXCEPT !.pc = pc, !.outcome = outcome] \in WorkerState
  BY Zenon DEF WorkerState
<1>2. ASSUME NEW c \in Contents
      PROVE  [s EXCEPT !.pc = "archive", !.content = c] \in WorkerState
  BY Zenon DEF WorkerState
<1>3. ASSUME NEW pc \in {"persist", "announce"},
             NEW r \in RawSignals \cup {Nothing}
      PROVE  [s EXCEPT !.pc = pc, !.raw = r] \in WorkerState
  BY Zenon DEF WorkerState
<1> QED
  BY <1>1, <1>2, <1>3, Zenon

\* A step of a process that leaves the store alone keeps its type.
LEMMA StoreKept ==
  ASSUME StoreTypeOK, UNCHANGED storeVars
  PROVE  StoreTypeOK'
BY DEF StoreTypeOK, storeVars

(***************************************************************************)
(* Types                                                                   *)
(***************************************************************************)

\* Every step of a scheduler keeps its state and the store well formed.
LEMMA RunOnceTyped ==
  ASSUME StoreTypeOK, SchedTypeOK, SchedulerKnows,
         NEW p \in Schedulers, RunOnce(p)
  PROVE  StoreTypeOK' /\ SchedTypeOK'
<1> USE DEF SchedTypeOK, At, storeVars
<1>s. sched[p] \in SchedulerState /\ clock \in Windows
  OBVIOUS
<1>1. CASE StartTick(p)
  <2>1. [sched[p] EXCEPT !.pc = "loop", !.loop = "recover",
                         !.window = clock, !.todo = Recoverable] \in SchedulerState
    BY <1>s, TodoAreSlots, SchedulerRecords, Zenon DEF Loops
  <2>2. sched' \in [Schedulers -> SchedulerState]
    BY <1>1, <2>1, SchedulerReplaced DEF StartTick
  <2> QED
    BY <1>1, <2>2, StoreKept DEF StartTick
<1>2. CASE EnterDueLoop(p)
  <2>1. [sched[p] EXCEPT !.loop = "due",
                         !.todo = DueIn(sched[p].window)] \in SchedulerState
    BY <1>s, TodoAreSlots, SchedulerRecords, Zenon DEF Loops
  <2>2. sched' \in [Schedulers -> SchedulerState]
    BY <1>2, <2>1, SchedulerReplaced DEF EnterDueLoop
  <2> QED
    BY <1>2, <2>2, StoreKept DEF EnterDueLoop
<1>3. CASE FinishTick(p)
  <2>1. [sched[p] EXCEPT !.pc = "idle",
                         !.ticked = sched[p].window] \in SchedulerState
    BY DEF SchedulerState
  <2>2. sched' \in [Schedulers -> SchedulerState]
    BY <1>3, <2>1, SchedulerReplaced DEF FinishTick
  <2> QED
    BY <1>3, <2>2, StoreKept DEF FinishTick
<1>4. ASSUME NEW k \in Slots, Acquire(p, k)
      PROVE  StoreTypeOK' /\ SchedTypeOK'
  <2>1. [sched[p] EXCEPT !.pc = "select", !.slot = k,
                         !.todo = sched[p].todo \ {k}] \in SchedulerState
    <3>1. sched[p].todo \ {k} \in SUBSET Slots
      BY <1>s DEF SchedulerState
    <3> QED
      BY <1>s, <3>1, SchedulerRecords, Zenon
  <2>2. sched' \in [Schedulers -> SchedulerState]
    BY <1>4, <2>1, SchedulerReplaced DEF Acquire
  <2> QED
    BY <1>4, <2>2, StoreKept DEF Acquire
<1>5. ASSUME NEW k \in Slots, SkipHeld(p, k)
      PROVE  StoreTypeOK' /\ SchedTypeOK'
  BY <1>5 DEF SkipHeld, SchedulerState, StoreTypeOK
<1>6. ASSUME NEW j \in Jobs, SelectFinds(p, j)
      PROVE  StoreTypeOK' /\ SchedTypeOK'
  <2>1. \A pc \in InLock :
          [sched[p] EXCEPT !.job = j, !.pc = pc] \in SchedulerState
    BY <1>s, SchedulerRecords, Zenon
  <2>2. \E pc \in InLock :
          sched' = [sched EXCEPT ![p] = [sched[p] EXCEPT !.job = j, !.pc = pc]]
    BY <1>6 DEF SelectFinds, InLock
  <2> QED
    BY <1>6, <2>1, <2>2 DEF SelectFinds, StoreTypeOK
<1>7. ASSUME NEW j \in Jobs, InsertJob(p, j)
      PROVE  StoreTypeOK' /\ SchedTypeOK'
  <2>1. StoreTypeOK'
    BY <1>7 DEF InsertJob, StoreTypeOK, JobStatus
  <2>2. [sched[p] EXCEPT !.pc = "publish", !.job = j] \in SchedulerState
    BY <1>s, SchedulerRecords, Zenon
  <2>3. sched' \in [Schedulers -> SchedulerState]
    BY <1>7, <2>2, SchedulerReplaced DEF InsertJob
  <2> QED
    BY <1>7, <2>1, <2>3 DEF InsertJob
<1>8. CASE SelectFindsNone(p)
  BY <1>8 DEF SelectFindsNone, SchedulerState, StoreTypeOK, InLock
<1>9. CASE PublishJob(p)
  <2>1. sched[p].job \in Jobs
    BY <1>9 DEF PublishJob, SchedulerKnows
  <2>2. StoreTypeOK'
    BY <1>9, <2>1, SendAddsOne DEF PublishJob, StoreTypeOK
  <2> QED
    BY <1>9, <2>2 DEF PublishJob, SchedulerState, InLock
<1>10. CASE MarkDispatched(p)
  <2>1. StoreTypeOK'
    BY <1>10 DEF MarkDispatched, StoreTypeOK, JobStatus
  <2> QED
    BY <1>10, <2>1 DEF MarkDispatched, SchedulerState, InLock
<1>11. CASE Release(p)
  <2>1. [sched[p] EXCEPT !.pc = "loop"] \in SchedulerState
    BY DEF SchedulerState
  <2>2. sched' = [sched EXCEPT ![p] = [sched[p] EXCEPT !.pc = "loop"]]
    BY <1>11 DEF Release
  <2>3. sched' \in [Schedulers -> SchedulerState]
    BY <2>1, <2>2, SchedulerReplaced
  <2>4. lock' \in [Slots -> Schedulers \cup {Free, Orphan}]
    BY <1>11, LockTyped DEF Release
  <2> QED
    BY <1>11, <2>3, <2>4, StoreKept DEF Release
<1>12. CASE Unwind(p)
  <2>1. [sched[p] EXCEPT !.pc = "idle", !.todo = {},
                         !.ticked = sched[p].window] \in SchedulerState
    BY <1>s, SchedulerRecords, Zenon
  <2>2. sched' \in [Schedulers -> SchedulerState]
    BY <1>12, <2>1, SchedulerReplaced DEF Unwind, TickOver
  <2> QED
    BY <1>12, <2>2, LockTyped, StoreKept DEF Unwind
<1> QED
  BY <1>1, <1>2, <1>3, <1>4, <1>5, <1>6, <1>7, <1>8, <1>9, <1>10, <1>11,
     <1>12 DEF RunOnce

\* So do failures, lost processes, expiring keys and the clock.
LEMMA SchedFaultsTyped ==
  ASSUME StoreTypeOK, SchedTypeOK,
         \/ \E p \in Schedulers :
              CallFails(p) \/ UnlockedCallFails(p) \/ CrashScheduler(p)
         \/ \E k \in Slots : Expire(k)
         \/ AdvanceClock
  PROVE  StoreTypeOK' /\ SchedTypeOK'
<1> USE DEF SchedTypeOK, StoreTypeOK, storeVars
<1>1. ASSUME NEW p \in Schedulers, CallFails(p)
      PROVE  StoreTypeOK' /\ SchedTypeOK'
  BY <1>1 DEF CallFails, Fault, SchedulerState, InLock
<1>2. ASSUME NEW p \in Schedulers, UnlockedCallFails(p)
      PROVE  StoreTypeOK' /\ SchedTypeOK'
  <2>1. [sched[p] EXCEPT !.pc = "idle", !.todo = {},
                         !.ticked = sched[p].window] \in SchedulerState
    BY SchedulerRecords, Zenon
  <2>2. lock' \in [Slots -> Schedulers \cup {Free, Orphan}]
    BY <1>2, LockTyped DEF UnlockedCallFails
  <2>3. sched' \in [Schedulers -> SchedulerState]
    BY <1>2, <2>1, SchedulerReplaced DEF UnlockedCallFails, TickOver
  <2> QED
    BY <1>2, <2>2, <2>3 DEF UnlockedCallFails, Fault
<1>3. ASSUME NEW p \in Schedulers, CrashScheduler(p)
      PROVE  StoreTypeOK' /\ SchedTypeOK'
  <2>1. Idle \in SchedulerState
    BY DEF Idle, SchedulerState, Loops
  <2> QED
    BY <1>3, <2>1, LockTyped DEF CrashScheduler, Fault
<1>4. ASSUME NEW k \in Slots, Expire(k)
      PROVE  StoreTypeOK' /\ SchedTypeOK'
  BY <1>4 DEF Expire
<1>5. CASE AdvanceClock
  BY <1>5 DEF AdvanceClock, Windows, StoreAssumption
<1> QED
  BY <1>1, <1>2, <1>3, <1>4, <1>5

\* Every step of a worker keeps its state and the store well formed.
LEMMA CollectTyped ==
  ASSUME StoreTypeOK, CollectorTypeOK, MessagesBacked, CollectorKnows,
         NEW w \in Workers, Collect(w)
  PROVE  StoreTypeOK' /\ CollectorTypeOK'
<1> USE DEF CollectorTypeOK, In, storeVars
<1>w. worker[w] \in WorkerState
  OBVIOUS
<1>j. worker[w].pc # "idle" => worker[w].job \in Jobs /\ worker[w].copy # 0
  BY DEF MessagesBacked, StoreTypeOK
<1>1. CASE LoadJob(w)
  <2>1. StoreTypeOK'
    BY <1>1 DEF LoadJob, StoreTypeOK, JobStatus
  <2> QED
    BY <1>1, <2>1 DEF LoadJob, WorkerState
<1>2. CASE SkipRetired(w)
  <2>1. [worker[w] EXCEPT !.pc = "settle", !.outcome = "ack"] \in WorkerState
    BY <1>w, WorkerRecords, Zenon
  <2>2. worker' \in [Workers -> WorkerState]
    BY <1>2, <2>1, WorkerReplaced DEF SkipRetired
  <2> QED
    BY <1>2, <2>2, StoreKept DEF SkipRetired
<1>3. ASSUME NEW c \in Contents, Fetch(w, c)
      PROVE  StoreTypeOK' /\ CollectorTypeOK'
  <2>1. [worker[w] EXCEPT !.pc = "archive", !.content = c] \in WorkerState
    BY <1>w, WorkerRecords, Zenon
  <2>2. worker' \in [Workers -> WorkerState]
    BY <1>3, <2>1, WorkerReplaced DEF Fetch
  <2> QED
    BY <1>3, <2>2, StoreKept DEF Fetch
<1>4. CASE FetchRefused(w)
  <2>1. [worker[w] EXCEPT !.pc = "failing", !.outcome = "ack"] \in WorkerState
    BY <1>w, WorkerRecords, Zenon
  <2>2. worker' \in [Workers -> WorkerState]
    BY <1>4, <2>1, WorkerReplaced DEF FetchRefused
  <2> QED
    BY <1>4, <2>2, StoreKept DEF FetchRefused
<1>5. CASE Archive(w)
  <2>1. <<worker[w].job, worker[w].content>> \in Objects
    BY <1>5, <1>j DEF Archive, Objects, CollectorKnows
  <2> QED
    BY <1>5, <2>1 DEF Archive, WorkerState, StoreTypeOK
<1>6. CASE LookupRaw(w)
  <2>1. \A r \in RawSignals \cup {Nothing} :
          [worker[w] EXCEPT !.pc = "persist", !.raw = r] \in WorkerState
    BY <1>w, WorkerRecords, Zenon
  <2>2. \E r \in RawSignals \cup {Nothing} :
          worker' = [worker EXCEPT ![w] =
                       [worker[w] EXCEPT !.pc = "persist", !.raw = r]]
    BY <1>6 DEF LookupRaw, RowsFor
  <2>3. worker' \in [Workers -> WorkerState]
    BY <2>1, <2>2, WorkerReplaced
  <2> QED
    BY <1>6, <2>3, StoreKept DEF LookupRaw
<1>7. CASE Persist(w)
  <2> DEFINE new == [job |-> worker[w].job, content |-> worker[w].content,
                     by |-> w]
             row == IF worker[w].raw = Nothing THEN new ELSE worker[w].raw
  <2>1. new \in RawSignals
    BY <1>7, <1>j DEF Persist, RawSignals, CollectorKnows
  <2>2. row \in RawSignals
    BY <2>1 DEF WorkerState
  <2>3. [worker[w] EXCEPT !.pc = "announce", !.raw = row] \in WorkerState
    BY <1>w, <2>2, WorkerRecords, Zenon
  <2>4. StoreTypeOK'
    BY <1>7 DEF Persist, StoreTypeOK, JobStatus
  <2> HIDE DEF row
  <2>5. /\ rawSignals' = rawSignals \cup {row}
        /\ worker' = [worker EXCEPT ![w] =
                        [worker[w] EXCEPT !.pc = "announce", !.raw = row]]
        /\ UNCHANGED <<objects, announced, deadLetters>>
    BY <1>7 DEF Persist, row
  <2>6. worker' \in [Workers -> WorkerState]
    BY <2>3, <2>5, WorkerReplaced
  <2> QED
    BY <2>2, <2>4, <2>5, <2>6
<1>8. CASE Announce(w)
  <2>1. [worker[w] EXCEPT !.pc = "settle", !.outcome = "ack"] \in WorkerState
    BY <1>w, WorkerRecords, Zenon
  <2>2. worker[w].raw \in RawSignals
    BY <1>8 DEF Announce, CollectorKnows
  <2>3. worker' \in [Workers -> WorkerState]
    BY <1>8, <2>1, WorkerReplaced DEF Announce
  <2> QED
    BY <1>8, <2>2, <2>3, StoreKept DEF Announce
<1>9. CASE MarkFailed(w)
  <2>1. StoreTypeOK'
    BY <1>9 DEF MarkFailed, StoreTypeOK, JobStatus
  <2> QED
    BY <1>9, <2>1 DEF MarkFailed, WorkerState
<1>10. CASE Settle(w)
  <2> DEFINE retried == [job |-> worker[w].job, copy |-> worker[w].copy,
                         receives |-> 0, attempt |-> worker[w].attempt + 1]
  <2>1. ASSUME worker[w].attempt < MaxRetries
        PROVE  retried \in Messages
    BY <1>10, <1>j, <2>1 DEF Settle, Messages, WorkerState
  <2>2. Resting \in WorkerState
    BY DEF Resting, WorkerState
  <2> QED
    BY <1>10, <2>1, <2>2 DEF Settle, StoreTypeOK
<1> QED
  BY <1>1, <1>2, <1>3, <1>4, <1>5, <1>6, <1>7, <1>8, <1>9, <1>10 DEF Collect

\* So do deliveries, failures, lost workers and the redrive policy.
LEMMA CollectFaultsTyped ==
  ASSUME StoreTypeOK, CollectorTypeOK,
         \/ \E w \in Workers :
              \/ \E m \in ingestionQueue : Receive(w, m)
              \/ StageFails(w) \/ SetupFails(w)
              \/ MarkFailedLost(w) \/ CrashWorker(w)
         \/ \E m \in ingestionQueue : DeadLetter(m)
  PROVE  StoreTypeOK' /\ CollectorTypeOK'
<1> USE DEF CollectorTypeOK, In
<1>1. ASSUME NEW w \in Workers, NEW m \in ingestionQueue, Receive(w, m)
      PROVE  StoreTypeOK' /\ CollectorTypeOK'
  <2>1. m \in Messages
    BY DEF StoreTypeOK
  <2>0. m.receives + 1 \in 0..MaxReceives
    <3>1. m.receives < MaxReceives
      BY <1>1 DEF Receive
    <3>2. m.receives \in 0..MaxReceives
      BY <2>1 DEF Messages
    <3> QED
      BY <3>1, <3>2 DEF StoreAssumption
  <2>2. [m EXCEPT !.receives = m.receives + 1] \in Messages
    BY <2>0, <2>1 DEF Messages
  <2>3. StoreTypeOK'
    BY <1>1, <2>2 DEF Receive, StoreTypeOK
  <2>4. Resting \in WorkerState
    BY DEF Resting, WorkerState, StoreAssumption
  <2>5. /\ m.job \in Jobs
        /\ m.copy \in 0..MaxCopies
        /\ m.attempt \in 0..MaxRetries
    BY <2>1 DEF Messages, StoreAssumption
  <2>6. [Resting EXCEPT !.pc = "load", !.job = m.job, !.copy = m.copy,
                        !.attempt = m.attempt] \in WorkerState
    BY <2>4, <2>5 DEF WorkerState
  <2> QED
    BY <1>1, <2>3, <2>6 DEF Receive
<1>2. ASSUME NEW w \in Workers, StageFails(w)
      PROVE  StoreTypeOK' /\ CollectorTypeOK'
  <2>1. PICK outcome \in {"retry", "leave"} :
          worker' = [worker EXCEPT ![w] =
                       [worker[w] EXCEPT !.pc = "failing", !.outcome = outcome]]
    BY <1>2 DEF StageFails
  <2>2. [worker[w] EXCEPT !.pc = "failing", !.outcome = outcome] \in WorkerState
    BY WorkerRecords, Zenon
  <2>3. worker' \in [Workers -> WorkerState]
    BY <2>1, <2>2, WorkerReplaced
  <2>4. StoreTypeOK'
    BY <1>2, FaultTyped DEF StageFails
  <2> QED
    BY <1>2, <2>3, <2>4 DEF StageFails
<1>3. ASSUME NEW w \in Workers, SetupFails(w)
      PROVE  StoreTypeOK' /\ CollectorTypeOK'
  <2>1. PICK outcome \in {"retry", "leave"} :
          worker' = [worker EXCEPT ![w] =
                       [worker[w] EXCEPT !.pc = "settle", !.outcome = outcome]]
    BY <1>3 DEF SetupFails
  <2>2. [worker[w] EXCEPT !.pc = "settle", !.outcome = outcome] \in WorkerState
    BY WorkerRecords, Zenon
  <2>3. worker' \in [Workers -> WorkerState]
    BY <2>1, <2>2, WorkerReplaced
  <2>4. StoreTypeOK'
    BY <1>3, FaultTyped DEF SetupFails
  <2> QED
    BY <1>3, <2>3, <2>4 DEF SetupFails
<1>4. ASSUME NEW w \in Workers, MarkFailedLost(w)
      PROVE  StoreTypeOK' /\ CollectorTypeOK'
  BY <1>4 DEF MarkFailedLost, StoreTypeOK, Fault, WorkerState
<1>5. ASSUME NEW w \in Workers, CrashWorker(w)
      PROVE  StoreTypeOK' /\ CollectorTypeOK'
  <2>1. Resting \in WorkerState
    BY DEF Resting, WorkerState
  <2> QED
    BY <1>5, <2>1 DEF CrashWorker, StoreTypeOK, Fault
<1>6. ASSUME NEW m \in ingestionQueue, DeadLetter(m)
      PROVE  StoreTypeOK' /\ CollectorTypeOK'
  BY <1>6 DEF DeadLetter, StoreTypeOK, Messages
<1> QED
  BY <1>1, <1>2, <1>3, <1>4, <1>5, <1>6

\* Every step keeps the state well formed.
LEMMA Typed ==
  ASSUME TypeOK, SchedulerKnows, MessagesBacked, CollectorKnows, Next
  PROVE  TypeOK'
<1> USE DEF TypeOK
<1>1. CASE SchedNext /\ UNCHANGED collectorVars
  <2>1. CollectorTypeOK'
    BY <1>1 DEF collectorVars, CollectorTypeOK
  <2>2. StoreTypeOK' /\ SchedTypeOK'
    BY <1>1, RunOnceTyped, SchedFaultsTyped DEF SchedNext
  <2> QED
    BY <2>1, <2>2
<1>2. CASE CollectorNext /\ UNCHANGED schedVars
  <2>1. SchedTypeOK'
    BY <1>2 DEF schedVars, SchedTypeOK
  <2>2. StoreTypeOK' /\ CollectorTypeOK'
    BY <1>2, CollectTyped, CollectFaultsTyped DEF CollectorNext
  <2> QED
    BY <2>1, <2>2
<1>3. ASSUME NEW s \in Sources, Retire(s),
             UNCHANGED <<schedVars, collectorVars>>
      PROVE  TypeOK'
  BY <1>3 DEF Retire, schedVars, collectorVars,
              StoreTypeOK, SchedTypeOK, CollectorTypeOK
<1> QED
  BY <1>1, <1>2, <1>3 DEF Next

(***************************************************************************)
(* Who writes what                                                         *)
(***************************************************************************)

\* The actions that write each variable of the store and of the evidence.
LEMMA Writers ==
  ASSUME Next
  PROVE  /\ \/ UNCHANGED jobs
            \/ \E p \in Schedulers, j \in Jobs : InsertJob(p, j)
            \/ \E p \in Schedulers : MarkDispatched(p)
            \/ \E w \in Workers : LoadJob(w) \/ Persist(w) \/ MarkFailed(w)
         /\ UNCHANGED published \/ \E p \in Schedulers : PublishJob(p)
         /\ \/ UNCHANGED ingestionQueue
            \/ \E p \in Schedulers : PublishJob(p)
            \/ \E w \in Workers, m \in ingestionQueue : Receive(w, m)
            \/ \E w \in Workers : Settle(w)
            \/ \E m \in ingestionQueue : DeadLetter(m)
         /\ UNCHANGED objects \/ \E w \in Workers : Archive(w)
         /\ UNCHANGED rawSignals \/ \E w \in Workers : Persist(w)
         /\ UNCHANGED announced \/ \E w \in Workers : Announce(w)
<1>1. CASE SchedNext /\ UNCHANGED collectorVars
  <2>1. UNCHANGED <<objects, rawSignals, announced>>
    BY <1>1 DEF collectorVars
  <2>2. ASSUME NEW p \in Schedulers, RunOnce(p)
        PROVE  /\ \/ UNCHANGED jobs
                  \/ \E j \in Jobs : InsertJob(p, j)
                  \/ MarkDispatched(p)
               /\ UNCHANGED <<ingestionQueue, published>> \/ PublishJob(p)
    BY <2>2 DEF RunOnce, StartTick, EnterDueLoop, FinishTick, Acquire,
         SkipHeld, SelectFinds, SelectFindsNone, InsertJob, PublishJob,
         MarkDispatched, Release, Unwind, storeVars
  <2>3. ASSUME NEW p \in Schedulers,
               CallFails(p) \/ UnlockedCallFails(p) \/ CrashScheduler(p)
        PROVE  UNCHANGED <<jobs, ingestionQueue, published>>
    BY <2>3 DEF CallFails, UnlockedCallFails, CrashScheduler
  <2>4. ASSUME (\E k \in Slots : Expire(k)) \/ AdvanceClock
        PROVE  UNCHANGED <<jobs, ingestionQueue, published>>
    BY <2>4 DEF Expire, AdvanceClock, storeVars
  <2> QED
    BY <1>1, <2>1, <2>2, <2>3, <2>4 DEF SchedNext
<1>2. CASE CollectorNext /\ UNCHANGED schedVars
  <2>1. ASSUME NEW w \in Workers, Collect(w)
        PROVE  /\ UNCHANGED jobs \/ LoadJob(w) \/ Persist(w) \/ MarkFailed(w)
               /\ UNCHANGED published
               /\ UNCHANGED ingestionQueue \/ Settle(w)
               /\ UNCHANGED objects \/ Archive(w)
               /\ UNCHANGED rawSignals \/ Persist(w)
               /\ UNCHANGED announced \/ Announce(w)
    BY <2>1 DEF Collect, LoadJob, SkipRetired, Fetch, FetchRefused, Archive,
         LookupRaw, Persist, Announce, MarkFailed, Settle, storeVars
  <2>2. ASSUME NEW w \in Workers,
               StageFails(w) \/ SetupFails(w) \/ MarkFailedLost(w)
                 \/ CrashWorker(w)
        PROVE  UNCHANGED <<jobs, ingestionQueue, published,
                           objects, rawSignals, announced>>
    BY <2>2 DEF StageFails, SetupFails, MarkFailedLost, CrashWorker
  <2>3. ASSUME NEW w \in Workers, NEW m \in ingestionQueue, Receive(w, m)
        PROVE  UNCHANGED <<jobs, published, objects, rawSignals, announced>>
    BY <2>3 DEF Receive
  <2>4. ASSUME NEW m \in ingestionQueue, DeadLetter(m)
        PROVE  UNCHANGED <<jobs, published, objects, rawSignals, announced>>
    BY <2>4 DEF DeadLetter
  <2> QED
    BY <1>2, <2>1, <2>2, <2>3, <2>4 DEF CollectorNext
<1>3. ASSUME NEW s \in Sources, Retire(s), UNCHANGED collectorVars
      PROVE  UNCHANGED <<jobs, ingestionQueue, published,
                         objects, rawSignals, announced>>
  BY <1>3 DEF Retire, collectorVars
<1> QED
  BY <1>1, <1>2, <1>3 DEF Next

\* A step leaves a job's status alone, inserts the job, or changes the status
\* of a published job; only persisting evidence completes it.
LEMMA StatusSteps ==
  ASSUME IInv, Next, NEW j \in Jobs
  PROVE  \/ jobs'[j] = jobs[j]
         \/ jobs'[j] = "ENQUEUED" /\ \E p \in Schedulers : InsertJob(p, j)
         \/ /\ j \in published
            /\ jobs'[j] # "ABSENT"
            /\ jobs'[j] = "COMPLETED" =>
                 \E w \in Workers : Persist(w) /\ worker[w].job = j
<1>0. jobs \in [Jobs -> JobStatus \cup {"ABSENT"}]
  BY DEF IInv, TypeOK, StoreTypeOK
<1>1. ASSUME NEW p \in Schedulers, NEW i \in Jobs, InsertJob(p, i)
      PROVE  jobs'[j] = jobs[j] \/ (i = j /\ jobs'[j] = "ENQUEUED")
  BY <1>0, <1>1 DEF InsertJob
<1>2. ASSUME NEW p \in Schedulers, MarkDispatched(p)
      PROVE  \/ jobs'[j] = jobs[j]
             \/ j \in published /\ jobs'[j] = "DISPATCHED"
  BY <1>0, <1>2 DEF MarkDispatched, At, IInv, SchedulerKnows
<1>3. ASSUME NEW w \in Workers, LoadJob(w) \/ MarkFailed(w)
      PROVE  \/ jobs'[j] = jobs[j]
             \/ j \in published /\ jobs'[j] \in {"RUNNING", "FAILED"}
  BY <1>0, <1>3 DEF LoadJob, MarkFailed, In, IInv, MessagesBacked
<1>4. ASSUME NEW w \in Workers, Persist(w)
      PROVE  \/ jobs'[j] = jobs[j]
             \/ /\ j \in published
                /\ jobs'[j] = "COMPLETED"
                /\ worker[w].job = j
  BY <1>0, <1>4 DEF Persist, In, IInv, MessagesBacked
<1> QED
  BY <1>1, <1>2, <1>3, <1>4, Writers

\* Rows, publications, objects and raw signals are never taken back.
LEMMA NothingIsLost ==
  ASSUME IInv, Next
  PROVE  /\ \A j \in Jobs : Exists(j) => Exists(j)'
         /\ published \subseteq published'
         /\ objects \subseteq objects'
         /\ rawSignals \subseteq rawSignals'
         /\ announced \subseteq announced'
<1>1. \A j \in Jobs : Exists(j) => Exists(j)'
  BY StatusSteps DEF Exists
<1>2. published \subseteq published'
  BY Writers DEF PublishJob
<1>3. objects \subseteq objects'
  BY Writers DEF Archive
<1>4. rawSignals \subseteq rawSignals'
  BY Writers DEF Persist
<1>5. announced \subseteq announced'
  BY Writers DEF Announce
<1> QED
  BY <1>1, <1>2, <1>3, <1>4, <1>5

(***************************************************************************)
(* The parts of the invariant that say what is in the store                *)
(***************************************************************************)

\* A slot gets a second row only if a lease lapses.
LEMMA OneJobPerSlotKept ==
  ASSUME IInv, Next
  PROVE  OneJobPerSlot'
<1> SUFFICES ASSUME ~LeaseMayLapse, NEW i \in Jobs, NEW j \in Jobs,
                    Exists(i)', Exists(j)', i.slot = j.slot
             PROVE  i = j
  BY DEF OneJobPerSlot
<1> USE DEF Exists
<1>1. ASSUME NEW p \in Schedulers, NEW new \in Jobs, InsertJob(p, new)
      PROVE  /\ \A old \in Jobs : old # new => jobs'[old] = jobs[old]
             /\ \A old \in Jobs : old.slot = new.slot => ~Exists(old)
  <2>1. ~SlotRecorded(new.slot)
    BY <1>1 DEF InsertJob, At, IInv, LockHeld
  <2> QED
    BY <1>1, <2>1 DEF InsertJob, SlotRecorded, IInv, TypeOK, StoreTypeOK
<1>2. \A k \in Jobs : Exists(k)' =>
        Exists(k) \/ \E p \in Schedulers : InsertJob(p, k)
  BY StatusSteps DEF IInv, MessagesBacked
<1>3. CASE Exists(i) /\ Exists(j)
  BY <1>3 DEF IInv, OneJobPerSlot
<1> QED
  BY <1>1, <1>2, <1>3

\* Whatever changes a status other than an insert changes a published job's.
LEMMA UnsentIsRecoverableKept ==
  ASSUME IInv, Next
  PROVE  UnsentIsRecoverable'
BY StatusSteps, NothingIsLost DEF UnsentIsRecoverable, IInv, Exists

\* A job is completed with its evidence, which nothing takes away.
LEMMA CompletedHasEvidenceKept ==
  ASSUME IInv, Next
  PROVE  CompletedHasEvidence'
<1> SUFFICES ASSUME NEW j \in Jobs, jobs'[j] = "COMPLETED"
             PROVE  \E r \in rawSignals' :
                      r.job = j /\ <<j, r.content>> \in objects'
  BY DEF CompletedHasEvidence
<1>1. CASE jobs[j] = "COMPLETED"
  BY <1>1, NothingIsLost DEF IInv, CompletedHasEvidence
<1>2. ASSUME NEW w \in Workers, Persist(w), worker[w].job = j
      PROVE  \E r \in rawSignals' :
               r.job = j /\ <<j, r.content>> \in objects'
  <2>1. <<j, worker[w].content>> \in objects
    BY <1>2 DEF Persist, In, IInv, CollectorKnows
  <2>2. CASE worker[w].raw = Nothing
    <3> DEFINE new == [job |-> j, content |-> worker[w].content, by |-> w]
    <3>1. new \in rawSignals'
      BY <1>2, <2>2 DEF Persist
    <3> QED
      BY <2>1, <3>1, NothingIsLost
  <2>3. CASE worker[w].raw # Nothing
    BY <1>2, <2>3, NothingIsLost
       DEF Persist, In, IInv, CollectorKnows, EvidenceBacked
  <2> QED
    BY <2>2, <2>3
<1> QED
  BY <1>1, <1>2, StatusSteps

\* Objects are archived, rows persisted and announcements sent in this order.
LEMMA EvidenceBackedKept ==
  ASSUME IInv, Next
  PROVE  EvidenceBacked'
<1>1. \A o \in objects' : o[1] \in published'
  <2>1. ASSUME NEW w \in Workers, Archive(w)
        PROVE  \A o \in objects' : o[1] \in published
    BY <2>1 DEF Archive, In, IInv, MessagesBacked, EvidenceBacked
  <2> QED
    BY <2>1, Writers, NothingIsLost DEF IInv, EvidenceBacked
<1>2. \A r \in rawSignals' : <<r.job, r.content>> \in objects'
  <2>1. ASSUME NEW w \in Workers, Persist(w)
        PROVE  \A r \in rawSignals' : <<r.job, r.content>> \in objects
    <3> DEFINE new == [job |-> worker[w].job, content |-> worker[w].content,
                       by |-> w]
    <3>1. <<new.job, new.content>> \in objects
      BY <2>1 DEF Persist, In, IInv, CollectorKnows
    <3>2. rawSignals' \subseteq rawSignals \cup {new}
      BY <2>1 DEF Persist, In, IInv, CollectorKnows
    <3> QED
      BY <3>1, <3>2 DEF IInv, EvidenceBacked
  <2> QED
    BY <2>1, Writers, NothingIsLost DEF IInv, EvidenceBacked
<1>3. announced' \subseteq rawSignals'
  <2>1. ASSUME NEW w \in Workers, Announce(w)
        PROVE  announced' \subseteq rawSignals
    BY <2>1 DEF Announce, In, IInv, CollectorKnows, EvidenceBacked
  <2> QED
    BY <2>1, Writers, NothingIsLost DEF IInv, EvidenceBacked
<1> QED
  BY <1>1, <1>2, <1>3 DEF EvidenceBacked

(***************************************************************************)
(* The parts that say what a process knows                                 *)
(***************************************************************************)

\* The steps of scheduler p, its failures and losses included.
SchedulerStep(p) ==
  RunOnce(p) \/ CallFails(p) \/ UnlockedCallFails(p) \/ CrashScheduler(p)

\* Only a scheduler's own steps change its state.
LEMMA OwnScheduler ==
  ASSUME TypeOK, Next, NEW q \in Schedulers
  PROVE  sched'[q] = sched[q] \/ SchedulerStep(q)
<1>1. ASSUME NEW p \in Schedulers, SchedulerStep(p), p # q
      PROVE  sched'[q] = sched[q]
  <2>1. \E st : sched' = [sched EXCEPT ![p] = st]
    <3>1. CASE RunOnce(p)
      BY <3>1 DEF RunOnce, StartTick, EnterDueLoop, FinishTick, Acquire,
           SkipHeld, SelectFinds, SelectFindsNone, InsertJob, PublishJob,
           MarkDispatched, Release, Unwind, TickOver
    <3>2. CASE CallFails(p) \/ UnlockedCallFails(p) \/ CrashScheduler(p)
      BY <3>2 DEF CallFails, UnlockedCallFails, CrashScheduler, TickOver
    <3> QED
      BY <1>1, <3>1, <3>2 DEF SchedulerStep
  <2> QED
    BY <1>1, <2>1 DEF TypeOK, SchedTypeOK
<1>2. CASE UNCHANGED sched
  BY <1>2
<1>3. UNCHANGED sched \/ \E p \in Schedulers : SchedulerStep(p)
  BY DEF Next, SchedNext, SchedulerStep, schedVars, Expire, AdvanceClock
<1> QED
  BY <1>1, <1>2, <1>3

\* The steps of worker w.
WorkerStep(w) ==
  \/ \E m \in ingestionQueue : Receive(w, m)
  \/ Collect(w) \/ StageFails(w) \/ SetupFails(w)
  \/ MarkFailedLost(w) \/ CrashWorker(w)

\* Only a worker's own steps change its state.
LEMMA OwnWorker ==
  ASSUME TypeOK, Next, NEW v \in Workers
  PROVE  worker'[v] = worker[v] \/ WorkerStep(v)
<1>1. ASSUME NEW w \in Workers, WorkerStep(w), w # v
      PROVE  worker'[v] = worker[v]
  <2>1. \E st : worker' = [worker EXCEPT ![w] = st]
    <3>1. CASE Collect(w)
      BY <3>1 DEF Collect, LoadJob, SkipRetired, Fetch, FetchRefused, Archive,
           LookupRaw, Persist, Announce, MarkFailed, Settle
    <3>2. CASE StageFails(w) \/ SetupFails(w) \/ MarkFailedLost(w)
                 \/ CrashWorker(w)
      BY <3>2 DEF StageFails, SetupFails, MarkFailedLost, CrashWorker
    <3>3. ASSUME NEW m \in ingestionQueue, Receive(w, m)
          PROVE  \E st : worker' = [worker EXCEPT ![w] = st]
      BY <3>3 DEF Receive
    <3> QED
      BY <1>1, <3>1, <3>2, <3>3 DEF WorkerStep
  <2> QED
    BY <1>1, <2>1 DEF TypeOK, CollectorTypeOK
<1>2. CASE UNCHANGED worker
  BY <1>2
<1>3. UNCHANGED worker \/ \E w \in Workers : WorkerStep(w)
  BY DEF Next, CollectorNext, WorkerStep, collectorVars, DeadLetter
<1> QED
  BY <1>1, <1>2, <1>3

\* A worker that goes on with its message goes on with the same one.
LEMMA OwnJob ==
  ASSUME TypeOK, NEW w \in Workers,
         \/ Collect(w) \/ StageFails(w) \/ SetupFails(w)
         \/ MarkFailedLost(w) \/ CrashWorker(w),
         worker'[w].pc # "idle"
  PROVE  /\ worker[w].pc # "idle"
         /\ worker'[w].job = worker[w].job
         /\ worker'[w].copy = worker[w].copy
<1>0. worker \in [Workers -> WorkerState]
  BY DEF TypeOK, CollectorTypeOK
<1> DEFINE Same == /\ worker[w].pc # "idle"
                   /\ worker'[w].job = worker[w].job
                   /\ worker'[w].copy = worker[w].copy
<1> USE <1>0 DEF WorkerState, In
<1>1. ASSUME LoadJob(w) \/ Archive(w) \/ MarkFailed(w) \/ MarkFailedLost(w)
      PROVE  Same
  BY <1>1 DEF LoadJob, Archive, MarkFailed, MarkFailedLost
<1>2. CASE SkipRetired(w)
  BY <1>2 DEF SkipRetired
<1>3. ASSUME NEW c \in Contents, Fetch(w, c)
      PROVE  Same
  BY <1>3 DEF Fetch
<1>4. CASE FetchRefused(w)
  BY <1>4 DEF FetchRefused
<1>5. CASE LookupRaw(w)
  BY <1>5 DEF LookupRaw
<1>6. CASE Persist(w)
  <2>1. \E r : worker' = [worker EXCEPT ![w] =
                            [worker[w] EXCEPT !.pc = "announce", !.raw = r]]
    BY <1>6 DEF Persist
  <2> QED
    BY <1>6, <2>1 DEF Persist
<1>7. CASE Announce(w)
  BY <1>7 DEF Announce
<1>8. CASE StageFails(w)
  BY <1>8 DEF StageFails
<1>9. CASE SetupFails(w)
  <2>1. PICK outcome \in {"retry", "leave"} :
          worker' = [worker EXCEPT ![w] =
                       [worker[w] EXCEPT !.pc = "settle", !.outcome = outcome]]
    BY <1>9 DEF SetupFails
  <2> QED
    BY <1>9, <2>1 DEF SetupFails
<1>10. ~(Settle(w) \/ CrashWorker(w))
  BY DEF Settle, CrashWorker, Resting
<1> QED
  BY <1>1, <1>2, <1>3, <1>4, <1>5, <1>6, <1>7, <1>8, <1>9, <1>10 DEF Collect

\* The steps after which a scheduler is in no critical section.
LEMMA OutOfLock ==
  ASSUME TypeOK, NEW p \in Schedulers,
         \/ StartTick(p) \/ EnterDueLoop(p) \/ FinishTick(p)
         \/ Release(p) \/ Unwind(p)
         \/ UnlockedCallFails(p) \/ CrashScheduler(p)
  PROVE  sched'[p].pc \in {"idle", "loop"}
<1>0. sched \in [Schedulers -> SchedulerState]
  BY DEF TypeOK, SchedTypeOK
<1> USE <1>0 DEF SchedulerState
<1>1. CASE StartTick(p)
  BY <1>1 DEF StartTick
<1>2. CASE EnterDueLoop(p)
  BY <1>2 DEF EnterDueLoop, At
<1>3. CASE FinishTick(p)
  BY <1>3 DEF FinishTick
<1>4. CASE Release(p)
  BY <1>4 DEF Release
<1>5. CASE Unwind(p)
  BY <1>5 DEF Unwind, TickOver
<1>6. CASE UnlockedCallFails(p)
  BY <1>6 DEF UnlockedCallFails, TickOver
<1>7. CASE CrashScheduler(p)
  BY <1>7 DEF CrashScheduler, Idle
<1> QED
  BY <1>1, <1>2, <1>3, <1>4, <1>5, <1>6, <1>7

\* What a scheduler holds on to between its steps stays in the store.
LEMMA SchedulerKnowsKept ==
  ASSUME IInv, Next
  PROVE  SchedulerKnows'
<1> SUFFICES ASSUME NEW p \in Schedulers
             PROVE  /\ sched'[p].pc \in InLock => sched'[p].slot \in Slots
                    /\ sched'[p].pc \in {"publish", "mark"} =>
                         /\ sched'[p].job \in Jobs
                         /\ jobs'[sched'[p].job] # "ABSENT"
                    /\ sched'[p].pc = "mark" => sched'[p].job \in published'
  BY DEF SchedulerKnows, Exists
<1> DEFINE Keeps == /\ sched'[p].pc \in InLock => sched'[p].slot \in Slots
                    /\ sched'[p].pc \in {"publish", "mark"} =>
                         /\ sched'[p].job \in Jobs
                         /\ jobs'[sched'[p].job] # "ABSENT"
                    /\ sched'[p].pc = "mark" => sched'[p].job \in published'
<1>0. sched \in [Schedulers -> SchedulerState]
  BY DEF IInv, TypeOK, SchedTypeOK
<1>1. CASE sched'[p] = sched[p]
  BY <1>1, NothingIsLost DEF IInv, SchedulerKnows, Exists
<1>2. CASE sched'[p].pc \in {"idle", "loop"}
  BY <1>2 DEF InLock
<1>3. ASSUME NEW k \in Slots, Acquire(p, k)
      PROVE  Keeps
  BY <1>0, <1>3 DEF Acquire, SchedulerState
<1>4. ASSUME NEW k \in Slots, SkipHeld(p, k)
      PROVE  Keeps
  BY <1>0, <1>4 DEF SkipHeld, At, SchedulerState, InLock
<1>5. ASSUME NEW j \in Jobs, SelectFinds(p, j)
      PROVE  Keeps
  <2>1. sched[p].slot \in Slots
    BY <1>5 DEF SelectFinds, At, IInv, SchedulerKnows, InLock
  <2>2. /\ sched'[p].pc \in {"publish", "release"}
        /\ sched'[p].job = j
        /\ sched'[p].slot = sched[p].slot
    BY <1>0, <1>5 DEF SelectFinds, SchedulerState
  <2> QED
    BY <1>5, <2>1, <2>2, NothingIsLost DEF SelectFinds, Newest, Exists
<1>6. ASSUME NEW j \in Jobs, InsertJob(p, j)
      PROVE  Keeps
  <2>1. sched[p].slot \in Slots
    BY <1>6 DEF InsertJob, At, IInv, SchedulerKnows, InLock
  <2>2. /\ sched'[p].pc = "publish"
        /\ sched'[p].job = j
        /\ sched'[p].slot = sched[p].slot
    BY <1>0, <1>6 DEF InsertJob, SchedulerState
  <2>3. Exists(j)'
    BY <1>6 DEF InsertJob, Exists, IInv, TypeOK, StoreTypeOK
  <2> QED
    BY <2>1, <2>2, <2>3 DEF Exists
<1>7. CASE SelectFindsNone(p)
  BY <1>0, <1>7 DEF SelectFindsNone, At, SchedulerState, InLock,
                    IInv, SchedulerKnows
<1>8. CASE PublishJob(p)
  <2>1. /\ sched[p].slot \in Slots
        /\ sched[p].job \in Jobs
        /\ Exists(sched[p].job)
    BY <1>8 DEF PublishJob, At, IInv, SchedulerKnows, InLock
  <2>2. /\ sched'[p].pc = "mark"
        /\ sched'[p].slot = sched[p].slot
        /\ sched'[p].job = sched[p].job
        /\ sched[p].job \in published'
    BY <1>0, <1>8 DEF PublishJob, SchedulerState
  <2> QED
    BY <2>1, <2>2, NothingIsLost DEF Exists
<1>9. CASE MarkDispatched(p)
  BY <1>0, <1>9 DEF MarkDispatched, At, SchedulerState, InLock,
                    IInv, SchedulerKnows
<1>10. CASE CallFails(p)
  BY <1>0, <1>10 DEF CallFails, SchedulerState, InLock, IInv, SchedulerKnows
<1> QED
  <2>1. \/ sched'[p] = sched[p] \/ sched'[p].pc \in {"idle", "loop"}
        \/ CallFails(p)
        \/ \E k \in Slots : Acquire(p, k) \/ SkipHeld(p, k)
        \/ \E j \in Jobs : SelectFinds(p, j) \/ InsertJob(p, j)
        \/ SelectFindsNone(p) \/ PublishJob(p) \/ MarkDispatched(p)
    BY OutOfLock, OwnScheduler DEF SchedulerStep, RunOnce, IInv
  <2> QED
    BY <1>1, <1>2, <1>3, <1>4, <1>5, <1>6, <1>7, <1>8, <1>9, <1>10, <2>1

\* The lock's key changes only where it is free, its own scheduler's, an
\* orphan's, or lapsed.
LEMMA KeySteps ==
  ASSUME IInv, Next, NEW k \in Slots, NEW q \in Schedulers, lock[k] = q
  PROVE  \/ lock'[k] = q
         \/ LeaseMayLapse
         \/ Release(q) \/ Unwind(q) \/ UnlockedCallFails(q)
         \/ CrashScheduler(q)
<1>0. lock \in [Slots -> Schedulers \cup {Free, Orphan}]
  BY DEF IInv, TypeOK, SchedTypeOK
<1>1. ASSUME NEW p \in Schedulers, NEW i \in Slots, Acquire(p, i)
      PROVE  lock'[k] = q
  BY <1>0, <1>1 DEF Acquire, SchedulerAssumption
<1>2. ASSUME NEW p \in Schedulers, Release(p) \/ Unwind(p), p # q
      PROVE  lock'[k] = q
  BY <1>0, <1>2 DEF Release, Unwind, Released
<1>3. ASSUME NEW p \in Schedulers, UnlockedCallFails(p) \/ CrashScheduler(p),
             p # q
      PROVE  lock'[k] = q
  BY <1>0, <1>3 DEF UnlockedCallFails, CrashScheduler, Abandoned
<1>4. ASSUME NEW i \in Slots, Expire(i)
      PROVE  lock'[k] = q \/ LeaseMayLapse
  BY <1>0, <1>4 DEF Expire, SchedulerAssumption
<1>5. CASE UNCHANGED lock
  BY <1>5
<1>6. \/ UNCHANGED lock
      \/ \E p \in Schedulers : \/ \E i \in Slots : Acquire(p, i)
                               \/ Release(p) \/ Unwind(p)
                               \/ UnlockedCallFails(p) \/ CrashScheduler(p)
      \/ \E i \in Slots : Expire(i)
  <2>1. ASSUME NEW p \in Schedulers, RunOnce(p)
        PROVE  UNCHANGED lock \/ (\E i \in Slots : Acquire(p, i))
                 \/ Release(p) \/ Unwind(p)
    BY <2>1 DEF RunOnce, StartTick, EnterDueLoop, FinishTick, SkipHeld,
         SelectFinds, SelectFindsNone, InsertJob, PublishJob, MarkDispatched
  <2>2. ASSUME NEW p \in Schedulers, CallFails(p)
        PROVE  UNCHANGED lock
    BY <2>2 DEF CallFails
  <2> QED
    BY <2>1, <2>2 DEF Next, SchedNext, schedVars, AdvanceClock
<1> QED
  BY <1>1, <1>2, <1>3, <1>4, <1>5, <1>6

\* A scheduler in the critical section keeps its key, and a slot it found
\* unrecorded stays so.
LEMMA LockHeldKept ==
  ASSUME IInv, Next
  PROVE  LockHeld'
<1> SUFFICES ASSUME ~LeaseMayLapse, NEW p \in Schedulers,
                    sched'[p].pc \in InLock
             PROVE  /\ lock'[sched'[p].slot] = p
                    /\ sched'[p].pc = "insert" =>
                         ~SlotRecorded(sched[p].slot)'
  BY DEF LockHeld, InLock
<1>0. /\ sched \in [Schedulers -> SchedulerState]
      /\ lock \in [Slots -> Schedulers \cup {Free, Orphan}]
  BY DEF IInv, TypeOK, SchedTypeOK
<1>1. ~(Release(p) \/ Unwind(p) \/ UnlockedCallFails(p) \/ CrashScheduler(p))
  BY OutOfLock DEF IInv, InLock
<1>2. ASSUME NEW k \in Slots, Acquire(p, k)
      PROVE  sched'[p].pc = "select" /\ lock'[sched'[p].slot] = p
  BY <1>0, <1>2 DEF Acquire, SchedulerState
<1>3. ASSUME ~\E k \in Slots : Acquire(p, k)
      PROVE  /\ sched[p].pc \in InLock
             /\ sched'[p].slot = sched[p].slot
             /\ sched'[p].pc = "insert" =>
                  sched[p].pc = "insert" \/ SelectFindsNone(p)
  <2>1. CASE sched'[p] = sched[p]
    BY <2>1
  <2>2. ASSUME NEW k \in Slots, SkipHeld(p, k)
        PROVE  FALSE
    BY <1>0, <2>2 DEF SkipHeld, At, SchedulerState, InLock
  <2>3. ASSUME NEW j \in Jobs, SelectFinds(p, j)
        PROVE  /\ sched[p].pc \in InLock
               /\ sched'[p].slot = sched[p].slot
               /\ sched'[p].pc # "insert"
    BY <1>0, <2>3 DEF SelectFinds, At, SchedulerState, InLock
  <2>4. ASSUME NEW j \in Jobs, InsertJob(p, j)
        PROVE  /\ sched[p].pc \in InLock
               /\ sched'[p].slot = sched[p].slot
               /\ sched'[p].pc # "insert"
    BY <1>0, <2>4 DEF InsertJob, At, SchedulerState, InLock
  <2>5. CASE SelectFindsNone(p)
    BY <1>0, <2>5 DEF SelectFindsNone, At, SchedulerState, InLock
  <2>6. CASE PublishJob(p)
    BY <1>0, <2>6 DEF PublishJob, At, SchedulerState, InLock
  <2>7. CASE MarkDispatched(p)
    BY <1>0, <2>7 DEF MarkDispatched, At, SchedulerState, InLock
  <2>8. CASE CallFails(p)
    BY <1>0, <2>8 DEF CallFails, SchedulerState, InLock
  <2>9. ~(StartTick(p) \/ EnterDueLoop(p) \/ FinishTick(p))
    BY OutOfLock DEF IInv, InLock
  <2> QED
    BY <1>1, <1>3, <2>1, <2>2, <2>3, <2>4, <2>5, <2>6, <2>7, <2>8, <2>9,
       OwnScheduler DEF SchedulerStep, RunOnce, IInv
<1>4. ASSUME sched[p].pc \in InLock
      PROVE  lock[sched[p].slot] = p /\ lock'[sched[p].slot] = p
  BY <1>1, <1>4, KeySteps DEF IInv, LockHeld, SchedulerKnows
<1>5. ASSUME sched'[p].pc = "insert", ~\E k \in Slots : Acquire(p, k)
      PROVE  ~SlotRecorded(sched[p].slot)'
  <2> SUFFICES ASSUME NEW k, k = sched[p].slot
               PROVE  ~SlotRecorded(k)'
    BY <1>3, <1>5 DEF SlotRecorded, Exists
  <2>1. ~SlotRecorded(k)
    BY <1>3, <1>5 DEF SelectFindsNone, IInv, LockHeld, InLock
  <2>2. ASSUME NEW q \in Schedulers, NEW j \in Jobs, InsertJob(q, j), j.slot = k
        PROVE  FALSE
    <3>1. lock[k] = q
      BY <2>2 DEF InsertJob, At, IInv, LockHeld, InLock
    <3>2. q = p
      BY <1>3, <1>4, <1>5, <3>1
    <3> QED
      BY <1>0, <1>5, <2>2, <3>2 DEF InsertJob, SchedulerState
  <2> QED
    BY <2>1, <2>2, StatusSteps DEF SlotRecorded, Exists, IInv, MessagesBacked
<1> QED
  BY <1>2, <1>3, <1>4, <1>5

\* Messages, old and new, are those of published jobs.
LEMMA MessagesBackedKept ==
  ASSUME IInv, Next
  PROVE  MessagesBacked'
<1>1. \A j \in published' : Exists(j)'
  <2>1. ASSUME NEW p \in Schedulers, PublishJob(p)
        PROVE  \A j \in published' : Exists(j)
    BY <2>1 DEF PublishJob, At, IInv, MessagesBacked, SchedulerKnows
  <2>2. \A j \in published' : Exists(j) /\ j \in Jobs
    BY <2>1, Writers, Typed
       DEF IInv, MessagesBacked, TypeOK, StoreTypeOK
  <2> QED
    BY <2>2, NothingIsLost
<1>2. \A m \in ingestionQueue' : m.job \in published'
  <2>0. \A m \in ingestionQueue : m.job \in published
    BY DEF IInv, MessagesBacked
  <2>1. ASSUME NEW p \in Schedulers, PublishJob(p)
        PROVE  \A m \in ingestionQueue' : m.job \in published'
    <3>1. sched[p].job \in Jobs
      BY <2>1 DEF PublishJob, At, IInv, SchedulerKnows
    <3>2. \A m \in ingestionQueue' :
            m \in ingestionQueue \/ m.job = sched[p].job
      BY <2>1, <3>1, SendAddsOne DEF PublishJob, IInv, TypeOK, StoreTypeOK
    <3> QED
      BY <2>0, <2>1, <3>2 DEF PublishJob
  <2>2. ASSUME NEW w \in Workers, NEW m \in ingestionQueue, Receive(w, m)
        PROVE  \A n \in ingestionQueue' : n.job \in published
    <3>1. m \in Messages
      BY DEF IInv, TypeOK, StoreTypeOK
    <3>2. [m EXCEPT !.receives = m.receives + 1].job = m.job
      BY <3>1 DEF Messages
    <3> QED
      BY <2>0, <2>2, <3>2 DEF Receive
  <2>3. ASSUME NEW w \in Workers, Settle(w)
        PROVE  \A m \in ingestionQueue' : m.job \in published
    <3>1. worker[w].job \in published
      BY <2>3 DEF Settle, In, IInv, MessagesBacked
    <3> DEFINE retried == [job |-> worker[w].job, copy |-> worker[w].copy,
                           receives |-> 0, attempt |-> worker[w].attempt + 1]
    <3>2. retried.job \in published
      BY <3>1
    <3> HIDE DEF retried
    <3>3. ingestionQueue' \subseteq ingestionQueue \cup {retried}
      BY <2>3 DEF Settle, retried
    <3> QED
      BY <2>0, <3>2, <3>3
  <2>4. ASSUME NEW m \in ingestionQueue, DeadLetter(m)
        PROVE  ingestionQueue' \subseteq ingestionQueue
    BY <2>4 DEF DeadLetter
  <2> QED
    BY <2>0, <2>1, <2>2, <2>3, <2>4, Writers, NothingIsLost
<1>3. ASSUME NEW w \in Workers, worker'[w].pc # "idle"
      PROVE  worker'[w].job \in published' /\ worker'[w].copy # 0
  <2>0. worker \in [Workers -> WorkerState]
    BY DEF IInv, TypeOK, CollectorTypeOK
  <2>1. ASSUME NEW m \in ingestionQueue, Receive(w, m)
        PROVE  worker'[w].job = m.job /\ worker'[w].copy # 0
    <3>1. m.copy \in 1..MaxCopies
      BY DEF IInv, TypeOK, StoreTypeOK, Messages
    <3>2. worker'[w] = [Resting EXCEPT !.pc = "load", !.job = m.job,
                                       !.copy = m.copy, !.attempt = m.attempt]
      BY <2>0, <2>1 DEF Receive
    <3>3. worker'[w].job = m.job /\ worker'[w].copy = m.copy
      BY <3>2 DEF Resting
    <3> QED
      BY <3>1, <3>3
  <2>2. ASSUME ~\E m \in ingestionQueue : Receive(w, m)
        PROVE  /\ worker[w].pc # "idle"
               /\ worker'[w].job = worker[w].job
               /\ worker'[w].copy = worker[w].copy
    BY <1>3, <2>2, OwnJob, OwnWorker DEF IInv, WorkerStep
  <2> QED
    BY <2>1, <2>2, NothingIsLost DEF IInv, MessagesBacked
<1> QED
  BY <1>1, <1>2, <1>3 DEF MessagesBacked

\* The steps of a worker that take it to a stage where it holds nothing or
\* has announced what it held.
LEMMA StepsAside ==
  ASSUME IInv, Next, NEW w \in Workers,
         \/ \E m \in ingestionQueue : Receive(w, m)
         \/ LoadJob(w) \/ SkipRetired(w) \/ FetchRefused(w) \/ Announce(w)
         \/ MarkFailed(w) \/ Settle(w)
         \/ StageFails(w) \/ SetupFails(w) \/ MarkFailedLost(w) \/ CrashWorker(w)
  PROVE  LET st == worker'[w] IN
         /\ st.pc \in {"idle", "load", "fetch", "failing", "settle"}
         /\ st.pc \in {"load", "fetch"} => st.content = Nothing
         /\ st.pc \in {"failing", "settle"} /\ st.outcome = "ack" =>
              st.content = Nothing \/ \E r \in announced' : r.job = st.job
<1> DEFINE st == worker'[w]
           Aside == /\ st.pc \in {"idle", "load", "fetch", "failing", "settle"}
                    /\ st.pc \in {"load", "fetch"} => st.content = Nothing
                    /\ st.pc \in {"failing", "settle"} /\ st.outcome = "ack" =>
                         \/ st.content = Nothing
                         \/ \E r \in announced' : r.job = st.job
<1>0. worker \in [Workers -> WorkerState]
  BY DEF IInv, TypeOK, CollectorTypeOK
<1>k. LET old == worker[w] IN
      /\ old.pc \in {"load", "fetch"} => old.content = Nothing
      /\ old.pc \in {"failing", "settle"} /\ old.outcome = "ack" =>
           old.content = Nothing \/ \E r \in announced : r.job = old.job
      /\ old.pc = "announce" => old.raw.job = old.job
  BY DEF IInv, CollectorKnows, Announced
<1> USE <1>0 DEF WorkerState
<1>1. ASSUME NEW m \in ingestionQueue, Receive(w, m)
      PROVE  Aside
  <2>1. worker'[w].pc = "load" /\ worker'[w].content = Nothing
    BY <1>1 DEF Receive, Resting
  <2> QED
    BY <2>1
<1>2. ASSUME LoadJob(w)
      PROVE  Aside
  BY <1>2, <1>k DEF LoadJob, In
<1>3. ASSUME SkipRetired(w)
      PROVE  Aside
  <2>1. worker'[w].pc = "settle" /\ worker'[w].content = worker[w].content
    BY <1>3 DEF SkipRetired
  <2> QED
    BY <1>3, <1>k, <2>1 DEF SkipRetired, In
<1>4. ASSUME FetchRefused(w)
      PROVE  Aside
  <2>1. worker'[w].pc = "failing" /\ worker'[w].content = worker[w].content
    BY <1>4 DEF FetchRefused
  <2> QED
    BY <1>4, <1>k, <2>1 DEF FetchRefused, In
<1>5. ASSUME Announce(w)
      PROVE  Aside
  <2>1. worker'[w].pc = "settle" /\ worker'[w].job = worker[w].job
    BY <1>5 DEF Announce
  <2>2. worker[w].raw \in announced' /\ worker[w].raw.job = worker[w].job
    BY <1>5, <1>k DEF Announce, In
  <2> QED
    BY <2>1, <2>2
<1>6. ASSUME MarkFailed(w) \/ MarkFailedLost(w)
      PROVE  Aside
  <2>1. /\ worker'[w].pc = "settle"
        /\ worker'[w].job = worker[w].job
        /\ worker'[w].content = worker[w].content
        /\ worker'[w].outcome = worker[w].outcome
    BY <1>6 DEF MarkFailed, MarkFailedLost
  <2>2. worker[w].pc = "failing" /\ UNCHANGED announced
    BY <1>6 DEF MarkFailed, MarkFailedLost, In
  <2> QED
    BY <1>k, <2>1, <2>2
<1>7. ASSUME Settle(w) \/ CrashWorker(w)
      PROVE  Aside
  BY <1>7 DEF Settle, CrashWorker, Resting
<1>8. ASSUME StageFails(w)
      PROVE  Aside
  <2>1. worker'[w].pc = "failing" /\ worker'[w].outcome # "ack"
    BY <1>8 DEF StageFails
  <2> QED
    BY <2>1
<1>9. ASSUME SetupFails(w)
      PROVE  Aside
  <2>1. worker'[w].pc = "settle" /\ worker'[w].outcome # "ack"
    BY <1>9 DEF SetupFails
  <2> QED
    BY <2>1
<1> QED
  BY <1>1, <1>2, <1>3, <1>4, <1>5, <1>6, <1>7, <1>8, <1>9

\* What a worker holds on to between its steps stays in the store.
LEMMA CollectorKnowsKept ==
  ASSUME IInv, Next
  PROVE  CollectorKnows'
<1> SUFFICES ASSUME NEW w \in Workers
             PROVE  LET st == worker'[w] IN
               /\ st.pc \in {"archive", "lookup", "persist", "announce"} =>
                    st.content \in Contents
               /\ st.pc \in {"lookup", "persist", "announce"} =>
                    <<st.job, st.content>> \in objects'
               /\ (st.pc = "persist" /\ st.raw # Nothing) \/ st.pc = "announce" =>
                    st.raw \in rawSignals' /\ st.raw.job = st.job
               /\ st.pc \in {"load", "fetch"} => st.content = Nothing
               /\ st.pc \in {"failing", "settle"} /\ st.outcome = "ack" =>
                    st.content = Nothing \/ \E r \in announced' : r.job = st.job
  BY DEF CollectorKnows, Announced
<1> DEFINE st == worker'[w]
           Knows == /\ st.pc \in {"archive", "lookup", "persist", "announce"} =>
                         st.content \in Contents
                    /\ st.pc \in {"lookup", "persist", "announce"} =>
                         <<st.job, st.content>> \in objects'
                    /\ (st.pc = "persist" /\ st.raw # Nothing)
                         \/ st.pc = "announce" =>
                         st.raw \in rawSignals' /\ st.raw.job = st.job
                    /\ st.pc \in {"load", "fetch"} => st.content = Nothing
                    /\ st.pc \in {"failing", "settle"} /\ st.outcome = "ack" =>
                         \/ st.content = Nothing
                         \/ \E r \in announced' : r.job = st.job
<1>0. worker \in [Workers -> WorkerState]
  BY DEF IInv, TypeOK, CollectorTypeOK
<1>1. CASE worker'[w] = worker[w]
  BY <1>1, NothingIsLost DEF IInv, CollectorKnows, Announced
<1>2. ASSUME \/ \E m \in ingestionQueue : Receive(w, m)
             \/ LoadJob(w) \/ SkipRetired(w) \/ FetchRefused(w)
             \/ Announce(w) \/ MarkFailed(w) \/ Settle(w)
             \/ StageFails(w) \/ SetupFails(w) \/ MarkFailedLost(w)
             \/ CrashWorker(w)
      PROVE  Knows
  BY <1>2, StepsAside
<1>3. ASSUME NEW c \in Contents, Fetch(w, c)
      PROVE  Knows
  BY <1>0, <1>3 DEF Fetch, WorkerState
<1>4. CASE Archive(w)
  <2>1. /\ worker'[w].pc = "lookup"
        /\ worker'[w].job = worker[w].job
        /\ worker'[w].content = worker[w].content
    BY <1>0, <1>4 DEF Archive, WorkerState
  <2>2. worker[w].content \in Contents
    BY <1>4 DEF Archive, In, IInv, CollectorKnows
  <2> QED
    BY <1>4, <2>1, <2>2 DEF Archive
<1>5. CASE LookupRaw(w)
  <2>1. PICK r \in rawSignals \cup {Nothing} :
          /\ r # Nothing => r.job = worker[w].job
          /\ worker' = [worker EXCEPT ![w] =
                          [worker[w] EXCEPT !.pc = "persist", !.raw = r]]
    BY <1>5 DEF LookupRaw, RowsFor
  <2>2. /\ worker'[w].pc = "persist"
        /\ worker'[w].job = worker[w].job
        /\ worker'[w].content = worker[w].content
        /\ worker'[w].raw = r
    BY <1>0, <2>1 DEF WorkerState
  <2>3. /\ worker[w].content \in Contents
        /\ <<worker[w].job, worker[w].content>> \in objects
    BY <1>5 DEF LookupRaw, In, IInv, CollectorKnows
  <2> QED
    BY <2>1, <2>2, <2>3, NothingIsLost
<1>6. CASE Persist(w)
  <2>1. PICK r :
          /\ r \in rawSignals' /\ r.job = worker[w].job
          /\ worker' = [worker EXCEPT ![w] =
                          [worker[w] EXCEPT !.pc = "announce", !.raw = r]]
    BY <1>6 DEF Persist, In, IInv, CollectorKnows
  <2>2. /\ worker'[w].pc = "announce"
        /\ worker'[w].job = worker[w].job
        /\ worker'[w].content = worker[w].content
        /\ worker'[w].raw = r
    BY <1>0, <2>1 DEF WorkerState
  <2>3. /\ worker[w].content \in Contents
        /\ <<worker[w].job, worker[w].content>> \in objects
    BY <1>6 DEF Persist, In, IInv, CollectorKnows
  <2> QED
    BY <2>1, <2>2, <2>3, NothingIsLost
<1> QED
  BY <1>1, <1>2, <1>3, <1>4, <1>5, <1>6, OwnWorker
     DEF WorkerStep, Collect, IInv

(***************************************************************************)
(* What a tick of a scheduler covers                                       *)
(***************************************************************************)

\* Until a first fault, nothing has failed.
LEMMA NoFaultYet ==
  ASSUME IInv, Next, faults' = 0
  PROVE  /\ faults = 0
         /\ \A p \in Schedulers :
              ~(CallFails(p) \/ UnlockedCallFails(p) \/ CrashScheduler(p))
<1>0. faults \in Nat
  BY DEF IInv, TypeOK, StoreTypeOK
<1>1. ~Fault
  BY <1>0 DEF Fault
<1>2. UNCHANGED faults
  <2>1. CASE SchedNext /\ UNCHANGED collectorVars
    BY <1>1, <2>1 DEF SchedNext, RunOnce, StartTick, EnterDueLoop, FinishTick,
         Acquire, SkipHeld, SelectFinds, SelectFindsNone, InsertJob, PublishJob,
         MarkDispatched, Release, Unwind, CallFails, UnlockedCallFails,
         CrashScheduler, Expire, AdvanceClock, storeVars
  <2>2. CASE CollectorNext /\ UNCHANGED schedVars
    BY <1>1, <2>2 DEF CollectorNext, Collect, Receive, LoadJob, SkipRetired,
         Fetch, FetchRefused, Archive, LookupRaw, Persist, Announce, MarkFailed,
         Settle, StageFails, SetupFails, MarkFailedLost, CrashWorker, DeadLetter,
         storeVars
  <2> QED
    BY <2>1, <2>2 DEF Next, Retire
<1> QED
  BY <1>1, <1>2 DEF CallFails, UnlockedCallFails, CrashScheduler

\* A scheduler about to insert a slot's job inserts it, or finds it inserted.
LEMMA CoveredStays ==
  ASSUME IInv, Next, faults' = 0, NEW k \in Slots, Covered(k)
  PROVE  Covered(k)'
<1>0. sched \in [Schedulers -> SchedulerState]
  BY DEF IInv, TypeOK, SchedTypeOK
<1>1. ASSUME SlotRecorded(k)
      PROVE  SlotRecorded(k)'
  BY <1>1, NothingIsLost DEF SlotRecorded
<1>2. ASSUME NEW p \in Schedulers, sched[p].pc \in {"select", "insert"},
             sched[p].slot = k
      PROVE  \/ SlotRecorded(k)'
             \/ sched'[p].pc \in {"select", "insert"} /\ sched'[p].slot = k
  <2>1. ASSUME NEW j \in Jobs, SelectFinds(p, j)
        PROVE  SlotRecorded(k)'
    <3>1. SlotRecorded(k)
      BY <1>2, <2>1 DEF SelectFinds, Newest, SlotRecorded
    <3> QED
      BY <1>1, <3>1
  <2>2. ASSUME NEW j \in Jobs, InsertJob(p, j)
        PROVE  SlotRecorded(k)'
    <3>1. Exists(j)'
      BY <2>2 DEF InsertJob, Exists, IInv, TypeOK, StoreTypeOK
    <3> QED
      BY <1>2, <2>2, <3>1 DEF InsertJob, SlotRecorded
  <2>3. ASSUME SelectFindsNone(p)
        PROVE  sched'[p].pc = "insert" /\ sched'[p].slot = k
    BY <1>0, <1>2, <2>3 DEF SelectFindsNone, SchedulerState
  <2>4. \/ sched'[p] = sched[p]
        \/ \E j \in Jobs : SelectFinds(p, j) \/ InsertJob(p, j)
        \/ SelectFindsNone(p)
    <3>1. sched'[p] = sched[p] \/ RunOnce(p)
      BY NoFaultYet, OwnScheduler DEF SchedulerStep, IInv
    <3> QED
      BY <1>2, <3>1 DEF RunOnce, StartTick, EnterDueLoop, FinishTick, Acquire,
           SkipHeld, PublishJob, MarkDispatched, Release, Unwind, At
  <2> QED
    BY <1>2, <2>1, <2>2, <2>3, <2>4
<1> QED
  BY <1>1, <1>2 DEF Covered

\* A key taken is a slot about to be looked up.
LEMMA AcquiredIsCovered ==
  ASSUME IInv, NEW p \in Schedulers, NEW k \in Slots, Acquire(p, k)
  PROVE  Covered(k)'
<1>1. sched'[p].pc = "select" /\ sched'[p].slot = k
  BY DEF Acquire, IInv, TypeOK, SchedTypeOK, SchedulerState
<1> QED
  BY <1>1 DEF Covered

\* Without faults, a key stands for a job recorded or about to be.
LEMMA KeysStayCovered ==
  ASSUME IInv, TickKnows, Next, faults' = 0, NEW k \in Slots, lock'[k] # Free
  PROVE  Covered(k)'
<1>0. lock \in [Slots -> Schedulers \cup {Free, Orphan}]
  BY DEF IInv, TypeOK, SchedTypeOK
<1>1. CASE lock[k] # Free
  BY <1>1, NoFaultYet, CoveredStays DEF TickKnows
<1>2. ASSUME lock[k] = Free
      PROVE  \E p \in Schedulers : Acquire(p, k)
  <2>1. ASSUME NEW p \in Schedulers, NEW i \in Slots, Acquire(p, i)
        PROVE  i = k
    BY <1>0, <1>2, <2>1 DEF Acquire
  <2>2. ASSUME NEW p \in Schedulers, Release(p) \/ Unwind(p)
        PROVE  FALSE
    BY <1>0, <1>2, <2>2 DEF Release, Unwind, Released, SchedulerAssumption
  <2>3. ASSUME NEW i \in Slots, Expire(i)
        PROVE  FALSE
    BY <1>0, <1>2, <2>3 DEF Expire
  <2>4. lock' # lock
    BY <1>2
  <2>5. ASSUME NEW p \in Schedulers, RunOnce(p)
        PROVE  \E i \in Slots : Acquire(p, i)
    BY <2>2, <2>4, <2>5 DEF RunOnce, StartTick, EnterDueLoop, FinishTick,
         SkipHeld, SelectFinds, SelectFindsNone, InsertJob, PublishJob,
         MarkDispatched
  <2> QED
    BY <2>1, <2>3, <2>4, <2>5, NoFaultYet
       DEF Next, SchedNext, schedVars, AdvanceClock
<1> QED
  BY <1>1, <1>2, AcquiredIsCovered

\* A step of scheduler p in its due loop takes covered slots only off its list.
LEMMA VisitedIsCovered ==
  ASSUME IInv, TickKnows, Next, faults' = 0, NEW p \in Schedulers,
         sched'[p].pc # "idle", sched'[p].loop = "due",
         NEW k \in DueIn(sched[p].window)'
  PROVE  k \in sched'[p].todo \/ Covered(k)'
<1>0. /\ sched \in [Schedulers -> SchedulerState]
      /\ k \in Slots
      /\ k \in DueIn(sched'[p].window)
  <2>0. /\ k \in Due
        /\ k[1] \in active'
        /\ k[2] = sched'[p].window
    BY DEF DueIn
  <2>1. active' \subseteq active
    BY DEF Next, SchedNext, CollectorNext, RunOnce, StartTick, EnterDueLoop,
         FinishTick, Acquire, SkipHeld, SelectFinds, SelectFindsNone, InsertJob,
         PublishJob, MarkDispatched, Release, Unwind, CallFails,
         UnlockedCallFails, CrashScheduler, Expire, AdvanceClock, Collect,
         Receive, LoadJob, SkipRetired, Fetch, FetchRefused, Archive, LookupRaw,
         Persist, Announce, MarkFailed, Settle, StageFails, SetupFails,
         MarkFailedLost, CrashWorker, DeadLetter, Retire, storeVars
  <2> QED
    BY <2>0, <2>1 DEF DueIn, IInv, TypeOK, SchedTypeOK, StoreAssumption, Slots,
                      Windows
<1> DEFINE Was == /\ sched[p].pc # "idle"
                  /\ sched[p].loop = "due"
                  /\ sched'[p].window = sched[p].window
<1>1. ASSUME Was
      PROVE  k \in sched[p].todo \/ Covered(k)
  BY <1>0, <1>1, NoFaultYet DEF TickKnows, At
<1>2. ASSUME Was, sched'[p].todo = sched[p].todo
      PROVE  k \in sched'[p].todo \/ Covered(k)'
  BY <1>0, <1>1, <1>2, CoveredStays
<1>3. CASE EnterDueLoop(p)
  <2>1. sched'[p].todo = DueIn(sched[p].window)
        /\ sched'[p].window = sched[p].window
    BY <1>0, <1>3 DEF EnterDueLoop, SchedulerState
  <2> QED
    BY <1>0, <2>1
<1>4. ASSUME NEW i \in Slots, Acquire(p, i)
      PROVE  k \in sched'[p].todo \/ Covered(k)'
  <2>1. Was /\ sched'[p].todo = sched[p].todo \ {i}
    BY <1>0, <1>4 DEF Acquire, At, SchedulerState
  <2> QED
    BY <1>0, <1>1, <1>4, <2>1, AcquiredIsCovered, CoveredStays
<1>5. ASSUME NEW i \in Slots, SkipHeld(p, i)
      PROVE  k \in sched'[p].todo \/ Covered(k)'
  <2>1. Was /\ sched'[p].todo = sched[p].todo \ {i}
    BY <1>0, <1>5 DEF SkipHeld, At, SchedulerState
  <2>2. Covered(i)
    BY <1>5, NoFaultYet DEF SkipHeld, TickKnows
  <2> QED
    BY <1>0, <1>1, <2>1, <2>2, CoveredStays
<1>6. ~(StartTick(p) \/ FinishTick(p) \/ Unwind(p))
  <2>1. ~StartTick(p)
    BY <1>0 DEF StartTick, SchedulerState
  <2>2. ~FinishTick(p)
    <3>1. ASSUME FinishTick(p)
          PROVE  sched'[p] = [sched[p] EXCEPT !.pc = "idle",
                                              !.ticked = sched[p].window]
      BY <1>0, <3>1 DEF FinishTick
    <3> QED
      BY <1>0, <3>1 DEF SchedulerState
  <2>3. ~Unwind(p)
    BY <1>0 DEF Unwind, TickOver, SchedulerState
  <2> QED
    BY <2>1, <2>2, <2>3
<1>7. ASSUME \/ \E j \in Jobs : SelectFinds(p, j) \/ InsertJob(p, j)
             \/ SelectFindsNone(p) \/ PublishJob(p) \/ MarkDispatched(p)
             \/ Release(p)
      PROVE  Was /\ sched'[p].todo = sched[p].todo
  <2>1. ASSUME NEW j \in Jobs, SelectFinds(p, j)
        PROVE  Was /\ sched'[p].todo = sched[p].todo
    BY <1>0, <2>1 DEF SelectFinds, At, SchedulerState
  <2>2. ASSUME NEW j \in Jobs, InsertJob(p, j)
        PROVE  Was /\ sched'[p].todo = sched[p].todo
    BY <1>0, <2>2 DEF InsertJob, At, SchedulerState
  <2>3. ASSUME SelectFindsNone(p) \/ PublishJob(p) \/ MarkDispatched(p)
                 \/ Release(p)
        PROVE  Was /\ sched'[p].todo = sched[p].todo
    BY <1>0, <2>3 DEF SelectFindsNone, PublishJob, MarkDispatched, Release, At,
                      SchedulerState
  <2> QED
    BY <1>7, <2>1, <2>2, <2>3
<1> QED
  <2>1. sched'[p] = sched[p] \/ RunOnce(p)
    BY NoFaultYet, OwnScheduler DEF SchedulerStep, IInv
  <2>2. CASE sched'[p] = sched[p]
    BY <1>2, <2>2
  <2> QED
    BY <1>2, <1>3, <1>4, <1>5, <1>6, <1>7, <2>1, <2>2 DEF RunOnce

(***************************************************************************)
(* Theorems                                                                *)
(***************************************************************************)

\* The inductive invariant: what the store holds together with what each
\* process knows of it holds in every reachable state.
THEOREM Invariance == Spec => []IInv
<1>1. Init => IInv
  <2>1. ASSUME Init
        PROVE  TypeOK
    <3>1. Idle \in SchedulerState /\ Resting \in WorkerState
      BY DEF Idle, SchedulerState, Loops, Resting, WorkerState, StoreAssumption
    <3> QED
      BY <2>1, <3>1 DEF Init, StoreInit, SchedInit, CollectorInit, TypeOK,
           StoreTypeOK, SchedTypeOK, CollectorTypeOK, Windows, StoreAssumption
  <2>2. ASSUME Init
        PROVE  SchedulerKnows /\ LockHeld /\ MessagesBacked /\ CollectorKnows
    BY <2>2 DEF Init, StoreInit, SchedInit, CollectorInit, Idle, Resting,
         SchedulerKnows, LockHeld, MessagesBacked, CollectorKnows, InLock
  <2>3. ASSUME Init
        PROVE  /\ EvidenceBacked /\ OneJobPerSlot /\ UnsentIsRecoverable
               /\ CompletedHasEvidence
    BY <2>3 DEF Init, StoreInit, CollectorInit, EvidenceBacked, OneJobPerSlot,
         UnsentIsRecoverable, CompletedHasEvidence, Exists
  <2> QED
    BY <2>1, <2>2, <2>3 DEF IInv
<1>2. IInv /\ [Next]_vars => IInv'
  <2>1. ASSUME IInv, Next
        PROVE  IInv'
    <3>1. TypeOK'
      BY <2>1, Typed DEF IInv
    <3>2. SchedulerKnows' /\ LockHeld' /\ MessagesBacked' /\ CollectorKnows'
      BY <2>1, SchedulerKnowsKept, LockHeldKept, MessagesBackedKept,
         CollectorKnowsKept
    <3>3. /\ EvidenceBacked' /\ OneJobPerSlot' /\ UnsentIsRecoverable'
          /\ CompletedHasEvidence'
      BY <2>1, EvidenceBackedKept, OneJobPerSlotKept, UnsentIsRecoverableKept,
         CompletedHasEvidenceKept
    <3> QED
      BY <3>1, <3>2, <3>3 DEF IInv
  <2>2. ASSUME IInv, UNCHANGED vars
        PROVE  IInv'
    BY <2>2 DEF IInv, vars, storeVars, schedVars, collectorVars, TypeOK,
         StoreTypeOK, SchedTypeOK, CollectorTypeOK, SchedulerKnows, LockHeld,
         MessagesBacked, CollectorKnows, EvidenceBacked, OneJobPerSlot,
         UnsentIsRecoverable, CompletedHasEvidence, Exists, SlotRecorded,
         Announced
  <2> QED
    BY <2>1, <2>2
<1> QED
  BY <1>1, <1>2, PTL DEF Spec

\* The state is well formed whatever the schedulers and the collectors do.
THEOREM TypeCorrectness == Spec => []TypeOK
BY Invariance, PTL DEF IInv

\* Two schedulers never insert two jobs for one slot while leases outlive the
\* work done under them.
THEOREM AtMostOneJob == Spec => []OneJobPerSlot
BY Invariance, PTL DEF IInv

\* The recovery loop's query misses no job whose event was never sent.
THEOREM RecoveryMissesNothing == Spec => []UnsentIsRecoverable
BY Invariance, PTL DEF IInv

\* A COMPLETED job's bytes are in the archive and its raw signal in the table,
\* for any number of concurrent and repeated deliveries.
THEOREM EvidenceOfCompletion == Spec => []CompletedHasEvidence
BY Invariance, PTL DEF IInv

\* Without faults, what a tick has left behind is covered: the invariant that
\* stands for the history of the slots it visited.
THEOREM TicksKnow == Spec => []TickKnows
<1>1. Init => TickKnows
  BY DEF Init, SchedInit, TickKnows, Idle, At
<1>2. IInv /\ TickKnows /\ [Next]_vars => TickKnows'
  <2>1. ASSUME IInv, TickKnows, Next
        PROVE  TickKnows'
    <3>1. ASSUME faults' = 0, NEW k \in Slots, lock'[k] # Free
          PROVE  Covered(k)'
      BY <2>1, <3>1, KeysStayCovered
    <3>2. ASSUME faults' = 0, NEW p \in Schedulers,
                 sched'[p].pc # "idle", sched'[p].loop = "due",
                 NEW k \in DueIn(sched[p].window)'
          PROVE  k \in sched'[p].todo \/ Covered(k)'
      BY <2>1, <3>2, VisitedIsCovered
    <3> QED
      BY <3>1, <3>2 DEF TickKnows, At
  <2>2. ASSUME TickKnows, UNCHANGED vars
        PROVE  TickKnows'
    BY <2>2 DEF TickKnows, vars, storeVars, schedVars, At, Covered, DueIn,
         SlotRecorded, Exists
  <2> QED
    BY <2>1, <2>2
<1> QED
  BY <1>1, <1>2, Invariance, PTL DEF Spec

\* Whatever other schedulers do in between, leases lapsing under them
\* included, a tick that ends without a fault has covered every due slot.
THEOREM DueIsCovered == Spec => TickCoversDue
<1>1. ASSUME IInv, TickKnows, Next, NEW p \in Schedulers,
             At(p, "loop"), sched'[p].pc = "idle", faults' = 0,
             NEW k \in DueIn(sched[p].window)
      PROVE  Covered(k)
  <2>0. sched \in [Schedulers -> SchedulerState]
    BY <1>1 DEF IInv, TypeOK, SchedTypeOK
  <2>1. FinishTick(p)
    <3>1. RunOnce(p)
      BY <1>1, NoFaultYet, OwnScheduler DEF SchedulerStep, IInv, At
    <3>2. ~EnterDueLoop(p)
      BY <1>1, <2>0 DEF EnterDueLoop, At, SchedulerState
    <3>3. ASSUME NEW i \in Slots
          PROVE  ~SkipHeld(p, i) /\ ~Acquire(p, i)
      <4>1. ~SkipHeld(p, i)
        BY <1>1, <2>0 DEF SkipHeld, At, SchedulerState
      <4>2. ~Acquire(p, i)
        <5>1. Acquire(p, i) => sched'[p].pc = "select"
          BY <2>0 DEF Acquire, SchedulerState
        <5> QED
          BY <1>1, <5>1
      <4> QED
        BY <4>1, <4>2
    <3> QED
      BY <1>1, <3>1, <3>2, <3>3 DEF RunOnce, StartTick, SelectFinds, InsertJob,
           SelectFindsNone, PublishJob, MarkDispatched, Release, Unwind, At
  <2>2. sched[p].loop = "due" /\ sched[p].todo = {}
    BY <2>1 DEF FinishTick
  <2> QED
    BY <1>1, <2>2, NoFaultYet DEF TickKnows, At
<1>2. IInv /\ TickKnows /\ [Next]_vars =>
        [\A p \in Schedulers :
           At(p, "loop") /\ sched'[p].pc = "idle" /\ faults' = 0 =>
             \A k \in DueIn(sched[p].window) : Covered(k)]_vars
  BY <1>1
<1> QED
  BY <1>2, Invariance, TicksKnow, PTL DEF Spec, TickCoversDue

(***************************************************************************)
(* Refinement                                                              *)
(***************************************************************************)

\* A step writes one of the ledgers at most.
LEMMA LedgerSteps ==
  ASSUME Next
  PROVE  \/ \E p \in Schedulers, j \in Jobs :
              /\ InsertJob(p, j)
              /\ UNCHANGED <<published, objects, rawSignals, announced>>
         \/ \E p \in Schedulers :
              /\ PublishJob(p)
              /\ UNCHANGED <<jobs, objects, rawSignals, announced>>
         \/ \E w \in Workers :
              /\ Archive(w)
              /\ UNCHANGED <<jobs, published, rawSignals, announced>>
         \/ \E w \in Workers :
              /\ Persist(w)
              /\ UNCHANGED <<published, objects, announced>>
         \/ \E w \in Workers :
              /\ Announce(w)
              /\ UNCHANGED <<jobs, published, objects, rawSignals>>
         \/ UNCHANGED <<published, objects, rawSignals, announced>>
<1>1. CASE SchedNext /\ UNCHANGED collectorVars
  <2>1. UNCHANGED <<objects, rawSignals, announced>>
    BY <1>1 DEF collectorVars
  <2>2. UNCHANGED published
          \/ \E p \in Schedulers : PublishJob(p) /\ UNCHANGED jobs
    BY Writers DEF PublishJob
  <2> QED
    BY <2>1, <2>2
<1>2. CASE CollectorNext /\ UNCHANGED schedVars
  <2>1. UNCHANGED published
    <3>1. ASSUME NEW p \in Schedulers, PublishJob(p)
          PROVE  UNCHANGED published
      BY <1>2, <3>1 DEF PublishJob, CollectorNext, schedVars, At, Collect,
           Receive, LoadJob, SkipRetired, Fetch, FetchRefused, Archive,
           LookupRaw, Persist, Announce, MarkFailed, Settle, StageFails,
           SetupFails, MarkFailedLost, CrashWorker, DeadLetter, storeVars
    <3> QED
      BY <3>1, Writers
  <2>2. ASSUME NEW w \in Workers, Archive(w)
        PROVE  UNCHANGED <<jobs, rawSignals, announced>>
    BY <2>2 DEF Archive, storeVars
  <2>3. ASSUME NEW w \in Workers, Persist(w)
        PROVE  UNCHANGED <<objects, announced>>
    BY <2>3 DEF Persist
  <2>4. ASSUME NEW w \in Workers, Announce(w)
        PROVE  UNCHANGED <<jobs, objects, rawSignals>>
    BY <2>4 DEF Announce, storeVars
  <2> QED
    BY <2>1, <2>2, <2>3, <2>4, Writers
<1>3. ASSUME NEW s \in Sources, Retire(s), UNCHANGED collectorVars
      PROVE  UNCHANGED <<published, objects, rawSignals, announced>>
  BY <1>3 DEF Retire, collectorVars
<1> QED
  BY <1>1, <1>2, <1>3 DEF Next

\* Ingestion implements the ledger: through crashes, lapsed leases, retries
\* and redeliveries each step enters at most one line in one ledger, and only
\* with its entry in the ledger before.
THEOREM ImplementsLedger == Spec => KeepsLedger
<1>1. Init => Ledger!Init
  BY DEF Init, StoreInit, CollectorInit, Ledger!Init, SlotRecorded, Exists
<1>2. IInv /\ [Next]_vars => [Ledger!Next]_(Ledger!ledger)
  <2>1. CASE UNCHANGED vars
    BY <2>1 DEF vars, storeVars, collectorVars, Ledger!ledger, SlotRecorded,
         Exists
  <2> SUFFICES ASSUME IInv, Next
               PROVE  [Ledger!Next]_(Ledger!ledger)
    BY <2>1
  <2>t. /\ published \subseteq Jobs
        /\ jobs \in [Jobs -> JobStatus \cup {"ABSENT"}]
    BY DEF IInv, TypeOK, StoreTypeOK
  <2>r. (\A p \in Schedulers, j \in Jobs : ~InsertJob(p, j)) =>
          {k \in Slots : SlotRecorded(k)}' = {k \in Slots : SlotRecorded(k)}
    <3> SUFFICES ASSUME \A p \in Schedulers, j \in Jobs : ~InsertJob(p, j)
                 PROVE  \A k \in Slots : SlotRecorded(k)' <=> SlotRecorded(k)
      OBVIOUS
    <3>1. \A j \in published : Exists(j)
      BY DEF IInv, MessagesBacked
    <3>2. ASSUME NEW j \in Jobs
          PROVE  Exists(j)' <=> Exists(j)
      <4>1. \/ jobs'[j] = jobs[j]
            \/ j \in published /\ jobs'[j] # "ABSENT"
        BY StatusSteps
      <4> QED
        BY <4>1, <3>1 DEF Exists
    <3> QED
      BY <3>2 DEF SlotRecorded
  <2>2. ASSUME NEW p \in Schedulers, NEW j \in Jobs, InsertJob(p, j)
        PROVE  Ledger!Next
    <3>0. UNCHANGED <<published, objects, rawSignals, announced>>
      <4>1. sched' # sched
        <5>1. sched \in [Schedulers -> SchedulerState] /\ sched[p].pc = "insert"
          BY <2>2 DEF InsertJob, At, IInv, TypeOK, SchedTypeOK
        <5>2. sched[p] \in SchedulerState
          BY <5>1
        <5>3. [sched[p] EXCEPT !.pc = "publish", !.job = j].pc = "publish"
          BY <5>2 DEF SchedulerState
        <5>4. sched'[p] = [sched[p] EXCEPT !.pc = "publish", !.job = j]
          BY <2>2, <5>1 DEF InsertJob
        <5> QED
          BY <5>1, <5>3, <5>4
      <4> QED
        BY <2>2, <4>1 DEF InsertJob, Next, schedVars, collectorVars
    <3>1. j.slot \in Slots
      BY DEF Jobs
    <3>2. {k \in Slots : SlotRecorded(k)}'
            = {k \in Slots : SlotRecorded(k)} \cup {j.slot}
      <4>1. \A i \in Jobs : Exists(i)' <=> Exists(i) \/ i = j
        BY <2>t, <2>2 DEF InsertJob, Exists
      <4> QED
        BY <3>1, <4>1 DEF SlotRecorded
    <3>3. Ledger!Record(j.slot)
      BY <3>0, <3>2 DEF Ledger!Record
    <3> QED
      BY <3>1, <3>3 DEF Ledger!Next
  <2> SUFFICES ASSUME \A p \in Schedulers, j \in Jobs : ~InsertJob(p, j)
               PROVE  [Ledger!Next]_(Ledger!ledger)
    BY <2>2
  <2>3. ASSUME NEW p \in Schedulers, PublishJob(p),
               UNCHANGED <<jobs, objects, rawSignals, announced>>
        PROVE  Ledger!Next
    <3>0. PICK k : k = sched[p].job.slot
      OBVIOUS
    <3>1. sched[p].job \in Jobs /\ Exists(sched[p].job)
      BY <2>3 DEF PublishJob, At, IInv, SchedulerKnows
    <3>2. k \in Slots /\ SlotRecorded(k)
      BY <3>0, <3>1 DEF Jobs, SlotRecorded
    <3>3. Ledger!Dispatch(k)
      BY <2>3, <2>r, <3>0, <3>2 DEF PublishJob, Ledger!Dispatch
    <3> QED
      BY <3>2, <3>3 DEF Ledger!Next
  <2>4. ASSUME NEW w \in Workers, Archive(w),
               UNCHANGED <<jobs, published, rawSignals, announced>>
        PROVE  Ledger!Next
    <3>0. PICK e : e = <<worker[w].job.slot, worker[w].content>>
      OBVIOUS
    <3>1. /\ worker[w].job \in published
          /\ worker[w].content \in Contents
      BY <2>4 DEF Archive, In, IInv, MessagesBacked, CollectorKnows
    <3>2. e \in Slots \X Contents
      BY <2>t, <3>0, <3>1 DEF Jobs
    <3>3. {<<o[1].slot, o[2]>> : o \in objects'}
            = {<<o[1].slot, o[2]>> : o \in objects} \cup {e}
      <4> DEFINE new == <<worker[w].job, worker[w].content>>
      <4>1. objects' = objects \cup {new}
        BY <2>4 DEF Archive
      <4>2. e = <<new[1].slot, new[2]>>
        BY <3>0
      <4> HIDE DEF new
      <4> QED
        BY <4>1, <4>2
    <3>4. Ledger!Archive(e)
      BY <2>4, <2>r, <3>0, <3>1, <3>3 DEF Ledger!Archive
    <3> QED
      BY <3>2, <3>4 DEF Ledger!Next, Ledger!Evidence
  <2>5. ASSUME NEW w \in Workers, Persist(w),
               UNCHANGED <<published, objects, announced>>
        PROVE  [Ledger!Next]_(Ledger!ledger)
    <3>0. PICK e : e = <<worker[w].job.slot, worker[w].content>>
      OBVIOUS
    <3> DEFINE new == [job |-> worker[w].job, content |-> worker[w].content,
                       by |-> w]
    <3>1. /\ worker[w].job \in published
          /\ worker[w].content \in Contents
          /\ <<worker[w].job, worker[w].content>> \in objects
      BY <2>5 DEF Persist, In, IInv, MessagesBacked, CollectorKnows
    <3>2. e \in Slots \X Contents
      BY <2>t, <3>0, <3>1 DEF Jobs
    <3>3. CASE worker[w].raw = Nothing
      <4>1. rawSignals' = rawSignals \cup {new}
        BY <2>5, <3>3 DEF Persist
      <4>2. {<<r.job.slot, r.content>> : r \in rawSignals'}
              = {<<r.job.slot, r.content>> : r \in rawSignals} \cup {e}
        <5>1. e = <<new.job.slot, new.content>>
          BY <3>0
        <5> HIDE DEF new
        <5> QED
          BY <4>1, <5>1
      <4>3. Ledger!Persist(e)
        BY <2>5, <2>r, <3>0, <3>1, <4>2 DEF Ledger!Persist
      <4> QED
        BY <3>2, <4>3 DEF Ledger!Next, Ledger!Evidence
    <3>4. CASE worker[w].raw # Nothing
      <4>1. UNCHANGED rawSignals
        BY <2>5, <3>4 DEF Persist, In, IInv, CollectorKnows
      <4> QED
        BY <2>5, <2>r, <4>1 DEF Ledger!ledger
    <3> QED
      BY <3>3, <3>4
  <2>6. ASSUME NEW w \in Workers, Announce(w),
               UNCHANGED <<jobs, published, objects, rawSignals>>
        PROVE  Ledger!Next
    <3>0. PICK e : e = <<worker[w].raw.job.slot, worker[w].raw.content>>
      OBVIOUS
    <3>1. worker[w].raw \in rawSignals
      BY <2>6 DEF Announce, In, IInv, CollectorKnows
    <3>2. e \in Slots \X Contents
      BY <3>0, <3>1 DEF IInv, TypeOK, CollectorTypeOK, RawSignals, Jobs
    <3>3. Ledger!Announce(e)
      BY <2>6, <2>r, <3>0, <3>1 DEF Announce, Ledger!Announce
    <3> QED
      BY <3>2, <3>3 DEF Ledger!Next, Ledger!Evidence
  <2> QED
    BY <2>2, <2>3, <2>4, <2>5, <2>6, <2>r, LedgerSteps DEF Ledger!ledger
<1> QED
  BY <1>1, <1>2, Invariance, PTL DEF Spec, KeepsLedger, Ledger!Spec

\* A job's last message leaves the queue only when its evidence is announced,
\* for the dead letters, or because its source was refused or retired.
THEOREM NoWorkIsDropped == Spec => NoWorkDropped
<1> DEFINE Accounted(j) == \/ Announced(j)
                           \/ j \in deadLetters'
                           \/ \E w \in Workers : GivesUp(w, j)
<1>1. ASSUME IInv, Next, NEW j \in Jobs, HasMessage(j), ~HasMessage(j)'
      PROVE  Accounted(j)
  <2>0. PICK m \in ingestionQueue : m.job = j
    BY <1>1 DEF HasMessage
  <2>1. m \notin ingestionQueue'
    BY <1>1, <2>0 DEF HasMessage
  <2>2. ASSUME NEW p \in Schedulers, PublishJob(p)
        PROVE  FALSE
    BY <2>1, <2>2 DEF PublishJob, Send
  <2>3. ASSUME NEW w \in Workers, NEW n \in ingestionQueue, Receive(w, n)
        PROVE  FALSE
    <3>1. n \in Messages
      BY <1>1 DEF IInv, TypeOK, StoreTypeOK
    <3>2. [n EXCEPT !.receives = n.receives + 1].job = n.job
      BY <3>1 DEF Messages
    <3>3. n = m
      BY <2>1, <2>3 DEF Receive
    <3> QED
      BY <1>1, <2>0, <2>3, <3>2, <3>3 DEF Receive, HasMessage
  <2>4. ASSUME NEW n \in ingestionQueue, DeadLetter(n)
        PROVE  Accounted(j)
    BY <2>0, <2>1, <2>4 DEF DeadLetter
  <2>5. ASSUME NEW w \in Workers, Settle(w)
        PROVE  Accounted(j)
    <3>1. m \in Delivered(w)
      BY <2>1, <2>5 DEF Settle
    <3>2. worker[w].job = j /\ In(w, "settle")
      BY <2>0, <2>5, <3>1 DEF Delivered, IsDelivery, Settle
    <3>3. worker[w].outcome = "ack"
      <4> DEFINE retried == [job |-> worker[w].job, copy |-> worker[w].copy,
                             receives |-> 0, attempt |-> worker[w].attempt + 1]
      <4>1. retried.job = j
        BY <3>2
      <4>2. retried \notin ingestionQueue'
        BY <1>1, <4>1 DEF HasMessage
      <4> HIDE DEF retried
      <4>3. \/ worker[w].outcome = "ack"
            \/ retried \in ingestionQueue'
            \/ UNCHANGED ingestionQueue
        BY <2>5 DEF Settle, retried
      <4> QED
        BY <2>0, <2>1, <4>2, <4>3
    <3>4. worker[w].content = Nothing \/ Announced(j)
      BY <1>1, <3>2, <3>3 DEF IInv, CollectorKnows, In
    <3> QED
      BY <3>2, <3>3, <3>4 DEF GivesUp
  <2>6. CASE UNCHANGED ingestionQueue
    BY <2>0, <2>1, <2>6
  <2> QED
    BY <1>1, <2>2, <2>3, <2>4, <2>5, <2>6, Writers
<1>2. IInv /\ [Next]_vars =>
        [\A j \in Jobs : HasMessage(j) /\ ~HasMessage(j)' => Accounted(j)]_vars
  BY <1>1
<1> QED
  BY <1>2, Invariance, PTL DEF Spec, NoWorkDropped
=============================================================================
