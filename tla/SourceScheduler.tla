---------------------------- MODULE SourceScheduler ----------------------------
(***************************************************************************)
(* SourceScheduler.run_once under the per-minute loop of the scheduler     *)
(* service.  Several schedulers run at once while a deployment replaces    *)
(* one by the next.  Each database, Redis and SQS round trip is an action. *)
(***************************************************************************)
EXTENDS IngestionStore

CONSTANTS
  Schedulers,
  LeaseMayLapse,  \* may a lock's 55 s pass while its holder is still working?
  Free,           \* no lock key
  Orphan,         \* a lock key whose holder is gone
  None            \* no slot, job or window yet

ASSUME SchedulerAssumption ==
  /\ LeaseMayLapse \in BOOLEAN
  /\ Free \notin Schedulers
  /\ Orphan \notin Schedulers
  /\ Free # Orphan
  /\ None \notin Windows

VARIABLES
  clock,  \* the current minute
  lock,   \* per slot, whose token the Redis key holds
  sched   \* per scheduler, the progress of run_once

schedVars == <<clock, lock, sched>>

Loops == {"recover", "due"}
InLock == {"select", "insert", "publish", "mark", "release", "unwind"}

SchedulerState ==
  [pc     : {"idle", "loop"} \cup InLock,
   loop   : Loops,                    \* which of run_once's two loops
   window : Windows \cup {None},      \* scheduled_at of this tick
   todo   : SUBSET Slots,             \* what the loop has still to visit
   slot   : Slots \cup {None},
   job    : Jobs \cup {None},
   ticked : Windows \cup {None}]      \* the last minute this process ticked

Idle == [pc |-> "idle", loop |-> "recover", window |-> None, todo |-> {},
         slot |-> None, job |-> None, ticked |-> None]

SchedInit ==
  /\ clock = 0
  /\ lock = [k \in Slots |-> Free]
  /\ sched = [p \in Schedulers |-> Idle]

\* Mutant: recovery looks for jobs that were dispatched, not for unsent ones.
RecoverableDispatched == {k \in Slots : k[1] \in active /\
                            \E j \in Jobs : j.slot = k /\ jobs[j] = "DISPATCHED"}

\* Slots of ENQUEUED jobs of active sources: recoverable_jobs.
Recoverable == {k \in Slots : k[1] \in active /\
                  \E j \in Jobs : j.slot = k /\ jobs[j] = "ENQUEUED"}

\* Active sources whose cron expression matches the minute.
DueIn(window) == {k \in Due : k[1] \in active /\ k[2] = window}

At(p, pc) == sched[p].pc = pc

(***************************************************************************)
(* run_once                                                                *)
(***************************************************************************)

\* serve() ticks once a minute, and at once after a start.  In the last
\* window, which stands for all later minutes, ticks go on.
StartTick(p) ==
  /\ At(p, "idle")
  /\ sched[p].ticked # clock \/ clock = LastWindow
  /\ sched' = [sched EXCEPT ![p] =
         [@ EXCEPT !.pc = "loop", !.loop = "recover",
                   !.window = clock, !.todo = Recoverable]]
  /\ UNCHANGED <<clock, lock, storeVars>>

\* Mutant: the due loop reads the clock again.
EnterDueLoopLate(p) ==
  /\ At(p, "loop")
  /\ sched[p].loop = "recover"
  /\ sched[p].todo = {}
  /\ sched' = [sched EXCEPT ![p] =
         [@ EXCEPT !.loop = "due", !.todo = DueIn(clock)]]
  /\ UNCHANGED <<clock, lock, storeVars>>

\* The recovery loop is done: read the active sources that are due.
EnterDueLoop(p) ==
  /\ At(p, "loop")
  /\ sched[p].loop = "recover"
  /\ sched[p].todo = {}
  /\ sched' = [sched EXCEPT ![p] =
         [@ EXCEPT !.loop = "due",
                   !.todo = DueIn(sched[p].window)]]
  /\ UNCHANGED <<clock, lock, storeVars>>

FinishTick(p) ==
  /\ At(p, "loop")
  /\ sched[p].loop = "due"
  /\ sched[p].todo = {}
  /\ sched' = [sched EXCEPT ![p] =
         [@ EXCEPT !.pc = "idle", !.ticked = sched[p].window]]
  /\ UNCHANGED <<clock, lock, storeVars>>

\* Mutant: SET without NX.
AcquireAnyway(p, k) ==
  /\ At(p, "loop")
  /\ k \in sched[p].todo
  /\ lock' = [lock EXCEPT ![k] = p]
  /\ sched' = [sched EXCEPT ![p] =
         [@ EXCEPT !.pc = "select", !.slot = k,
                   !.todo = sched[p].todo \ {k}]]
  /\ UNCHANGED <<clock, storeVars>>

\* SET key token NX EX 55
Acquire(p, k) ==
  /\ At(p, "loop")
  /\ k \in sched[p].todo
  /\ lock[k] = Free
  /\ lock' = [lock EXCEPT ![k] = p]
  /\ sched' = [sched EXCEPT ![p] =
         [@ EXCEPT !.pc = "select", !.slot = k,
                   !.todo = sched[p].todo \ {k}]]
  /\ UNCHANGED <<clock, storeVars>>

\* The key exists: the slot is passed over.
SkipHeld(p, k) ==
  /\ At(p, "loop")
  /\ k \in sched[p].todo
  /\ lock[k] # Free
  /\ sched' = [sched EXCEPT ![p].todo = @ \ {k}]
  /\ UNCHANGED <<clock, lock, storeVars>>

\* should_publish
ShouldPublish(status) == status # "DISPATCHED"

\* create_or_recover_job finds a row; its commit frees the row lock.
SelectFinds(p, j) ==
  /\ At(p, "select")
  /\ j.slot = sched[p].slot
  /\ Newest(j)
  /\ sched' = [sched EXCEPT ![p] =
         [@ EXCEPT !.job = j,
                   !.pc = IF ShouldPublish(jobs[j]) THEN "publish" ELSE "release"]]
  /\ UNCHANGED <<clock, lock, storeVars>>

\* It finds none; FOR UPDATE has nothing to lock.
SelectFindsNone(p) ==
  /\ At(p, "select")
  /\ ~SlotRecorded(sched[p].slot)
  /\ sched' = [sched EXCEPT ![p].pc = "insert"]
  /\ UNCHANGED <<clock, lock, storeVars>>

InsertJob(p, j) ==
  /\ At(p, "insert")
  /\ j.slot = sched[p].slot
  /\ ~Exists(j)
  /\ jobs' = [jobs EXCEPT ![j] = "ENQUEUED"]
  /\ sched' = [sched EXCEPT ![p] =
         [@ EXCEPT !.pc = "publish", !.job = j]]
  /\ UNCHANGED <<clock, lock, active, ingestionQueue, published, faults>>

\* Mutant: an exception of send_task is swallowed.
PublishSwallowed(p) ==
  /\ At(p, "publish")
  /\ sched' = [sched EXCEPT ![p].pc = "mark"]
  /\ UNCHANGED <<clock, lock, storeVars>>

PublishJob(p) ==
  /\ At(p, "publish")
  /\ Send(sched[p].job)
  /\ published' = published \cup {sched[p].job}
  /\ sched' = [sched EXCEPT ![p].pc = "mark"]
  /\ UNCHANGED <<clock, lock, active, jobs, faults>>

\* mark_dispatched, whatever the status has become
MarkDispatched(p) ==
  /\ At(p, "mark")
  /\ jobs' = [jobs EXCEPT ![sched[p].job] = "DISPATCHED"]
  /\ sched' = [sched EXCEPT ![p].pc = "release"]
  /\ UNCHANGED <<clock, lock, active, ingestionQueue, published, faults>>

\* Keys whose token nobody knows any more.
Abandoned(p) == [k \in Slots |-> IF lock[k] = p THEN Orphan ELSE lock[k]]

\* Delete the key if it still holds the caller's token.
Released(p) ==
  [lock EXCEPT ![sched[p].slot] = IF @ = p THEN Free ELSE @]

Release(p) ==
  /\ At(p, "release")
  /\ lock' = Released(p)
  /\ sched' = [sched EXCEPT ![p].pc = "loop"]
  /\ UNCHANGED <<clock, storeVars>>

\* A call raises: the lock's context manager releases, the tick is over.
CallFails(p) ==
  /\ sched[p].pc \in {"select", "insert", "publish", "mark"}
  /\ Fault
  /\ sched' = [sched EXCEPT ![p].pc = "unwind"]
  /\ UNCHANGED <<clock, lock, active, jobs, ingestionQueue, published>>

\* serve() logs the exception and waits for the next minute.
TickOver(p) ==
  sched' = [sched EXCEPT ![p] =
         [@ EXCEPT !.pc = "idle", !.todo = {},
                   !.ticked = sched[p].window]]

Unwind(p) ==
  /\ At(p, "unwind")
  /\ lock' = Released(p)
  /\ TickOver(p)
  /\ UNCHANGED <<clock, storeVars>>

\* Outside a lock, or releasing one, nothing is left to unwind: a key that
\* was not deleted waits for its time to live.
UnlockedCallFails(p) ==
  /\ sched[p].pc \in {"loop", "release", "unwind"}
  /\ Fault
  /\ TickOver(p)
  /\ lock' = Abandoned(p)
  /\ UNCHANGED <<clock, active, jobs, ingestionQueue, published>>

(***************************************************************************)
(* Environment                                                             *)
(***************************************************************************)

\* The process is lost and a new one takes its place: nothing releases.
CrashScheduler(p) ==
  /\ ~At(p, "idle")
  /\ Fault
  /\ sched' = [sched EXCEPT ![p] = Idle]
  /\ lock' = Abandoned(p)
  /\ UNCHANGED <<clock, active, jobs, ingestionQueue, published>>

\* The key's time to live passes.
Expire(k) ==
  /\ lock[k] # Free
  /\ lock[k] = Orphan \/ LeaseMayLapse
  /\ lock' = [lock EXCEPT ![k] = Free]
  /\ UNCHANGED <<clock, sched, storeVars>>

AdvanceClock ==
  /\ clock < LastWindow
  /\ clock' = clock + 1
  /\ UNCHANGED <<lock, sched, storeVars>>

RunOnce(p) ==
  \/ StartTick(p) \/ EnterDueLoop(p) \/ FinishTick(p)
  \/ \E k \in Slots : Acquire(p, k) \/ SkipHeld(p, k)
  \/ \E j \in Jobs : SelectFinds(p, j) \/ InsertJob(p, j)
  \/ SelectFindsNone(p) \/ PublishJob(p) \/ MarkDispatched(p)
  \/ Release(p) \/ Unwind(p)

SchedNext ==
  \/ \E p \in Schedulers : RunOnce(p) \/ CallFails(p)
                               \/ UnlockedCallFails(p) \/ CrashScheduler(p)
  \/ \E k \in Slots : Expire(k)
  \/ AdvanceClock

SchedTypeOK ==
  /\ clock \in Windows
  /\ lock \in [Slots -> Schedulers \cup {Free, Orphan}]
  /\ sched \in [Schedulers -> SchedulerState]
=============================================================================
