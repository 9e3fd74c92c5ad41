------------------------------- MODULE Ingestion -------------------------------
(***************************************************************************)
(* Ingestion: the schedulers and the collectors over the store they share. *)
(***************************************************************************)
EXTENDS SourceScheduler, Collector

vars == <<storeVars, schedVars, collectorVars>>

Init == StoreInit /\ SchedInit /\ CollectorInit

Next ==
  \/ SchedNext /\ UNCHANGED collectorVars
  \/ CollectorNext /\ UNCHANGED schedVars
  \/ \E s \in Sources : Retire(s) /\ UNCHANGED <<schedVars, collectorVars>>

Spec == Init /\ [][Next]_vars

(***************************************************************************)
(* Fairness: processes that run go on, keys expire, a minute passes, and   *)
(* SQS delivers what is visible.  Faults, refusals and retirements are not *)
(* fair: they need not happen.                                             *)
(***************************************************************************)
Scheduling == \A p \in Schedulers : WF_vars(RunOnce(p) /\ UNCHANGED collectorVars)

Collecting ==
  \A w \in Workers : WF_vars(Collect(w) /\ UNCHANGED schedVars)

Delivering ==
  /\ \A j \in Jobs : SF_vars(/\ \E w \in Workers, m \in ingestionQueue :
                                   m.job = j /\ Receive(w, m)
                             /\ UNCHANGED schedVars)
  /\ WF_vars((\E m \in ingestionQueue : DeadLetter(m)) /\ UNCHANGED schedVars)

Time ==
  /\ \A k \in Slots : WF_vars(lock[k] = Orphan /\ Expire(k) /\ UNCHANGED collectorVars)
  /\ WF_vars(AdvanceClock /\ UNCHANGED collectorVars)

FairSpec == Spec /\ Scheduling /\ Collecting /\ Delivering /\ Time

(***************************************************************************)
(* Safety                                                                  *)
(***************************************************************************)

\* The state of the store, the schedulers and the collectors is well formed.
TypeOK == StoreTypeOK /\ SchedTypeOK /\ CollectorTypeOK

\* The Redis lock keeps two schedulers from both finding no row and both
\* inserting one, although collection_jobs has no unique key on the slot: a
\* slot has at most one job as long as no lease lapses under its holder.
OneJobPerSlot ==
  LeaseMayLapse \/
  \A i, j \in Jobs : Exists(i) /\ Exists(j) /\ i.slot = j.slot => i = j

\* No status but ENQUEUED is ever reached by a job whose event was not sent:
\* recoverable_jobs, which looks for ENQUEUED only, misses no unsent job.
UnsentIsRecoverable ==
  \A j \in Jobs : Exists(j) /\ j \notin published => jobs[j] = "ENQUEUED"

\* A COMPLETED job has a raw signal whose bytes are archived.
CompletedHasEvidence ==
  \A j \in Jobs : jobs[j] = "COMPLETED" =>
    \E r \in rawSignals : r.job = j /\ <<j, r.content>> \in objects

\* Slot k has its job, or a scheduler holding the lock is about to insert it.
Covered(k) ==
  \/ SlotRecorded(k)
  \/ \E p \in Schedulers : /\ sched[p].pc \in {"select", "insert"}
                          /\ sched[p].slot = k

\* Without faults, a finished tick leaves no due slot of its minute without a
\* job, except where another scheduler holding the lock is about to insert it.
TickCoversDue ==
  [][\A p \in Schedulers :
       At(p, "loop") /\ sched'[p].pc = "idle" /\ faults' = 0 =>
         \A k \in DueIn(sched[p].window) : Covered(k)]_vars

HasMessage(j) == \E m \in ingestionQueue : m.job = j

Announced(j) == \E r \in announced : r.job = j

\* Worker w acknowledges job j empty-handed: a refused or retired source.
GivesUp(w, j) ==
  /\ In(w, "settle")
  /\ worker[w].job = j
  /\ worker[w].outcome = "ack"
  /\ worker[w].content = Nothing

\* The last message of a job disappears only with its evidence announced, to
\* the dead letters, or by the acknowledgement of a worker whose source was
\* refused or retired: no crash, exception or redelivery drops work.
NoWorkDropped ==
  [][\A j \in Jobs : HasMessage(j) /\ ~HasMessage(j)' =>
       \/ Announced(j)
       \/ j \in deadLetters'
       \/ \E w \in Workers : GivesUp(w, j)]_vars

(***************************************************************************)
(* The inductive invariant behind the safety properties: what each process *)
(* knows of the store while it is between two of its steps.                *)
(***************************************************************************)
SchedulerKnows ==
  \A p \in Schedulers :
    /\ sched[p].pc \in InLock => sched[p].slot \in Slots
    /\ sched[p].pc \in {"publish", "mark"} =>
         sched[p].job \in Jobs /\ Exists(sched[p].job)
    /\ sched[p].pc = "mark" => sched[p].job \in published

\* With leases that outlive their holders' work, the key holds the token of
\* whoever is in the critical section, so what was not found is still absent.
LockHeld ==
  LeaseMayLapse \/
  \A p \in Schedulers :
    /\ sched[p].pc \in InLock => lock[sched[p].slot] = p
    /\ sched[p].pc = "insert" => ~SlotRecorded(sched[p].slot)

\* A message, and a worker processing one, belongs to a published job, and a
\* published job has its row.
MessagesBacked ==
  /\ \A j \in published : Exists(j)
  /\ \A m \in ingestionQueue : m.job \in published
  /\ \A w \in Workers : worker[w].pc # "idle" =>
       worker[w].job \in published /\ worker[w].copy # 0

CollectorKnows ==
  \A w \in Workers :
    LET st == worker[w] IN
    /\ st.pc \in {"archive", "lookup", "persist", "announce"} =>
         st.content \in Contents
    /\ st.pc \in {"lookup", "persist", "announce"} =>
         <<st.job, st.content>> \in objects
    /\ (st.pc = "persist" /\ st.raw # Nothing) \/ st.pc = "announce" =>
         st.raw \in rawSignals /\ st.raw.job = st.job
    /\ st.pc \in {"load", "fetch"} => st.content = Nothing
    /\ st.pc \in {"failing", "settle"} /\ st.outcome = "ack" =>
         st.content = Nothing \/ Announced(st.job)

EvidenceBacked ==
  /\ \A o \in objects : o[1] \in published
  /\ \A r \in rawSignals : <<r.job, r.content>> \in objects
  /\ announced \subseteq rawSignals

IInv ==
  /\ TypeOK
  /\ SchedulerKnows
  /\ LockHeld
  /\ MessagesBacked
  /\ CollectorKnows
  /\ EvidenceBacked
  /\ OneJobPerSlot
  /\ UnsentIsRecoverable
  /\ CompletedHasEvidence

\* Without faults, what the due loop no longer has before it is covered: it
\* visited the slot, or passed it over because of a key that stands for a job
\* recorded or about to be.
TickKnows ==
  faults = 0 =>
    /\ \A k \in Slots : lock[k] # Free => Covered(k)
    /\ \A p \in Schedulers :
         ~At(p, "idle") /\ sched[p].loop = "due" =>
           \A k \in DueIn(sched[p].window) : k \in sched[p].todo \/ Covered(k)

(***************************************************************************)
(* What ingestion promises: each action below is one entry in a ledger.    *)
(***************************************************************************)
Ledger == INSTANCE CollectionLedger WITH
  Slot <- Slots,
  Content <- Contents,
  recorded <- {k \in Slots : SlotRecorded(k)},
  dispatched <- {j.slot : j \in published},
  archived <- {<<o[1].slot, o[2]>> : o \in objects},
  persisted <- {<<r.job.slot, r.content>> : r \in rawSignals},
  announced <- {<<r.job.slot, r.content>> : r \in announced}

\* Through crashes, lapsed leases and redeliveries, no slot is dispatched
\* unrecorded, nothing is archived for a slot not dispatched, persisted
\* before it is archived or announced before it is persisted.
KeepsLedger == Ledger!Spec

(***************************************************************************)
(* Liveness                                                                *)
(***************************************************************************)

\* A slot with a job is dispatched in the end, whichever scheduler crashed
\* before sending, unless its source is retired first.
RecordedIsDispatched ==
  \A k \in Slots : SlotRecorded(k) ~>
    (\E j \in published : j.slot = k) \/ k[1] \notin active

\* No message goes round for ever: retries and receives run out.
QueueDrains == \A j \in Jobs : HasMessage(j) ~> ~HasMessage(j)

\* A worker gave up on a refused source and writing FAILED failed too.
FailureRecordLost(j) ==
  jobs[j] \in {"RUNNING", "DISPATCHED"} /\ ~HasMessage(j)

\* While a source serves the same bytes, a raw signal committed before a crash
\* is announced by a later delivery, or its job has failed for all to see.
PersistedIsAnnounced ==
  \A r \in RawSignals : r \in rawSignals ~>
    \/ r \in announced
    \/ jobs[r.job] = "FAILED" \/ r.job \in deadLetters
    \/ r.job.slot[1] \notin active
    \/ FailureRecordLost(r.job)

(***************************************************************************)
(* What the DLQ runbook says of a failed collection.                       *)
(***************************************************************************)

\* A failure recorded on an acknowledged job stays recorded: mark_dispatched,
\* which tests nothing, does not write DISPATCHED over it.
FailureStaysRecorded ==
  [][\A j \in Jobs :
       jobs[j] = "FAILED" /\ ~HasMessage(j) => jobs'[j] = "FAILED"]_vars
=============================================================================
