------------------------------- MODULE Collector -------------------------------
(***************************************************************************)
(* The collect_source task on a pool of workers: load the job, fetch the   *)
(* source, archive the bytes in S3, persist the raw signal, announce it.   *)
(* The message is acknowledged last.                                       *)
(***************************************************************************)
EXTENDS IngestionStore

CONSTANTS
  Workers,
  Contents,          \* what a fetch may return: body hash and date of one key
  VisibilityMayLapse, \* may a message reappear while it is being processed?
  Nothing            \* no job, content, raw signal yet

ASSUME CollectorAssumption ==
  /\ VisibilityMayLapse \in BOOLEAN
  /\ Nothing \notin Jobs
  /\ Nothing \notin Contents

VARIABLES
  objects,     \* S3 objects <<job, content>>: the key holds both
  rawSignals,  \* rows of pipeline.raw_signals
  announced,   \* history: raw signals whose RAW_SIGNAL_COLLECTED was sent
  deadLetters, \* jobs with a message in the dead-letter queue
  worker       \* per worker, the progress of collect_source

collectorVars == <<objects, rawSignals, announced, deadLetters, worker>>

Objects == Jobs \X Contents

\* Only concurrent deliveries insert twice for one job and content, each
\* worker at most once: the inserting worker tells the rows apart.
RawSignals == [job : Jobs, content : Contents, by : Workers]

WorkerState ==
  [pc      : {"idle", "load", "fetch", "archive", "lookup", "persist",
              "announce", "failing", "settle"},
   job     : Jobs \cup {Nothing},
   copy    : 0..MaxCopies,
   attempt : 0..MaxRetries,
   content : Contents \cup {Nothing},
   raw     : RawSignals \cup {Nothing},
   outcome : {"ack", "retry", "leave"}]

Resting == [pc |-> "idle", job |-> Nothing, copy |-> 0, attempt |-> 0,
            content |-> Nothing, raw |-> Nothing, outcome |-> "ack"]

CollectorInit ==
  /\ objects = {}
  /\ rawSignals = {}
  /\ announced = {}
  /\ deadLetters = {}
  /\ worker = [w \in Workers |-> Resting]

In(w, pc) == worker[w].pc = pc

\* The message worker w is processing.
IsDelivery(w, m) ==
  /\ ~In(w, "idle")
  /\ m.job = worker[w].job
  /\ m.copy = worker[w].copy
  /\ m.attempt = worker[w].attempt

Visible(m) ==
  VisibilityMayLapse \/ \A w \in Workers : ~IsDelivery(w, m)

\* Mutant: the receive count is checked one delivery too late.
ReceiveOnceMore(w, m) ==
  /\ In(w, "idle")
  /\ m \in ingestionQueue
  /\ Visible(m)
  /\ m.receives <= MaxReceives
  /\ ingestionQueue' =
       (ingestionQueue \ {m}) \cup {[m EXCEPT !.receives = @ + 1]}
  /\ worker' = [worker EXCEPT ![w] =
       [Resting EXCEPT !.pc = "load", !.job = m.job, !.copy = m.copy,
                       !.attempt = m.attempt]]
  /\ UNCHANGED <<active, jobs, published, faults,
                 objects, rawSignals, announced, deadLetters>>

Receive(w, m) ==
  /\ In(w, "idle")
  /\ m \in ingestionQueue
  /\ Visible(m)
  /\ m.receives < MaxReceives
  /\ ingestionQueue' =
       (ingestionQueue \ {m}) \cup {[m EXCEPT !.receives = @ + 1]}
  /\ worker' = [worker EXCEPT ![w] =
       [Resting EXCEPT !.pc = "load", !.job = m.job, !.copy = m.copy,
                       !.attempt = m.attempt]]
  /\ UNCHANGED <<active, jobs, published, faults,
                 objects, rawSignals, announced, deadLetters>>

\* Mutant: no redrive policy.
NeverDeadLetter(m) ==
  /\ m.receives > MaxReceives
  /\ UNCHANGED <<storeVars, collectorVars>>

\* The redrive policy of the queue.
DeadLetter(m) ==
  /\ m \in ingestionQueue
  /\ Visible(m)
  /\ m.receives = MaxReceives
  /\ ingestionQueue' = ingestionQueue \ {m}
  /\ deadLetters' = deadLetters \cup {m.job}
  /\ UNCHANGED <<active, jobs, published, faults,
                 objects, rawSignals, announced, worker>>

(***************************************************************************)
(* run_collection                                                          *)
(***************************************************************************)

\* _load_job, active source: RUNNING whatever the status was.
LoadJob(w) ==
  /\ In(w, "load")
  /\ worker[w].job.slot[1] \in active
  /\ jobs' = [jobs EXCEPT ![worker[w].job] = "RUNNING"]
  /\ worker' = [worker EXCEPT ![w].pc = "fetch"]
  /\ UNCHANGED <<active, ingestionQueue, published, faults,
                 objects, rawSignals, announced, deadLetters>>

\* InactiveCollectionSource: the message is done with, the job untouched.
SkipRetired(w) ==
  /\ In(w, "load")
  /\ worker[w].job.slot[1] \notin active
  /\ worker' = [worker EXCEPT ![w] =
         [@ EXCEPT !.pc = "settle", !.outcome = "ack"]]
  /\ UNCHANGED <<storeVars, objects, rawSignals, announced, deadLetters>>

\* Mutant: the row is persisted before the bytes are archived.
FetchUnarchived(w, c) ==
  /\ In(w, "fetch")
  /\ worker' = [worker EXCEPT ![w] =
         [@ EXCEPT !.pc = "lookup", !.content = c]]
  /\ UNCHANGED <<storeVars, objects, rawSignals, announced, deadLetters>>

Fetch(w, c) ==
  /\ In(w, "fetch")
  /\ worker' = [worker EXCEPT ![w] =
         [@ EXCEPT !.pc = "archive", !.content = c]]
  /\ UNCHANGED <<storeVars, objects, rawSignals, announced, deadLetters>>

\* SourceFetchError or UnsafeSourceUrl: run_collection returns normally.
FetchRefused(w) ==
  /\ In(w, "fetch")
  /\ worker' = [worker EXCEPT ![w] =
         [@ EXCEPT !.pc = "failing", !.outcome = "ack"]]
  /\ UNCHANGED <<storeVars, objects, rawSignals, announced, deadLetters>>

\* Mutant: every ClientError of put_object is taken for a 412.
ArchiveSwallowed(w) ==
  /\ In(w, "archive")
  /\ worker' = [worker EXCEPT ![w].pc = "lookup"]
  /\ UNCHANGED <<storeVars, objects, rawSignals, announced, deadLetters>>

\* put_object with IfNoneMatch: an object that is there is left alone.
Archive(w) ==
  /\ In(w, "archive")
  /\ objects' = objects \cup {<<worker[w].job, worker[w].content>>}
  /\ worker' = [worker EXCEPT ![w].pc = "lookup"]
  /\ UNCHANGED <<storeVars, rawSignals, announced, deadLetters>>

RowsFor(w) == {r \in rawSignals : /\ r.job = worker[w].job
                                  /\ r.content = worker[w].content}

\* persist_archived, its SELECT
LookupRaw(w) ==
  /\ In(w, "lookup")
  /\ \E r \in (IF RowsFor(w) = {} THEN {Nothing} ELSE RowsFor(w)) :
       worker' = [worker EXCEPT ![w] =
         [@ EXCEPT !.pc = "persist", !.raw = r]]
  /\ UNCHANGED <<storeVars, objects, rawSignals, announced, deadLetters>>

\* Mutant: a row that was there already is not announced again.
PersistKnownIsDone(w) ==
  LET new == [job |-> worker[w].job, content |-> worker[w].content, by |-> w]
      row == IF worker[w].raw = Nothing THEN new ELSE worker[w].raw
  IN /\ In(w, "persist")
     /\ rawSignals' = rawSignals \cup {row}
     /\ jobs' = [jobs EXCEPT ![worker[w].job] = "COMPLETED"]
     /\ worker' = [worker EXCEPT ![w] =
         [@ EXCEPT !.pc = IF worker[w].raw = Nothing THEN "announce" ELSE "settle",
                   !.raw = row, !.outcome = "ack"]]
     /\ UNCHANGED <<active, ingestionQueue, published, faults,
                    objects, announced, deadLetters>>

\* persist_archived, INSERT if none was seen, and the job COMPLETED: one commit
Persist(w) ==
  LET new == [job |-> worker[w].job, content |-> worker[w].content, by |-> w]
      row == IF worker[w].raw = Nothing THEN new ELSE worker[w].raw
  IN /\ In(w, "persist")
     /\ rawSignals' = rawSignals \cup {row}
     /\ jobs' = [jobs EXCEPT ![worker[w].job] = "COMPLETED"]
     /\ worker' = [worker EXCEPT ![w] =
         [@ EXCEPT !.pc = "announce", !.raw = row]]
     /\ UNCHANGED <<active, ingestionQueue, published, faults,
                    objects, announced, deadLetters>>

Announce(w) ==
  /\ In(w, "announce")
  /\ announced' = announced \cup {worker[w].raw}
  /\ worker' = [worker EXCEPT ![w] =
         [@ EXCEPT !.pc = "settle", !.outcome = "ack"]]
  /\ UNCHANGED <<storeVars, objects, rawSignals, deadLetters>>

\* A call inside collect raises: a ConnectionError or TimeoutError is retried
\* by Celery, anything else leaves the message unacknowledged.
StageFails(w) ==
  /\ worker[w].pc \in {"fetch", "archive", "lookup", "persist", "announce"}
  /\ Fault
  /\ \E outcome \in {"retry", "leave"} :
       worker' = [worker EXCEPT ![w] =
         [@ EXCEPT !.pc = "failing", !.outcome = outcome]]
  /\ UNCHANGED <<active, jobs, ingestionQueue, published,
                 objects, rawSignals, announced, deadLetters>>

\* _load_job raises, or _collector does for the job it loaded, and that is no
\* ConnectionError: mark_failed is not reached.
SetupFails(w) ==
  /\ worker[w].pc \in {"load", "fetch"}
  /\ Fault
  /\ \E outcome \in IF In(w, "load") THEN {"retry", "leave"} ELSE {"leave"} :
       worker' = [worker EXCEPT ![w] =
         [@ EXCEPT !.pc = "settle", !.outcome = outcome]]
  /\ UNCHANGED <<active, jobs, ingestionQueue, published,
                 objects, rawSignals, announced, deadLetters>>

MarkFailed(w) ==
  /\ In(w, "failing")
  /\ jobs' = [jobs EXCEPT ![worker[w].job] = "FAILED"]
  /\ worker' = [worker EXCEPT ![w].pc = "settle"]
  /\ UNCHANGED <<active, ingestionQueue, published, faults,
                 objects, rawSignals, announced, deadLetters>>

\* mark_failed itself raises: it is logged and the first exception goes on.
MarkFailedLost(w) ==
  /\ In(w, "failing")
  /\ Fault
  /\ worker' = [worker EXCEPT ![w].pc = "settle"]
  /\ UNCHANGED <<active, jobs, ingestionQueue, published,
                 objects, rawSignals, announced, deadLetters>>

Delivered(w) == {m \in ingestionQueue : IsDelivery(w, m)}

\* Mutant: task_acks_on_failure_or_timeout left at its default.
SettleAcksFailures(w) ==
  /\ In(w, "settle")
  /\ ingestionQueue' = ingestionQueue \ Delivered(w)
  /\ worker' = [worker EXCEPT ![w] = Resting]
  /\ UNCHANGED <<active, jobs, published, faults,
                 objects, rawSignals, announced, deadLetters>>

\* The message's fate: deleted, replaced by a retry, or left to reappear.
Settle(w) ==
  /\ In(w, "settle")
  /\ LET retried == [job |-> worker[w].job, copy |-> worker[w].copy,
                     receives |-> 0, attempt |-> worker[w].attempt + 1]
         outcome == worker[w].outcome
     IN ingestionQueue' =
          CASE outcome = "ack" -> ingestionQueue \ Delivered(w)
            [] outcome = "retry" /\ worker[w].attempt < MaxRetries ->
                 (ingestionQueue \ Delivered(w)) \cup {retried}
            [] OTHER -> ingestionQueue
  /\ worker' = [worker EXCEPT ![w] = Resting]
  /\ UNCHANGED <<active, jobs, published, faults,
                 objects, rawSignals, announced, deadLetters>>

\* The worker is lost; acks are late, so its message reappears.
CrashWorker(w) ==
  /\ ~In(w, "idle")
  /\ Fault
  /\ worker' = [worker EXCEPT ![w] = Resting]
  /\ UNCHANGED <<active, jobs, ingestionQueue, published,
                 objects, rawSignals, announced, deadLetters>>

Collect(w) ==
  \/ LoadJob(w) \/ SkipRetired(w)
  \/ \E c \in Contents : Fetch(w, c)
  \/ FetchRefused(w)
  \/ Archive(w) \/ LookupRaw(w) \/ Persist(w) \/ Announce(w)
  \/ MarkFailed(w) \/ Settle(w)

CollectorNext ==
  \/ \E w \in Workers :
       \/ \E m \in ingestionQueue : Receive(w, m)
       \/ Collect(w) \/ StageFails(w) \/ SetupFails(w)
       \/ MarkFailedLost(w) \/ CrashWorker(w)
  \/ \E m \in ingestionQueue : DeadLetter(m)

CollectorTypeOK ==
  /\ objects \subseteq Objects
  /\ rawSignals \subseteq RawSignals
  /\ announced \subseteq RawSignals
  /\ deadLetters \subseteq Jobs
  /\ worker \in [Workers -> WorkerState]
=============================================================================
