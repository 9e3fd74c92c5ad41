---------------------------- MODULE IngestionStore ----------------------------
(***************************************************************************)
(* The state the source scheduler and the collectors share: the collection *)
(* jobs of Postgres, the registry's active sources, and the ingestion      *)
(* queue of SQS.                                                           *)
(***************************************************************************)
EXTENDS Naturals

CONSTANTS
  Sources,      \* registered sources
  LastWindow,   \* the last minute of the instance; no source is due in it
  Due,          \* the slots <<source, minute>> whose cron expression matches
  MaxRows,      \* rows of collection_jobs one slot may get
  MaxCopies,    \* copies of one job's message that are told apart
  MaxReceives,  \* max_receive_count of the ingestion queue
  MaxRetries,   \* max_retries of the collect_source task
  MaxFaults     \* crashes and failed calls in one behaviour

Windows == 0..LastWindow

\* Work is scheduled per source and minute.
Slots == Sources \X Windows

ASSUME StoreAssumption ==
  /\ LastWindow \in Nat
  /\ Due \subseteq Sources \X (0..LastWindow)
  /\ MaxRows \in Nat \ {0}
  /\ MaxCopies \in Nat \ {0}
  /\ MaxReceives \in Nat \ {0}
  /\ MaxRetries \in Nat
  /\ MaxFaults \in Nat

VARIABLES
  active,          \* sources whose health_status is ACTIVE
  jobs,            \* status of every row of pipeline.collection_jobs
  ingestionQueue,  \* messages not yet deleted, those being processed included
  published,       \* history: jobs whose event was ever sent
  faults           \* faults so far

storeVars == <<active, jobs, ingestionQueue, published, faults>>

(***************************************************************************)
(* A job is named by its slot and the position of its created_at among the *)
(* rows of that slot: created_at is the start of the inserting             *)
(* transaction, so a later insert need not get a higher row.               *)
(***************************************************************************)
Jobs == [slot : Slots, row : 1..MaxRows]

JobStatus == {"ENQUEUED", "DISPATCHED", "RUNNING", "COMPLETED", "FAILED"}

Exists(j) == jobs[j] # "ABSENT"

SlotRecorded(k) == \E j \in Jobs : j.slot = k /\ Exists(j)

\* ORDER BY created_at DESC LIMIT 1
Newest(j) ==
  /\ Exists(j)
  /\ \A other \in Jobs :
       other.slot = j.slot /\ Exists(other) => other.row <= j.row

(***************************************************************************)
(* A message of a standard queue.  Every publication of a job carries the  *)
(* same event id, so copies differ only in a tag; attempt is Celery's      *)
(* retry header and receives SQS's ApproximateReceiveCount.                *)
(***************************************************************************)
Messages == [job : Jobs, copy : 1..MaxCopies,
             receives : 0..MaxReceives, attempt : 0..MaxRetries]

CopiesOf(j) == {m.copy : m \in {n \in ingestionQueue : n.job = j}}

\* send_task: one more copy; copies beyond MaxCopies are not told apart.
Send(j) ==
  \/ \E c \in (1..MaxCopies) \ CopiesOf(j) :
       /\ \A d \in (1..MaxCopies) \ CopiesOf(j) : c <= d
       /\ ingestionQueue' = ingestionQueue \cup
            {[job |-> j, copy |-> c, receives |-> 0, attempt |-> 0]}
  \/ /\ 1..MaxCopies \subseteq CopiesOf(j)
     /\ UNCHANGED ingestionQueue

\* A process is lost or a call raises.
Fault ==
  /\ faults < MaxFaults
  /\ faults' = faults + 1

\* The registry retires a source.
Retire(s) ==
  /\ s \in active
  /\ active' = active \ {s}
  /\ UNCHANGED <<jobs, ingestionQueue, published, faults>>

StoreInit ==
  /\ active = Sources
  /\ jobs = [j \in Jobs |-> "ABSENT"]
  /\ ingestionQueue = {}
  /\ published = {}
  /\ faults = 0

StoreTypeOK ==
  /\ active \subseteq Sources
  /\ jobs \in [Jobs -> JobStatus \cup {"ABSENT"}]
  /\ ingestionQueue \subseteq Messages
  /\ published \subseteq Jobs
  /\ faults \in Nat
=============================================================================
