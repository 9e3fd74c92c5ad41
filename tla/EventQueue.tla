------------------------------ MODULE EventQueue ------------------------------
(***************************************************************************)
(* The queues between the pipeline's tasks and what every task goes        *)
(* through, whatever it does: it is received, reads, commits, announces    *)
(* the events that follow, and is acknowledged last.  The tasks themselves *)
(* are in the modules that instantiate this one.                           *)
(***************************************************************************)
EXTENDS Naturals

CONSTANTS
  Events,       \* the events some task of the model consumes
  AllEvents,    \* those, and the events that leave the model
  Workers,
  MaxCopies,    \* copies of one event's message that are told apart
  MaxReceives,  \* max_receive_count of the queues
  MaxRetries,   \* max_retries of the tasks
  MaxFaults,    \* crashes, exceptions and lapses in one behaviour
  NoEvent       \* what a resting worker works on

VARIABLES
  queue,        \* messages not yet deleted, those being processed included
  announced,    \* history: events ever sent
  deadLetters,  \* events with a message in the dead-letter queue
  worker,       \* per worker, the progress of its task
  faults        \* faults so far

Messages == [event : Events, copy : 1..MaxCopies,
             receives : 0..MaxReceives, attempt : 0..MaxRetries]

WorkerState ==
  [pc      : {"idle", "load", "work", "publish", "settle"},
   event   : Events \cup {NoEvent},
   copy    : 0..MaxCopies,
   attempt : 0..MaxRetries,
   todo    : SUBSET AllEvents,   \* still to be announced
   outcome : {"ack", "retry", "leave"}]

Resting == [pc |-> "idle", event |-> NoEvent, copy |-> 0, attempt |-> 0,
            todo |-> {}, outcome |-> "ack"]

QueueInit ==
  /\ queue = {}
  /\ announced = {}
  /\ deadLetters = {}
  /\ worker = [w \in Workers |-> Resting]
  /\ faults = 0

In(w, pc) == worker[w].pc = pc

HasMessage(e) == \E m \in queue : m.event = e

FreeCopies(e) == {c \in 1..MaxCopies :
                    ~\E m \in queue : m.event = e /\ m.copy = c}

\* send_task: one more copy; copies beyond MaxCopies are not told apart.
Send(e) ==
  /\ announced' = announced \cup {e}
  /\ queue' = queue \cup
       {[event |-> e, copy |-> c, receives |-> 0, attempt |-> 0] :
          c \in {d \in FreeCopies(e) : /\ e \in Events
                                       /\ \A b \in FreeCopies(e) : d <= b}}

\* A process is lost, a call raises or a message reappears too early.
Fault ==
  /\ faults < MaxFaults
  /\ faults' = faults + 1

\* The message worker w is processing.
IsDelivery(w, m) ==
  /\ ~In(w, "idle")
  /\ m.event = worker[w].event
  /\ m.copy = worker[w].copy
  /\ m.attempt = worker[w].attempt

\* A message being processed reappears only when its visibility lapses.
Visible(m) ==
  \/ /\ \A w \in Workers : ~IsDelivery(w, m)
     /\ UNCHANGED faults
  \/ /\ \E w \in Workers : IsDelivery(w, m)
     /\ Fault

Receive(w, m) ==
  /\ In(w, "idle")
  /\ m.receives < MaxReceives
  /\ Visible(m)
  /\ queue' = (queue \ {m}) \cup {[m EXCEPT !.receives = @ + 1]}
  /\ worker' = [worker EXCEPT ![w] =
       [Resting EXCEPT !.pc = "load", !.event = m.event, !.copy = m.copy,
                       !.attempt = m.attempt]]
  /\ UNCHANGED <<announced, deadLetters>>

\* The redrive policy of the queue.
DeadLetter(m) ==
  /\ m.receives = MaxReceives
  /\ Visible(m)
  /\ queue' = queue \ {m}
  /\ deadLetters' = deadLetters \cup {m.event}
  /\ UNCHANGED <<announced, worker>>

\* The handler's first read found what it needs, or raised NoResultFound.
Proceed(w) ==
  /\ In(w, "load")
  /\ worker' = [worker EXCEPT ![w].pc = "work"]
  /\ UNCHANGED <<queue, announced, deadLetters, faults>>

Refuse(w) ==
  /\ In(w, "load")
  /\ worker' = [worker EXCEPT ![w] =
       [@ EXCEPT !.pc = "settle", !.outcome = "leave"]]
  /\ UNCHANGED <<queue, announced, deadLetters, faults>>

\* The transaction commits, and these events are to follow it.
Commit(w, events) ==
  /\ In(w, "work")
  /\ worker' = [worker EXCEPT ![w] =
       [@ EXCEPT !.pc = IF events = {} THEN "settle" ELSE "publish",
                 !.todo = events]]
  /\ UNCHANGED <<queue, announced, deadLetters, faults>>

Publish(w, e) ==
  /\ In(w, "publish")
  /\ Send(e)
  /\ worker' = [worker EXCEPT ![w] =
       [@ EXCEPT !.pc = IF worker[w].todo = {e} THEN "settle" ELSE "publish",
                 !.todo = worker[w].todo \ {e}]]
  /\ UNCHANGED <<deadLetters, faults>>

\* A call raises: a ConnectionError or TimeoutError is retried by Celery,
\* anything else leaves the message unacknowledged.
CallFails(w) ==
  /\ worker[w].pc \in {"load", "work", "publish"}
  /\ Fault
  /\ \E outcome \in {"retry", "leave"} :
       worker' = [worker EXCEPT ![w] =
         [@ EXCEPT !.pc = "settle", !.outcome = outcome, !.todo = {}]]
  /\ UNCHANGED <<queue, announced, deadLetters>>

Delivered(w) == {m \in queue : IsDelivery(w, m)}

\* Mutant: one retry too many.
SettleRetriesOnceMore(w) ==
  /\ In(w, "settle")
  /\ LET retried == [event |-> worker[w].event, copy |-> worker[w].copy,
                     receives |-> 0, attempt |-> worker[w].attempt + 1]
         outcome == worker[w].outcome
     IN queue' =
          CASE outcome = "ack" -> queue \ Delivered(w)
            [] outcome = "retry" /\ worker[w].attempt <= MaxRetries ->
                 (queue \ Delivered(w)) \cup {retried}
            [] OTHER -> queue
  /\ worker' = [worker EXCEPT ![w] = Resting]
  /\ UNCHANGED <<announced, deadLetters, faults>>

\* The message's fate: deleted, replaced by a retry, or left to reappear.
Settle(w) ==
  /\ In(w, "settle")
  /\ LET retried == [event |-> worker[w].event, copy |-> worker[w].copy,
                     receives |-> 0, attempt |-> worker[w].attempt + 1]
         outcome == worker[w].outcome
     IN queue' =
          CASE outcome = "ack" -> queue \ Delivered(w)
            [] outcome = "retry" /\ worker[w].attempt < MaxRetries ->
                 (queue \ Delivered(w)) \cup {retried}
            [] OTHER -> queue
  /\ worker' = [worker EXCEPT ![w] = Resting]
  /\ UNCHANGED <<announced, deadLetters, faults>>

\* The worker is lost; acks are late, so its message reappears.
CrashWorker(w) ==
  /\ ~In(w, "idle")
  /\ Fault
  /\ worker' = [worker EXCEPT ![w] = Resting]
  /\ UNCHANGED <<queue, announced, deadLetters>>

QueueTypeOK ==
  /\ queue \subseteq Messages
  /\ announced \subseteq AllEvents
  /\ deadLetters \subseteq Events
  /\ worker \in [Workers -> WorkerState]
  /\ faults \in 0..MaxFaults
=============================================================================
