------------------------- MODULE SignalPipelineProofs -------------------------
(***************************************************************************)
(* The safety of the signal pipeline, for any number of raw signals,       *)
(* documents, workers, receives, retries and faults, and the refinement of *)
(* a signal's journey.                                                     *)
(***************************************************************************)
EXTENDS SignalPipeline, TLAPS, WellFoundedInduction

USE PipelineAssumption

(***************************************************************************)
(* Events                                                                  *)
(***************************************************************************)
LEMMA EventFields ==
  ASSUME NEW e \in AllEvents
  PROVE  /\ e = Event(e.type, e.of)
         /\ e.type \in DOMAIN MilestoneOf => e.of \in Signals
         /\ e \in Events /\ e.type = "SIGNAL_NORMALIZED" => e.of \in Signals
         /\ e.type \in {"RAW_SIGNAL_COLLECTED", "RAW_SIGNAL_VALIDATED"} =>
              e.of \in Raws
BY DEF AllEvents, Events, Of, Event, MilestoneOf

LEMMA EventsAreTyped ==
  /\ Events \subseteq AllEvents
  /\ \A r \in Raws :
       /\ Event("RAW_SIGNAL_COLLECTED", r) \in Events
       /\ Event("RAW_SIGNAL_VALIDATED", r) \in AllEvents
       /\ Event("RAW_SIGNAL_SUSPICIOUS", r) \in AllEvents
  /\ \A s \in Signals :
       /\ Event("SIGNAL_NORMALIZED", s) \in AllEvents
       /\ Event("ENTITY_RESOLUTION_REQUIRED", s) \in AllEvents
       /\ Event("CLASSIFICATION_REVIEW_REQUIRED", s) \in AllEvents
       /\ Event("SIGNAL_CLASSIFIED", s) \in AllEvents
       /\ Event("SIGNAL_SCORED", s) \in AllEvents
       /\ Event("SIGNAL_CONTEXT_READY", s) \in AllEvents
       /\ Event("INTELLIGENCE_SYNTHESIZED", s) \in AllEvents
BY DEF AllEvents, Events, Of, Event

LEMMA TypesOfEvents ==
  ASSUME NEW e \in Events
  PROVE  /\ e.type \in {"RAW_SIGNAL_COLLECTED", "RAW_SIGNAL_VALIDATED",
                        "SIGNAL_NORMALIZED", "SIGNAL_CLASSIFIED",
                        "SIGNAL_SCORED", "SIGNAL_CONTEXT_READY"}
         /\ e.type \notin {"RAW_SIGNAL_COLLECTED", "RAW_SIGNAL_VALIDATED"} =>
              e.of \in Signals
BY DEF Events, Of

(***************************************************************************)
(* The queues.  What a worker works on was announced once.                 *)
(***************************************************************************)
Busy(w) ==
  ~In(w, "idle") => /\ worker[w].event \in Events \cap announced
                    /\ worker[w].copy \in 1..MaxCopies

QueueInv ==
  /\ QueueTypeOK
  /\ \A m \in queue : m.event \in announced
  /\ \A w \in Workers : Busy(w)

OthersRest(w) == \A v \in Workers \ {w} : worker'[v] = worker[v]

LEMMA WorkerMoves ==
  ASSUME QueueTypeOK, NEW w \in Workers, NEW s \in WorkerState,
         worker' = [worker EXCEPT ![w] = s]
  PROVE  /\ worker' \in [Workers -> WorkerState]
         /\ worker'[w] = s
         /\ OthersRest(w)
BY DEF QueueTypeOK, OthersRest

LEMMA Faulting ==
  ASSUME QueueTypeOK, Fault
  PROVE  faults' \in 0..MaxFaults
BY DEF QueueTypeOK, Fault

LEMMA BusyStays ==
  ASSUME NEW v \in Workers, Busy(v), worker'[v] = worker[v],
         announced \subseteq announced'
  PROVE  Busy(v)'
BY DEF Busy, In

LEMMA Sending ==
  ASSUME QueueInv, NEW e \in AllEvents, Send(e)
  PROVE  /\ announced' = announced \cup {e} /\ announced' \subseteq AllEvents
         /\ queue \subseteq queue' /\ queue' \subseteq Messages
         /\ \A m \in queue' : m.event \in announced'
<1>1. announced' = announced \cup {e} /\ announced' \subseteq AllEvents
  BY DEF Send, QueueInv, QueueTypeOK
<1>2. queue \subseteq queue'
  BY DEF Send
<1>3. ASSUME NEW m \in queue', m \notin queue
      PROVE  m \in Messages /\ m.event = e
  <2>1. PICK c \in 1..MaxCopies :
          /\ e \in Events
          /\ m = [event |-> e, copy |-> c, receives |-> 0, attempt |-> 0]
    BY <1>3 DEF Send, FreeCopies
  <2> QED
    BY <2>1 DEF Messages
<1> QED
  BY <1>1, <1>2, <1>3 DEF QueueInv, QueueTypeOK

LEMMA Collecting ==
  ASSUME QueueInv, NEW e \in AllEvents, Send(e), faults' \in 0..MaxFaults,
         UNCHANGED <<deadLetters, worker>>
  PROVE  /\ QueueInv'
         /\ announced' = announced \cup {e}
         /\ queue \subseteq queue'
<1>1. QueueTypeOK'
  BY Sending DEF QueueTypeOK, QueueInv, Messages, WorkerState
<1>2. ASSUME NEW w \in Workers
      PROVE  Busy(w)'
  BY BusyStays, Sending DEF QueueInv
<1> QED
  BY <1>1, <1>2, Sending DEF QueueInv

LEMMA Seeing ==
  ASSUME QueueTypeOK, NEW m, Visible(m)
  PROVE  faults' \in 0..MaxFaults
BY Faulting DEF Visible, QueueTypeOK

LEMMA Receiving ==
  ASSUME QueueInv, NEW w \in Workers, NEW m \in queue, Receive(w, m)
  PROVE  /\ QueueInv'
         /\ OthersRest(w) /\ In(w, "idle")
         /\ worker'[w].pc = "load" /\ worker'[w].todo = {}
         /\ UNCHANGED <<announced, deadLetters>>
         /\ \A e : HasMessage(e) => HasMessage(e)'
<1> DEFINE s == [Resting EXCEPT !.pc = "load", !.event = m.event, !.copy = m.copy,
                                !.attempt = m.attempt]
           n == [m EXCEPT !.receives = @ + 1]
<1>1. m \in Messages
  BY DEF QueueInv, QueueTypeOK
<1>2. s \in WorkerState
  <2>1. Resting \in WorkerState
    BY DEF Resting, WorkerState
  <2>2. /\ m.event \in Events /\ m.copy \in 0..MaxCopies
        /\ m.attempt \in 0..MaxRetries
    BY <1>1 DEF Messages
  <2> QED
    BY <2>1, <2>2 DEF WorkerState
<1>3. worker' = [worker EXCEPT ![w] = s]
  BY DEF Receive
<1>4. /\ worker' \in [Workers -> WorkerState] /\ worker'[w] = s
      /\ OthersRest(w)
  BY ONLY QueueInv, <1>2, <1>3, WorkerMoves DEF QueueInv
<1>5. n \in Messages /\ n.event = m.event
  BY <1>1 DEF Messages, Receive
<1>6. queue' = (queue \ {m}) \cup {n}
  BY DEF Receive
<1>7. QueueTypeOK'
  BY <1>4, <1>5, <1>6, Seeing
     DEF QueueInv, QueueTypeOK, Receive, Messages, WorkerState
<1>8. UNCHANGED <<announced, deadLetters>> /\ In(w, "idle")
  BY DEF Receive
<1>9. /\ s.pc = "load" /\ s.event = m.event /\ s.copy = m.copy /\ s.todo = {}
  BY DEF Resting
<1>10. Busy(w)'
  BY <1>1, <1>4, <1>8, <1>9 DEF Busy, QueueInv, Messages
<1>11. ASSUME NEW v \in Workers \ {w}
       PROVE  Busy(v)'
  BY <1>4, <1>8, BusyStays DEF OthersRest, QueueInv
<1>12. \A p \in queue' : p.event \in announced'
  BY <1>5, <1>6, <1>8 DEF QueueInv
<1>13. \A e : HasMessage(e) => HasMessage(e)'
  BY <1>5, <1>6 DEF HasMessage
<1> QED
  BY <1>4, <1>7, <1>8, <1>9, <1>10, <1>11, <1>12, <1>13 DEF QueueInv

LEMMA Redriving ==
  ASSUME QueueInv, NEW m \in queue, DeadLetter(m)
  PROVE  /\ QueueInv'
         /\ UNCHANGED <<announced, worker>>
         /\ \A e : HasMessage(e) => HasMessage(e)' \/ e \in deadLetters'
<1>1. m \in Messages
  BY DEF QueueInv, QueueTypeOK
<1>2. UNCHANGED <<announced, worker>> /\ queue' = queue \ {m}
  BY DEF DeadLetter
<1>3. QueueTypeOK'
  BY <1>1, Seeing DEF DeadLetter, QueueInv, QueueTypeOK, Messages, WorkerState
<1>4. \A w \in Workers : Busy(w)'
  BY <1>2, BusyStays DEF QueueInv
<1> QED
  BY <1>2, <1>3, <1>4 DEF QueueInv, HasMessage, DeadLetter

\* A step that moves one worker on within its task and leaves the messages.
LEMMA Moving ==
  ASSUME QueueInv, NEW w \in Workers, NEW s \in WorkerState,
         worker' = [worker EXCEPT ![w] = s],
         s.pc = "idle" \/ (~In(w, "idle") /\ s.event = worker[w].event
                                          /\ s.copy = worker[w].copy),
         faults' \in 0..MaxFaults, UNCHANGED <<queue, announced, deadLetters>>
  PROVE  QueueInv' /\ OthersRest(w) /\ worker'[w] = s
<1>1. /\ worker' \in [Workers -> WorkerState] /\ worker'[w] = s
      /\ OthersRest(w)
  BY WorkerMoves DEF QueueInv
<1>2. QueueTypeOK'
  BY <1>1 DEF QueueInv, QueueTypeOK, Messages, WorkerState
<1>3. Busy(w)'
  BY <1>1 DEF Busy, In, QueueInv
<1>4. ASSUME NEW v \in Workers \ {w}
      PROVE  Busy(v)'
  BY <1>1, BusyStays DEF OthersRest, QueueInv
<1> QED
  BY <1>1, <1>2, <1>3, <1>4 DEF QueueInv

LEMMA Proceeding ==
  ASSUME QueueInv, NEW w \in Workers, Proceed(w)
  PROVE  /\ QueueInv' /\ OthersRest(w) /\ In(w, "load")
         /\ worker'[w].pc = "work" /\ worker'[w].todo = worker[w].todo
         /\ worker'[w].event = worker[w].event
<1> DEFINE s == [worker[w] EXCEPT !.pc = "work"]
<1>1. worker[w] \in WorkerState
  BY DEF QueueInv, QueueTypeOK
<1>2. /\ s \in WorkerState /\ s.pc = "work" /\ s.todo = worker[w].todo
      /\ s.event = worker[w].event /\ s.copy = worker[w].copy
  BY <1>1 DEF WorkerState
<1>3. worker' = [worker EXCEPT ![w] = s]
  BY DEF Proceed
<1>4. /\ faults' \in 0..MaxFaults /\ UNCHANGED <<queue, announced, deadLetters>>
      /\ In(w, "load") /\ ~In(w, "idle")
  BY DEF Proceed, QueueInv, QueueTypeOK, In
<1>5. QueueInv' /\ OthersRest(w) /\ worker'[w] = s
  BY ONLY QueueInv, <1>2, <1>3, <1>4, Moving
<1> QED
  BY <1>2, <1>4, <1>5

LEMMA Refusing ==
  ASSUME QueueInv, NEW w \in Workers, Refuse(w)
  PROVE  /\ QueueInv' /\ OthersRest(w) /\ In(w, "load")
         /\ worker'[w].pc = "settle" /\ worker'[w].todo = worker[w].todo
         /\ worker'[w].outcome = "leave"
<1> DEFINE s == [worker[w] EXCEPT !.pc = "settle", !.outcome = "leave"]
<1>1. worker[w] \in WorkerState
  BY DEF QueueInv, QueueTypeOK
<1>2. /\ s \in WorkerState /\ s.pc = "settle" /\ s.todo = worker[w].todo
      /\ s.event = worker[w].event /\ s.copy = worker[w].copy
      /\ s.outcome = "leave"
  BY <1>1 DEF WorkerState
<1>3. worker' = [worker EXCEPT ![w] = s]
  BY DEF Refuse
<1>4. /\ faults' \in 0..MaxFaults /\ UNCHANGED <<queue, announced, deadLetters>>
      /\ In(w, "load") /\ ~In(w, "idle")
  BY DEF Refuse, QueueInv, QueueTypeOK, In
<1>5. QueueInv' /\ OthersRest(w) /\ worker'[w] = s
  BY ONLY QueueInv, <1>2, <1>3, <1>4, Moving
<1> QED
  BY <1>2, <1>4, <1>5

LEMMA Committing ==
  ASSUME QueueInv, NEW w \in Workers, NEW E, E \subseteq AllEvents, Commit(w, E)
  PROVE  /\ QueueInv' /\ OthersRest(w) /\ In(w, "work")
         /\ worker'[w].pc = IF E = {} THEN "settle" ELSE "publish"
         /\ worker'[w].todo = E
         /\ worker'[w].event = worker[w].event
         /\ worker'[w].outcome = worker[w].outcome
<1> DEFINE s == [worker[w] EXCEPT !.pc = IF E = {} THEN "settle" ELSE "publish",
                                  !.todo = E]
<1>1. worker[w] \in WorkerState
  BY DEF QueueInv, QueueTypeOK
<1>2. /\ s \in WorkerState /\ s.pc = IF E = {} THEN "settle" ELSE "publish"
      /\ s.todo = E /\ s.outcome = worker[w].outcome
      /\ s.event = worker[w].event /\ s.copy = worker[w].copy
  BY <1>1 DEF WorkerState
<1>3. worker' = [worker EXCEPT ![w] = s]
  BY DEF Commit
<1>4. /\ faults' \in 0..MaxFaults /\ UNCHANGED <<queue, announced, deadLetters>>
      /\ In(w, "work") /\ ~In(w, "idle")
  BY DEF Commit, QueueInv, QueueTypeOK, In
<1>5. QueueInv' /\ OthersRest(w) /\ worker'[w] = s
  BY ONLY QueueInv, <1>2, <1>3, <1>4, Moving
<1> QED
  BY <1>2, <1>4, <1>5

LEMMA Publishing ==
  ASSUME QueueInv, NEW w \in Workers, NEW e \in worker[w].todo, Publish(w, e)
  PROVE  /\ QueueInv' /\ OthersRest(w) /\ In(w, "publish")
         /\ worker'[w].pc = IF worker[w].todo = {e} THEN "settle" ELSE "publish"
         /\ worker'[w].todo = worker[w].todo \ {e}
         /\ worker'[w].event = worker[w].event
         /\ announced' = announced \cup {e}
         /\ queue \subseteq queue'
         /\ e \in AllEvents
<1> DEFINE s == [worker[w] EXCEPT
                   !.pc = IF worker[w].todo = {e} THEN "settle" ELSE "publish",
                   !.todo = worker[w].todo \ {e}]
<1>1. worker[w] \in WorkerState
  BY DEF QueueInv, QueueTypeOK
<1>2. /\ s \in WorkerState /\ e \in AllEvents
      /\ s.pc = IF worker[w].todo = {e} THEN "settle" ELSE "publish"
      /\ s.todo = worker[w].todo \ {e}
      /\ s.event = worker[w].event /\ s.copy = worker[w].copy
  BY <1>1 DEF WorkerState
<1>3. worker' = [worker EXCEPT ![w] = s]
  BY DEF Publish
<1>4. /\ worker' \in [Workers -> WorkerState] /\ worker'[w] = s
      /\ OthersRest(w)
  BY ONLY QueueInv, <1>2, <1>3, WorkerMoves DEF QueueInv
<1>5. Send(e) /\ UNCHANGED <<deadLetters, faults>> /\ In(w, "publish")
  BY DEF Publish
<1>6. QueueTypeOK'
  BY <1>2, <1>4, <1>5, Sending DEF QueueInv, QueueTypeOK, Messages, WorkerState
<1>7. Busy(w)'
  BY <1>2, <1>4, <1>5, Sending DEF Busy, In, QueueInv
<1>8. ASSUME NEW v \in Workers \ {w}
      PROVE  Busy(v)'
  BY <1>2, <1>4, <1>5, Sending, BusyStays DEF OthersRest, QueueInv
<1> QED
  BY <1>2, <1>4, <1>5, <1>6, <1>7, <1>8, Sending DEF QueueInv

LEMMA Failing ==
  ASSUME QueueInv, NEW w \in Workers, CallFails(w) \/ CrashWorker(w)
  PROVE  /\ QueueInv' /\ OthersRest(w)
         /\ worker'[w].todo = {}
         /\ worker'[w].pc \in {"idle", "settle"}
         /\ worker'[w].pc = "settle" => worker'[w].outcome # "ack"
         /\ UNCHANGED <<queue, announced, deadLetters>>
<1>1. worker[w] \in WorkerState
  BY DEF QueueInv, QueueTypeOK
<1>2. /\ faults' \in 0..MaxFaults /\ UNCHANGED <<queue, announced, deadLetters>>
      /\ ~In(w, "idle")
  BY Faulting DEF CallFails, CrashWorker, QueueInv, In
<1>3. CASE CallFails(w)
  <2>1. PICK outcome \in {"retry", "leave"} :
          worker' = [worker EXCEPT ![w] =
            [@ EXCEPT !.pc = "settle", !.outcome = outcome, !.todo = {}]]
    BY <1>3 DEF CallFails
  <2> DEFINE s == [worker[w] EXCEPT !.pc = "settle", !.outcome = outcome,
                                    !.todo = {}]
  <2>2. /\ s \in WorkerState /\ s.pc = "settle" /\ s.todo = {}
        /\ s.outcome = outcome
        /\ s.event = worker[w].event /\ s.copy = worker[w].copy
    BY <1>1 DEF WorkerState
  <2>3. worker' = [worker EXCEPT ![w] = s]
    BY <2>1
  <2>4. QueueInv' /\ OthersRest(w) /\ worker'[w] = s
    BY ONLY QueueInv, <1>2, <2>2, <2>3, Moving
  <2> QED
    BY <1>2, <2>2, <2>4
<1>4. CASE CrashWorker(w)
  <2>1. /\ Resting \in WorkerState /\ Resting.pc = "idle" /\ Resting.todo = {}
    BY DEF Resting, WorkerState
  <2>2. worker' = [worker EXCEPT ![w] = Resting]
    BY <1>4 DEF CrashWorker
  <2>3. QueueInv' /\ OthersRest(w) /\ worker'[w] = Resting
    BY ONLY QueueInv, <1>2, <2>1, <2>2, Moving
  <2> QED
    BY <1>2, <2>1, <2>3
<1> QED
  BY <1>3, <1>4

LEMMA Settling ==
  ASSUME QueueInv, NEW w \in Workers, Settle(w)
  PROVE  /\ QueueInv' /\ OthersRest(w) /\ In(w, "settle")
         /\ worker'[w] = Resting
         /\ UNCHANGED <<announced, deadLetters>>
         /\ \A e : HasMessage(e) => \/ HasMessage(e)'
                                    \/ /\ worker[w].outcome = "ack"
                                       /\ e = worker[w].event
<1> DEFINE n == [event |-> worker[w].event, copy |-> worker[w].copy,
                 receives |-> 0, attempt |-> worker[w].attempt + 1]
<1>1. /\ worker[w] \in WorkerState /\ Resting \in WorkerState
      /\ Resting.pc = "idle"
  BY DEF QueueInv, QueueTypeOK, Resting, WorkerState
<1>2. /\ In(w, "settle") /\ worker' = [worker EXCEPT ![w] = Resting]
      /\ UNCHANGED <<announced, deadLetters, faults>>
  BY DEF Settle
<1>3. \/ worker[w].outcome = "ack" /\ queue' = queue \ Delivered(w)
      \/ /\ worker[w].attempt < MaxRetries
         /\ queue' = (queue \ Delivered(w)) \cup {n}
      \/ queue' = queue
  BY DEF Settle
<1>4. Busy(w) /\ ~In(w, "idle")
  BY <1>2 DEF QueueInv, In
<1>5. worker[w].attempt < MaxRetries => n \in Messages
  BY <1>1, <1>4 DEF Busy, Messages, WorkerState
<1>6. n.event = worker[w].event /\ n.event \in announced
  BY <1>4 DEF Busy
<1>7. \A m \in Delivered(w) : m \in queue /\ m.event = worker[w].event
  BY DEF Delivered, IsDelivery
<1>8. /\ queue' \subseteq Messages
      /\ \A m \in queue' : m.event \in announced'
  <2> HIDE DEF n
  <2> QED
    BY <1>2, <1>3, <1>5, <1>6 DEF QueueInv, QueueTypeOK
<1>9. /\ worker' \in [Workers -> WorkerState] /\ worker'[w] = Resting
      /\ OthersRest(w)
  BY ONLY QueueInv, <1>1, <1>2, WorkerMoves DEF QueueInv
<1>10. QueueTypeOK'
  BY <1>2, <1>8, <1>9 DEF QueueInv, QueueTypeOK, Messages, WorkerState
<1>11. ASSUME NEW v \in Workers
       PROVE  Busy(v)'
  <2>1. CASE v = w
    BY <1>1, <1>9, <2>1 DEF Busy, In
  <2>2. CASE v # w
    BY <1>2, <1>9, <2>2, BusyStays DEF OthersRest, QueueInv
  <2> QED
    BY <2>1, <2>2
<1>12. ASSUME NEW e, HasMessage(e), ~HasMessage(e)'
       PROVE  worker[w].outcome = "ack" /\ e = worker[w].event
  <2> HIDE DEF n
  <2>1. PICK m \in queue : m.event = e
    BY <1>12 DEF HasMessage
  <2>2. m \notin queue'
    BY <1>12, <2>1 DEF HasMessage
  <2>3. m \in Delivered(w)
    BY <1>3, <2>1, <2>2
  <2>4. n \notin queue'
    BY <1>6, <1>7, <1>12, <2>1, <2>3 DEF HasMessage
  <2> QED
    BY <1>3, <1>7, <2>1, <2>2, <2>3, <2>4
<1> QED
  BY <1>2, <1>8, <1>9, <1>10, <1>11, <1>12 DEF QueueInv

(***************************************************************************)
(* The journey of a signal                                                 *)
(***************************************************************************)
TableTypeOK ==
  /\ validation \in [Raws -> {"PENDING", "VALIDATED", "SUSPICIOUS", "REJECTED"}]
  /\ locked \in [Raws -> SUBSET Workers]
  /\ found \in [Workers -> SUBSET Signals]
  /\ stage \in [Signals -> {"ABSENT", "NORMALIZED", "CLASSIFIED", "SCORED"}]
  /\ flagged \subseteq Signals
  /\ scored \subseteq Signals
  /\ embedded \subseteq Signals
  /\ outputs \in [Signals -> {"NONE", "GROUNDED", "FALLBACK"}]

\* No row, no data.
DataOrder ==
  \A s \in Signals :
    ~Exists(s) => outputs[s] = "NONE" /\ s \notin scored \cup embedded

LEMMA MilestoneIs ==
  ASSUME NEW s
  PROVE  Milestone(s) = IF outputs[s] # "NONE" THEN 5
                        ELSE IF s \in embedded THEN 4
                        ELSE IF s \in scored THEN 3
                        ELSE IF stage[s] = "ABSENT" THEN 0
                        ELSE IF stage[s] = "NORMALIZED" THEN 1 ELSE 2
<1>1. CASE outputs[s] # "NONE"
  BY <1>1 DEF Milestone
<1>2. CASE outputs[s] = "NONE" /\ s \in embedded
  BY <1>2 DEF Milestone
<1>3. CASE outputs[s] = "NONE" /\ s \in scored \ embedded
  BY <1>3 DEF Milestone
<1>4. CASE outputs[s] = "NONE" /\ s \notin scored \cup embedded
  BY <1>4 DEF Milestone
<1> QED
  BY <1>1, <1>2, <1>3, <1>4

LEMMA MilestoneRange ==
  ASSUME NEW s
  PROVE  /\ Milestone(s) \in 0..5
         /\ Exists(s) => 1 <= Milestone(s)
BY MilestoneIs DEF Exists

LEMMA NextMilestoneRange ==
  ASSUME NEW s
  PROVE  Milestone(s)' \in 0..5
<1>1. CASE outputs'[s] # "NONE"
  BY <1>1 DEF Milestone
<1>2. CASE outputs'[s] = "NONE" /\ s \in embedded'
  BY <1>2 DEF Milestone
<1>3. CASE outputs'[s] = "NONE" /\ s \in scored' \ embedded'
  BY <1>3 DEF Milestone
<1>4. CASE outputs'[s] = "NONE" /\ s \notin scored' \cup embedded'
  BY <1>4 DEF Milestone
<1> QED
  BY <1>1, <1>2, <1>3, <1>4

LEMMA NoRowNoMilestone ==
  ASSUME DataOrder, NEW s \in Signals
  PROVE  Exists(s) <=> Milestone(s) # 0
BY MilestoneIs DEF DataOrder, Exists

\* A transaction completes one milestone of some signals and keeps the rest.
Advances ==
  \E n \in 1..5 : \A s \in Signals :
    \/ Milestone(s)' = Milestone(s)
    \/ Milestone(s) = n - 1 /\ Milestone(s)' = n

\* An event announces a milestone that was reached.
Backed(e) ==
  e.type \in DOMAIN MilestoneOf => MilestoneOf[e.type] <= Milestone(e.of)

LEMMA BackedIs ==
  ASSUME NEW e
  PROVE  Backed(e) <=>
           /\ e.type = "SIGNAL_NORMALIZED" => 1 <= Milestone(e.of)
           /\ e.type = "SIGNAL_CLASSIFIED" => 2 <= Milestone(e.of)
           /\ e.type = "SIGNAL_SCORED" => 3 <= Milestone(e.of)
           /\ e.type = "SIGNAL_CONTEXT_READY" => 4 <= Milestone(e.of)
           /\ e.type = "INTELLIGENCE_SYNTHESIZED" => 5 <= Milestone(e.of)
<1>1. DOMAIN MilestoneOf = {"SIGNAL_NORMALIZED", "SIGNAL_CLASSIFIED",
                            "SIGNAL_SCORED", "SIGNAL_CONTEXT_READY",
                            "INTELLIGENCE_SYNTHESIZED"}
  BY DEF MilestoneOf
<1>2. /\ MilestoneOf["SIGNAL_NORMALIZED"] = 1
      /\ MilestoneOf["SIGNAL_CLASSIFIED"] = 2
      /\ MilestoneOf["SIGNAL_SCORED"] = 3
      /\ MilestoneOf["SIGNAL_CONTEXT_READY"] = 4
      /\ MilestoneOf["INTELLIGENCE_SYNTHESIZED"] = 5
  BY DEF MilestoneOf
<1> QED
  BY <1>1, <1>2 DEF Backed

EventsBacked ==
  /\ \A e \in announced : Backed(e)
  /\ \A w \in Workers : \A e \in worker[w].todo : Backed(e)

LEMMA BackedStays ==
  ASSUME NEW e \in AllEvents, Backed(e), Advances
  PROVE  Backed(e)'
<1>1. e.type \in DOMAIN MilestoneOf => e.of \in Signals
  BY EventFields
<1>2. e.type \in DOMAIN MilestoneOf => Milestone(e.of) <= Milestone(e.of)'
  BY <1>1, MilestoneRange DEF Advances
<1>3. Milestone(e.of) \in 0..5 /\ Milestone(e.of)' \in 0..5
  BY MilestoneRange, NextMilestoneRange
<1>4. e.type \in DOMAIN MilestoneOf => MilestoneOf[e.type] \in 1..5
  BY DEF MilestoneOf
<1> QED
  BY <1>2, <1>3, <1>4 DEF Backed

(***************************************************************************)
(* What is left behind by a task that is done                              *)
(***************************************************************************)
\* Handled, for given events, statuses and flags.
HandledBy(e, told, status, flags) ==
  CASE e.type = "RAW_SIGNAL_COLLECTED" ->
         \/ status[e.of] = "REJECTED"
         \/ Event("RAW_SIGNAL_VALIDATED", e.of) \in told
         \/ Event("RAW_SIGNAL_SUSPICIOUS", e.of) \in told
    [] e.type = "RAW_SIGNAL_VALIDATED" ->
         \A d \in Docs : \E s \in Signals :
           s.raw = e.of /\ s.doc = d /\ Event("SIGNAL_NORMALIZED", s) \in told
    [] e.type = "SIGNAL_NORMALIZED" ->
         \/ Event("SIGNAL_CLASSIFIED", e.of) \in told
         \/ /\ Event("CLASSIFICATION_REVIEW_REQUIRED", e.of) \in told
            /\ e.of \in flags
    [] e.type = "SIGNAL_CLASSIFIED" -> Event("SIGNAL_SCORED", e.of) \in told
    [] e.type = "SIGNAL_SCORED" -> Event("SIGNAL_CONTEXT_READY", e.of) \in told
    [] OTHER -> Event("INTELLIGENCE_SYNTHESIZED", e.of) \in told

LEMMA HandledIs ==
  ASSUME NEW e
  PROVE  Handled(e) <=> HandledBy(e, announced, validation, flagged)
BY DEF Handled, HandledBy, Told, NormalizedDoc

LEMMA HandledGrows ==
  ASSUME NEW e \in Events, NEW A, NEW B, NEW v, NEW u, NEW f, NEW g,
         HandledBy(e, A, v, f), A \subseteq B, f \subseteq g,
         \A r \in Raws : v[r] = "REJECTED" => u[r] = "REJECTED"
  PROVE  HandledBy(e, B, u, g)
<1>1. CASE e.type = "RAW_SIGNAL_COLLECTED"
  <2>1. e.of \in Raws
    BY <1>1, EventFields, EventsAreTyped
  <2> QED
    BY <1>1, <2>1 DEF HandledBy
<1>2. CASE e.type = "RAW_SIGNAL_VALIDATED"
  BY <1>2 DEF HandledBy
<1>3. CASE e.type = "SIGNAL_NORMALIZED"
  BY <1>3 DEF HandledBy
<1>4. CASE e.type = "SIGNAL_CLASSIFIED"
  BY <1>4 DEF HandledBy
<1>5. CASE e.type = "SIGNAL_SCORED"
  BY <1>5 DEF HandledBy
<1>6. CASE e.type = "SIGNAL_CONTEXT_READY"
  BY <1>6 DEF HandledBy
<1> QED
  BY <1>1, <1>2, <1>3, <1>4, <1>5, <1>6, TypesOfEvents

\* A task that has committed will have handled its event when it has announced
\* what it still has to announce.
Promised(w) ==
  /\ In(w, "publish") =>
       HandledBy(worker[w].event, announced \cup worker[w].todo,
                 validation, flagged)
  /\ In(w, "settle") /\ worker[w].outcome = "ack" =>
       HandledBy(worker[w].event, announced, validation, flagged)

\* Verdicts, flags and events are kept.
Remembers ==
  /\ announced \subseteq announced'
  /\ flagged \subseteq flagged'
  /\ \A r \in Raws :
       validation[r] = "REJECTED" => validation'[r] = "REJECTED"

LEMMA PromiseStays ==
  ASSUME NEW v \in Workers, Busy(v), Promised(v), worker'[v] = worker[v],
         Remembers
  PROVE  Promised(v)'
<1>1. CASE In(v, "publish")
  <2>1. worker[v].event \in Events
    BY <1>1 DEF Busy, In
  <2>2. HandledBy(worker[v].event, announced' \cup worker[v].todo,
                  validation', flagged')
    BY <1>1, <2>1, HandledGrows DEF Promised, Remembers
  <2> QED
    BY <1>1, <2>2 DEF Promised, In
<1>2. CASE In(v, "settle") /\ worker[v].outcome = "ack"
  <2>1. worker[v].event \in Events
    BY <1>2 DEF Busy, In
  <2>2. HandledBy(worker[v].event, announced', validation', flagged')
    BY <1>2, <2>1, HandledGrows DEF Promised, Remembers
  <2> QED
    BY <1>2, <2>2 DEF Promised, In
<1>3. CASE ~In(v, "publish") /\ ~(In(v, "settle") /\ worker[v].outcome = "ack")
  BY <1>3 DEF Promised, In
<1> QED
  BY <1>1, <1>2, <1>3

(***************************************************************************)
(* The lock of a raw signal                                                *)
(***************************************************************************)
\* Whoever holds it has found all rows there are.
Locks ==
  \A r \in Raws : \A w \in locked[r] :
    /\ In(w, "work") /\ Type(w) = "RAW_SIGNAL_VALIDATED" /\ Subject(w) = r
    /\ found[w] = SignalsOf(r)
    /\ locked[r] = {w}

IsUnlocked(w) == \A r \in Raws : w \notin locked[r]

LEMMA UnlockedElsewhere ==
  ASSUME Locks, NEW w,
         ~In(w, "work") \/ Type(w) # "RAW_SIGNAL_VALIDATED"
  PROVE  IsUnlocked(w)
BY DEF Locks, IsUnlocked

LEMMA RowsStay ==
  ASSUME \A s \in Signals : Exists(s)' = Exists(s)
  PROVE  \A r \in Raws : SignalsOf(r)' = SignalsOf(r)
BY DEF SignalsOf

LEMMA LocksStay ==
  ASSUME Locks, TableTypeOK, NEW w \in Workers, IsUnlocked(w), OthersRest(w),
         UNCHANGED lockVars, \A r \in Raws : SignalsOf(r)' = SignalsOf(r)
  PROVE  Locks'
<1> SUFFICES ASSUME NEW r \in Raws, NEW v \in locked[r]
             PROVE  /\ In(v, "work")' /\ (Type(v) = "RAW_SIGNAL_VALIDATED")'
                    /\ (Subject(v) = r)'
                    /\ found'[v] = SignalsOf(r)' /\ locked'[r] = {v}
  BY DEF Locks, lockVars
<1>1. v \in Workers \ {w}
  BY DEF TableTypeOK, IsUnlocked
<1>2. worker'[v] = worker[v]
  BY <1>1 DEF OthersRest
<1> QED
  BY <1>2 DEF Locks, In, Type, Subject, lockVars

LEMMA UnlockKeeps ==
  ASSUME Locks, TableTypeOK, NEW w \in Workers, Unlock(w), OthersRest(w),
         \A r \in Raws : w \notin locked[r] => SignalsOf(r)' = SignalsOf(r)
  PROVE  Locks'
<1> SUFFICES ASSUME NEW r \in Raws, NEW v \in locked'[r]
             PROVE  /\ In(v, "work")' /\ (Type(v) = "RAW_SIGNAL_VALIDATED")'
                    /\ (Subject(v) = r)'
                    /\ found'[v] = SignalsOf(r)' /\ locked'[r] = {v}
  BY DEF Locks
<1>1. locked'[r] = locked[r] \ {w}
  BY DEF Unlock
<1>2. v \in Workers \ {w} /\ v \in locked[r]
  BY <1>1 DEF TableTypeOK
<1>3. locked[r] = {v}
  BY <1>2 DEF Locks
<1>4. SignalsOf(r)' = SignalsOf(r)
  BY <1>2, <1>3
<1>5. worker'[v] = worker[v] /\ found'[v] = found[v]
  BY <1>2 DEF OthersRest, Unlock, TableTypeOK
<1> QED
  BY <1>1, <1>2, <1>3, <1>4, <1>5 DEF Locks, In, Type, Subject

(***************************************************************************)
(* The inductive invariant                                                 *)
(***************************************************************************)
IInv ==
  /\ QueueInv /\ TableTypeOK /\ DataOrder /\ EventsBacked /\ Locks
  /\ OneSignalPerDocument
  /\ \A w \in Workers : Promised(w)

LEMMA InitIInv == Init => IInv
<1> SUFFICES ASSUME Init
             PROVE  IInv
  OBVIOUS
<1>1. Resting \in WorkerState /\ Resting.pc = "idle" /\ Resting.todo = {}
  BY DEF Resting, WorkerState
<1>2. QueueTypeOK
  BY <1>1 DEF Init, QueueInit, QueueTypeOK
<1>3. \A w \in Workers : worker[w] = Resting
  BY DEF Init, QueueInit
<1>4. QueueInv
  BY <1>1, <1>2, <1>3 DEF Init, QueueInit, QueueInv, Busy, In
<1>5. TableTypeOK
  BY DEF Init, TableTypeOK
<1>6. DataOrder
  BY DEF Init, DataOrder
<1>7. EventsBacked
  BY <1>1, <1>3 DEF Init, QueueInit, EventsBacked
<1>8. Locks
  BY DEF Init, Locks
<1>9. OneSignalPerDocument
  BY DEF Init, OneSignalPerDocument, Exists
<1>10. \A w \in Workers : Promised(w)
  BY <1>1, <1>3 DEF Promised, In
<1> QED
  BY <1>4, <1>5, <1>6, <1>7, <1>8, <1>9, <1>10 DEF IInv

(***************************************************************************)
(* Steps that leave the tables alone                                       *)
(***************************************************************************)
LEMMA SameTables ==
  ASSUME IInv, UNCHANGED tableVars
  PROVE  /\ Advances
         /\ \A s \in Signals : Exists(s)' = Exists(s)
         /\ DataOrder' /\ OneSignalPerDocument'
<1>1. \A s : Milestone(s)' = Milestone(s)
  BY DEF tableVars, Milestone
<1>2. \A s : Exists(s)' = Exists(s)
  BY DEF tableVars, Exists
<1> QED
  BY <1>1, <1>2 DEF Advances, IInv, DataOrder, OneSignalPerDocument, tableVars

\* A worker goes on, or takes up a message.
LEMMA QueueStep ==
  ASSUME IInv, NEW w \in Workers, QueueInv', OthersRest(w),
         UNCHANGED <<lockVars, tableVars>>, announced \subseteq announced',
         \A e \in announced' : e \in announced \/ e \in worker[w].todo,
         worker'[w].todo \subseteq worker[w].todo,
         ~In(w, "work"), Promised(w)'
  PROVE  IInv' /\ Advances
<1>1. UNCHANGED lockVars /\ UNCHANGED tableVars
  OBVIOUS
<1>2. /\ Advances /\ DataOrder' /\ OneSignalPerDocument'
      /\ \A r \in Raws : SignalsOf(r)' = SignalsOf(r)
  BY <1>1, SameTables, RowsStay
<1>3. TableTypeOK'
  BY <1>1 DEF IInv, TableTypeOK, lockVars, tableVars
<1>4. Locks'
  <2>1. IsUnlocked(w)
    BY UnlockedElsewhere DEF IInv
  <2> QED
    BY <1>1, <1>2, <2>1, LocksStay DEF IInv
<1>5. EventsBacked'
  <2>1. \A e \in worker[w].todo \cup announced : Backed(e) /\ e \in AllEvents
    BY DEF IInv, EventsBacked, QueueInv, QueueTypeOK, WorkerState
  <2>2. \A e \in announced' : Backed(e)'
    BY <1>2, <2>1, BackedStays
  <2>3. ASSUME NEW v \in Workers, NEW e \in worker'[v].todo
        PROVE  Backed(e)'
    <3>1. CASE v = w
      BY <1>2, <2>1, <2>3, <3>1, BackedStays
    <3>2. CASE v # w
      <4>1. e \in worker[v].todo /\ Backed(e)
        BY <2>3, <3>2 DEF OthersRest, IInv, EventsBacked
      <4>2. e \in AllEvents
        BY <4>1 DEF IInv, QueueInv, QueueTypeOK, WorkerState
      <4> QED
        BY <1>2, <4>1, <4>2, BackedStays
    <3> QED
      BY <3>1, <3>2
  <2> QED
    BY <2>2, <2>3 DEF EventsBacked
<1>6. ASSUME NEW v \in Workers
      PROVE  Promised(v)'
  <2>1. Remembers
    BY <1>1 DEF Remembers, tableVars
  <2>2. v # w => worker'[v] = worker[v]
    BY DEF OthersRest
  <2>3. Busy(v) /\ Promised(v)
    BY DEF IInv, QueueInv
  <2> QED
    BY <2>1, <2>2, <2>3, PromiseStays
<1> QED
  BY <1>2, <1>3, <1>4, <1>5, <1>6 DEF IInv

\* No worker moves.
LEMMA OutsideStep ==
  ASSUME IInv, QueueInv', UNCHANGED <<worker, lockVars, tableVars>>,
         announced \subseteq announced', \A e \in announced' : Backed(e),
         announced' \subseteq AllEvents
  PROVE  IInv' /\ Advances
<1>1. UNCHANGED lockVars /\ UNCHANGED tableVars /\ UNCHANGED worker
  OBVIOUS
<1>2. /\ Advances /\ DataOrder' /\ OneSignalPerDocument'
      /\ \A r \in Raws : SignalsOf(r)' = SignalsOf(r)
  BY <1>1, SameTables, RowsStay
<1>3. TableTypeOK'
  BY <1>1 DEF IInv, TableTypeOK, lockVars, tableVars
<1>4. Locks'
  BY <1>1, <1>2 DEF IInv, Locks, In, Type, Subject, lockVars
<1>5. EventsBacked'
  <2>1. \A e \in announced' : Backed(e)'
    BY <1>2, BackedStays
  <2>2. ASSUME NEW v \in Workers, NEW e \in worker'[v].todo
        PROVE  Backed(e)'
    <3>1. e \in worker[v].todo /\ Backed(e) /\ e \in AllEvents
      BY <1>1, <2>2 DEF IInv, EventsBacked, QueueInv, QueueTypeOK, WorkerState
    <3> QED
      BY <1>2, <3>1, BackedStays
  <2> QED
    BY <2>1, <2>2 DEF EventsBacked
<1>6. ASSUME NEW v \in Workers
      PROVE  Promised(v)'
  <2>1. Remembers
    BY <1>1 DEF Remembers, tableVars
  <2>2. Busy(v) /\ Promised(v)
    BY DEF IInv, QueueInv
  <2> QED
    BY <1>1, <2>1, <2>2, PromiseStays
<1> QED
  BY <1>2, <1>3, <1>4, <1>5, <1>6 DEF IInv

LEMMA CollectedStep ==
  ASSUME IInv, NEW r \in Raws, Collected(r)
  PROVE  IInv' /\ Advances /\ queue \subseteq queue'
<1> DEFINE e == Event("RAW_SIGNAL_COLLECTED", r)
<1>1. e \in AllEvents
  BY EventsAreTyped
<1>2. Backed(e)
  BY DEF Backed, Event, MilestoneOf
<1>3. /\ Send(e) /\ UNCHANGED <<deadLetters, worker>>
      /\ UNCHANGED <<worker, lockVars, tableVars>>
  BY DEF Collected
<1>4. faults' \in 0..MaxFaults
  BY Faulting DEF Collected, IInv, QueueInv, QueueTypeOK
<1>5. QueueInv' /\ announced' = announced \cup {e} /\ queue \subseteq queue'
  BY <1>1, <1>3, <1>4, Collecting DEF IInv
<1>6. /\ \A f \in announced' : Backed(f)
      /\ announced' \subseteq AllEvents
  BY <1>1, <1>2, <1>5 DEF IInv, EventsBacked, QueueInv, QueueTypeOK
<1> QED
  BY <1>3, <1>5, <1>6, OutsideStep

LEMMA LoadStep ==
  ASSUME IInv, NEW w \in Workers, Load(w)
  PROVE  IInv' /\ Advances
<1>1. /\ Proceed(w) /\ UNCHANGED <<lockVars, tableVars>>
  BY DEF Load
<1>2. /\ QueueInv' /\ OthersRest(w) /\ In(w, "load")
      /\ worker'[w].pc = "work" /\ worker'[w].todo = worker[w].todo
  BY <1>1, Proceeding DEF IInv
<1>3. announced' = announced
  BY <1>1 DEF Proceed
<1>4. Promised(w)' /\ ~In(w, "work")
  BY <1>2 DEF Promised, In
<1> QED
  BY <1>1, <1>2, <1>3, <1>4, QueueStep

LEMMA RefusedStep ==
  ASSUME IInv, NEW w \in Workers, Refused(w)
  PROVE  IInv' /\ Advances
<1>1. /\ Refuse(w) /\ UNCHANGED <<lockVars, tableVars>>
  BY DEF Refused
<1>2. /\ QueueInv' /\ OthersRest(w) /\ In(w, "load")
      /\ worker'[w].pc = "settle" /\ worker'[w].todo = worker[w].todo
      /\ worker'[w].outcome = "leave"
  BY <1>1, Refusing DEF IInv
<1>3. announced' = announced
  BY <1>1 DEF Refuse
<1>4. Promised(w)' /\ ~In(w, "work")
  BY <1>2 DEF Promised, In
<1> QED
  BY <1>1, <1>2, <1>3, <1>4, QueueStep

LEMMA AnnounceStep ==
  ASSUME IInv, NEW w \in Workers, Announce(w)
  PROVE  IInv' /\ Advances /\ queue \subseteq queue'
<1>1. PICK e \in worker[w].todo : Publish(w, e)
  BY DEF Announce
<1>2. /\ QueueInv' /\ OthersRest(w) /\ In(w, "publish")
      /\ worker'[w].pc = IF worker[w].todo = {e} THEN "settle" ELSE "publish"
      /\ worker'[w].todo = worker[w].todo \ {e}
      /\ worker'[w].event = worker[w].event
      /\ announced' = announced \cup {e}
      /\ queue \subseteq queue'
  BY <1>1, Publishing DEF IInv
<1>3. UNCHANGED <<lockVars, tableVars>>
  BY DEF Announce
<1>4. HandledBy(worker[w].event, announced \cup worker[w].todo,
                validation, flagged)
  BY <1>2 DEF IInv, Promised
<1>5. /\ announced' \cup worker'[w].todo = announced \cup worker[w].todo
      /\ worker[w].todo = {e} => announced' = announced \cup worker[w].todo
  BY <1>1, <1>2
<1>6. validation' = validation /\ flagged' = flagged
  BY <1>3 DEF tableVars
<1>7. Promised(w)'
  BY <1>2, <1>4, <1>5, <1>6 DEF Promised, In
<1>8. ~In(w, "work")
  BY <1>2 DEF In
<1> QED
  BY <1>1, <1>2, <1>3, <1>7, <1>8, QueueStep

LEMMA SettleStep ==
  ASSUME IInv, NEW w \in Workers, Settle(w), UNCHANGED <<lockVars, tableVars>>
  PROVE  IInv' /\ Advances
<1>1. /\ QueueInv' /\ OthersRest(w) /\ In(w, "settle")
      /\ worker'[w] = Resting /\ UNCHANGED <<announced, deadLetters>>
  BY Settling DEF IInv
<1>2. Resting.pc = "idle" /\ Resting.todo = {}
  BY DEF Resting
<1>3. Promised(w)' /\ ~In(w, "work")
  BY <1>1, <1>2 DEF Promised, In
<1> QED
  BY <1>1, <1>2, <1>3, QueueStep

LEMMA DeliverStep ==
  ASSUME IInv, NEW q, Deliver(q)
  PROVE  IInv' /\ Advances /\ \A e : HasMessage(e) => HasMessage(e)'
<1>1. PICK w \in Workers, m \in queue : Receive(w, m)
  BY DEF Deliver
<1>2. /\ QueueInv' /\ OthersRest(w) /\ In(w, "idle")
      /\ worker'[w].pc = "load" /\ worker'[w].todo = {}
      /\ UNCHANGED <<announced, deadLetters>>
      /\ \A e : HasMessage(e) => HasMessage(e)'
  BY <1>1, Receiving DEF IInv
<1>3. UNCHANGED <<lockVars, tableVars>>
  BY DEF Deliver
<1>4. Promised(w)' /\ ~In(w, "work")
  BY <1>2 DEF Promised, In
<1> QED
  BY <1>2, <1>3, <1>4, QueueStep

LEMMA RedriveStep ==
  ASSUME IInv, Redrive
  PROVE  /\ IInv' /\ Advances
         /\ \A e : HasMessage(e) => HasMessage(e)' \/ e \in deadLetters'
<1>1. PICK m \in queue : DeadLetter(m)
  BY DEF Redrive
<1>2. /\ QueueInv' /\ UNCHANGED <<announced, worker>>
      /\ \A e : HasMessage(e) => HasMessage(e)' \/ e \in deadLetters'
  BY <1>1, Redriving DEF IInv
<1>3. UNCHANGED <<worker, lockVars, tableVars>>
  BY <1>2 DEF Redrive
<1>4. /\ \A f \in announced' : Backed(f)
      /\ announced' \subseteq AllEvents
  BY <1>2 DEF IInv, EventsBacked, QueueInv, QueueTypeOK
<1> QED
  BY <1>2, <1>3, <1>4, OutsideStep

(***************************************************************************)
(* Transactions                                                            *)
(***************************************************************************)
LEMMA NextMilestoneIs ==
  ASSUME NEW s
  PROVE  Milestone(s)' = IF outputs'[s] # "NONE" THEN 5
                         ELSE IF s \in embedded' THEN 4
                         ELSE IF s \in scored' THEN 3
                         ELSE IF stage'[s] = "ABSENT" THEN 0
                         ELSE IF stage'[s] = "NORMALIZED" THEN 1 ELSE 2
<1>1. CASE outputs'[s] # "NONE"
  BY <1>1 DEF Milestone
<1>2. CASE outputs'[s] = "NONE" /\ s \in embedded'
  BY <1>2 DEF Milestone
<1>3. CASE outputs'[s] = "NONE" /\ s \in scored' \ embedded'
  BY <1>3 DEF Milestone
<1>4. CASE outputs'[s] = "NONE" /\ s \notin scored' \cup embedded'
  BY <1>4 DEF Milestone
<1> QED
  BY <1>1, <1>2, <1>3, <1>4

\* An event about a milestone that is there after the step.
LEMMA BackedNext ==
  ASSUME NEW type, NEW s
  PROVE  /\ type \notin DOMAIN MilestoneOf => Backed(Event(type, s))'
         /\ (type \in DOMAIN MilestoneOf /\ MilestoneOf[type] <= Milestone(s)')
              => Backed(Event(type, s))'
BY DEF Backed, Event

LEMMA MilestonesOf ==
  /\ DOMAIN MilestoneOf = {"SIGNAL_NORMALIZED", "SIGNAL_CLASSIFIED",
                           "SIGNAL_SCORED", "SIGNAL_CONTEXT_READY",
                           "INTELLIGENCE_SYNTHESIZED"}
  /\ MilestoneOf["SIGNAL_NORMALIZED"] = 1
  /\ MilestoneOf["SIGNAL_CLASSIFIED"] = 2
  /\ MilestoneOf["SIGNAL_SCORED"] = 3
  /\ MilestoneOf["SIGNAL_CONTEXT_READY"] = 4
  /\ MilestoneOf["INTELLIGENCE_SYNTHESIZED"] = 5
BY DEF MilestoneOf

\* What a worker may rely on when its first read is done.
LEMMA AtWork ==
  ASSUME IInv, NEW w \in Workers, In(w, "work")
  PROVE  /\ worker[w].event \in Events
         /\ Type(w) \in {"RAW_SIGNAL_COLLECTED", "RAW_SIGNAL_VALIDATED"} =>
              Subject(w) \in Raws
         /\ Type(w) = "SIGNAL_NORMALIZED" =>
              Subject(w) \in Signals /\ 1 <= Milestone(Subject(w))
         /\ Type(w) = "SIGNAL_CLASSIFIED" =>
              Subject(w) \in Signals /\ 2 <= Milestone(Subject(w))
         /\ Type(w) = "SIGNAL_SCORED" =>
              Subject(w) \in Signals /\ 3 <= Milestone(Subject(w))
         /\ Type(w) = "SIGNAL_CONTEXT_READY" =>
              Subject(w) \in Signals /\ 4 <= Milestone(Subject(w))
<1>1. worker[w].event \in Events /\ worker[w].event \in announced
  BY DEF IInv, QueueInv, Busy, In
<1>2. Backed(worker[w].event)
  BY <1>1 DEF IInv, EventsBacked
<1>3. worker[w].event \in AllEvents
  BY <1>1, EventsAreTyped
<1> QED
  BY <1>1, <1>2, <1>3, BackedIs, EventFields, TypesOfEvents DEF Type, Subject

LEMMA CommitStep ==
  ASSUME IInv, NEW w \in Workers, NEW E, E \subseteq AllEvents, Commit(w, E),
         TableTypeOK', DataOrder', OneSignalPerDocument', Locks', Advances,
         flagged \subseteq flagged',
         \A r \in Raws : validation[r] = "REJECTED" => validation'[r] = "REJECTED",
         \A e \in E : Backed(e)',
         HandledBy(worker[w].event, announced \cup E, validation', flagged')
  PROVE  IInv'
<1>1. /\ QueueInv' /\ OthersRest(w) /\ In(w, "work")
      /\ worker'[w].pc = IF E = {} THEN "settle" ELSE "publish"
      /\ worker'[w].todo = E
      /\ worker'[w].event = worker[w].event
  BY Committing DEF IInv
<1>2. announced' = announced
  BY DEF Commit
<1>3. EventsBacked'
  <2>1. ASSUME NEW e \in announced'
        PROVE  Backed(e)'
    BY <1>2, <2>1, BackedStays DEF IInv, EventsBacked, QueueInv, QueueTypeOK
  <2>2. ASSUME NEW v \in Workers, NEW e \in worker'[v].todo
        PROVE  Backed(e)'
    <3>1. CASE v = w
      BY <1>1, <2>2, <3>1
    <3>2. CASE v # w
      <4>1. e \in worker[v].todo /\ Backed(e)
        BY <1>1, <2>2, <3>2 DEF OthersRest, IInv, EventsBacked
      <4>2. e \in AllEvents
        BY <4>1 DEF IInv, QueueInv, QueueTypeOK, WorkerState
      <4> QED
        BY <4>1, <4>2, BackedStays
    <3> QED
      BY <3>1, <3>2
  <2> QED
    BY <2>1, <2>2 DEF EventsBacked
<1>4. Promised(w)'
  <2>1. HandledBy(worker'[w].event, announced' \cup worker'[w].todo,
                  validation', flagged')
    BY <1>1, <1>2
  <2>2. worker'[w].pc = "settle" => announced' \cup worker'[w].todo = announced'
    BY <1>1, <1>2
  <2> QED
    BY <2>1, <2>2 DEF Promised, In
<1>5. ASSUME NEW v \in Workers \ {w}
      PROVE  Promised(v)'
  <2>1. Remembers
    BY <1>2 DEF Remembers
  <2>2. worker'[v] = worker[v] /\ Busy(v) /\ Promised(v)
    BY <1>1 DEF OthersRest, IInv, QueueInv
  <2> QED
    BY <2>1, <2>2, PromiseStays
<1> QED
  BY <1>1, <1>3, <1>4, <1>5 DEF IInv

LEMMA ValidateStep ==
  ASSUME IInv, NEW w \in Workers, Validate(w)
  PROVE  IInv' /\ Advances
<1> DEFINE r == Subject(w)
<1>1. /\ Working(w, "RAW_SIGNAL_COLLECTED") /\ In(w, "work")
      /\ worker[w].event.type = "RAW_SIGNAL_COLLECTED"
  BY DEF Validate, Working, Type
<1>2. r \in Raws
  BY <1>1, AtWork DEF Type
<1>3. PICK status \in IF validation[r] = "PENDING"
                      THEN {"VALIDATED", "SUSPICIOUS", "REJECTED"}
                      ELSE {validation[r]} :
        /\ validation' = [validation EXCEPT ![r] = status]
        /\ Commit(w, CASE status = "VALIDATED" ->
                            {Event("RAW_SIGNAL_VALIDATED", r)}
                       [] status = "SUSPICIOUS" ->
                            {Event("RAW_SIGNAL_SUSPICIOUS", r)}
                       [] OTHER -> {})
  BY DEF Validate
<1> DEFINE E == CASE status = "VALIDATED" -> {Event("RAW_SIGNAL_VALIDATED", r)}
                  [] status = "SUSPICIOUS" -> {Event("RAW_SIGNAL_SUSPICIOUS", r)}
                  [] OTHER -> {}
<1>4. UNCHANGED <<lockVars, stage, flagged, scored, embedded, outputs>>
  BY DEF Validate
<1>5. validation \in [Raws -> {"PENDING", "VALIDATED", "SUSPICIOUS", "REJECTED"}]
  BY DEF IInv, TableTypeOK
<1>6. E \subseteq AllEvents
  BY <1>2, EventsAreTyped
<1>7. TableTypeOK'
  BY <1>2, <1>3, <1>4, <1>5 DEF IInv, TableTypeOK, lockVars
<1>8. /\ \A s : Milestone(s)' = Milestone(s)
      /\ \A s : Exists(s)' = Exists(s)
  BY <1>4 DEF Milestone, Exists
<1>9. DataOrder' /\ OneSignalPerDocument' /\ Advances
  BY <1>4, <1>8 DEF IInv, DataOrder, OneSignalPerDocument, Advances
<1>10. Locks'
  <2>1. OthersRest(w) /\ UNCHANGED lockVars
    BY <1>3, <1>4, <1>6, Committing DEF IInv
  <2>2. IsUnlocked(w)
    BY <1>1, UnlockedElsewhere DEF IInv, Type
  <2> QED
    BY <1>8, <2>1, <2>2, RowsStay, LocksStay DEF IInv
<1>11. \A q \in Raws : validation[q] = "REJECTED" => validation'[q] = "REJECTED"
  BY <1>2, <1>3, <1>5
<1>12. \A e \in E : Backed(e)'
  BY BackedNext, MilestonesOf
<1>13. HandledBy(worker[w].event, announced \cup E, validation', flagged')
  <2>1. \/ status = "REJECTED" /\ validation'[r] = "REJECTED"
        \/ Event("RAW_SIGNAL_VALIDATED", r) \in E
        \/ Event("RAW_SIGNAL_SUSPICIOUS", r) \in E
        \/ status = "PENDING"
    BY <1>2, <1>3, <1>5
  <2>2. status # "PENDING"
    BY <1>3
  <2> QED
    BY <1>1, <2>1, <2>2 DEF HandledBy, Subject
<1>14. Commit(w, E)
  BY <1>3
<1> QED
  <2> HIDE DEF E
  <2> QED
    BY <1>4, <1>6, <1>7, <1>9, <1>10, <1>11, <1>12, <1>13, <1>14, CommitStep

LEMMA LockRawStep ==
  ASSUME IInv, NEW w \in Workers, LockRaw(w)
  PROVE  IInv' /\ Advances
<1> DEFINE r == Subject(w)
<1>1. /\ In(w, "work") /\ Type(w) = "RAW_SIGNAL_VALIDATED"
      /\ locked[r] = {}
      /\ locked' = [locked EXCEPT ![r] = locked[r] \cup {w}]
      /\ found' = [found EXCEPT ![w] = SignalsOf(r)]
      /\ UNCHANGED queueVars /\ UNCHANGED tableVars
  BY DEF LockRaw, Working
<1>2. r \in Raws
  BY <1>1, AtWork
<1>3. /\ Advances /\ DataOrder' /\ OneSignalPerDocument'
      /\ \A q \in Raws : SignalsOf(q)' = SignalsOf(q)
  BY <1>1, SameTables, RowsStay
<1>4. SignalsOf(r) \subseteq Signals
  BY DEF SignalsOf
<1>5. TableTypeOK'
  BY <1>1, <1>2, <1>4 DEF IInv, TableTypeOK, tableVars
<1>6. QueueInv'
  BY <1>1 DEF IInv, QueueInv, QueueTypeOK, Busy, In, queueVars, Messages,
              WorkerState
<1>7. Locks'
  <2> SUFFICES ASSUME NEW q \in Raws, NEW v \in locked'[q]
               PROVE  /\ In(v, "work")' /\ (Type(v) = "RAW_SIGNAL_VALIDATED")'
                      /\ (Subject(v) = q)'
                      /\ found'[v] = SignalsOf(q)' /\ locked'[q] = {v}
    BY DEF Locks
  <2>1. worker' = worker
    BY <1>1 DEF queueVars
  <2>2. CASE q = r
    <3>1. v = w /\ locked'[q] = {w} /\ found'[w] = SignalsOf(r)
      BY <1>1, <1>2, <2>2 DEF IInv, TableTypeOK
    <3> QED
      BY <1>1, <1>3, <2>1, <2>2, <3>1 DEF In, Type, Subject
  <2>3. CASE q # r
    <3>1. v \in locked[q] /\ locked'[q] = locked[q]
      BY <1>1, <1>2, <2>3 DEF IInv, TableTypeOK
    <3>2. v # w /\ v \in Workers
      BY <2>3, <3>1 DEF IInv, Locks, TableTypeOK
    <3>3. found'[v] = found[v]
      BY <1>1, <3>2 DEF IInv, TableTypeOK
    <3> QED
      BY <1>3, <2>1, <3>1, <3>3 DEF IInv, Locks, In, Type, Subject
  <2> QED
    BY <2>2, <2>3
<1>8. EventsBacked'
  <2>1. ASSUME NEW e \in announced
        PROVE  Backed(e)'
    BY <1>3, BackedStays DEF IInv, EventsBacked, QueueInv, QueueTypeOK
  <2>2. ASSUME NEW v \in Workers, NEW e \in worker[v].todo
        PROVE  Backed(e)'
    BY <1>3, BackedStays DEF IInv, EventsBacked, QueueInv, QueueTypeOK, WorkerState
  <2> QED
    BY <1>1, <2>1, <2>2 DEF EventsBacked, queueVars
<1>9. ASSUME NEW v \in Workers
      PROVE  Promised(v)'
  <2>1. Remembers
    BY <1>1 DEF Remembers, tableVars, queueVars
  <2>2. Busy(v) /\ Promised(v) /\ worker'[v] = worker[v]
    BY <1>1 DEF IInv, QueueInv, queueVars
  <2> QED
    BY <2>1, <2>2, PromiseStays
<1> QED
  BY <1>3, <1>5, <1>6, <1>7, <1>8, <1>9 DEF IInv

LEMMA FailStep ==
  ASSUME IInv, NEW w \in Workers, TaskFails(w)
  PROVE  IInv' /\ Advances /\ queue' = queue
<1>1. /\ CallFails(w) \/ CrashWorker(w)
      /\ Unlock(w) /\ UNCHANGED tableVars
  BY DEF TaskFails
<1>2. /\ QueueInv' /\ OthersRest(w)
      /\ worker'[w].todo = {}
      /\ worker'[w].pc \in {"idle", "settle"}
      /\ worker'[w].pc = "settle" => worker'[w].outcome # "ack"
      /\ UNCHANGED <<queue, announced, deadLetters>>
  BY <1>1, Failing DEF IInv
<1>3. /\ Advances /\ DataOrder' /\ OneSignalPerDocument'
      /\ \A r \in Raws : SignalsOf(r)' = SignalsOf(r)
  BY <1>1, SameTables, RowsStay
<1>4. TableTypeOK'
  BY <1>1 DEF IInv, TableTypeOK, tableVars, Unlock
<1>5. Locks'
  BY <1>1, <1>2, <1>3, UnlockKeeps DEF IInv
<1>6. EventsBacked'
  <2>1. ASSUME NEW e \in announced
        PROVE  Backed(e)'
    BY <1>3, BackedStays DEF IInv, EventsBacked, QueueInv, QueueTypeOK
  <2>2. ASSUME NEW v \in Workers, NEW e \in worker'[v].todo
        PROVE  Backed(e)'
    <3>1. v # w
      BY <1>2, <2>2
    <3>2. e \in worker[v].todo
      BY <1>2, <2>2, <3>1 DEF OthersRest
    <3> QED
      BY <1>3, <3>2, BackedStays
         DEF IInv, EventsBacked, QueueInv, QueueTypeOK, WorkerState
  <2> QED
    BY <1>2, <2>1, <2>2 DEF EventsBacked
<1>7. Promised(w)'
  BY <1>2 DEF Promised, In
<1>8. ASSUME NEW v \in Workers \ {w}
      PROVE  Promised(v)'
  <2>1. Remembers
    BY <1>1, <1>2 DEF Remembers, tableVars
  <2>2. Busy(v) /\ Promised(v) /\ worker'[v] = worker[v]
    BY <1>2 DEF IInv, QueueInv, OthersRest
  <2> QED
    BY <2>1, <2>2, PromiseStays
<1> QED
  BY <1>2, <1>3, <1>4, <1>5, <1>6, <1>7, <1>8 DEF IInv

LEMMA NormalizeStep ==
  ASSUME IInv, NEW w \in Workers, Normalize(w)
  PROVE  IInv' /\ Advances
<1> DEFINE r == Subject(w)
           new == Inserted(w)
<1>1. /\ In(w, "work") /\ Type(w) = "RAW_SIGNAL_VALIDATED"
      /\ w \in locked[r]
      /\ stage' = [s \in Signals |-> IF s \in new THEN "NORMALIZED" ELSE stage[s]]
      /\ flagged' = flagged \cup {s \in new : s.doc \in Unresolved}
      /\ Unlock(w)
      /\ UNCHANGED <<validation, scored, embedded, outputs>>
  BY DEF Normalize, Working
<1>2. PICK result \in Results(w) :
        Commit(w, {Event("SIGNAL_NORMALIZED", result[d]) : d \in Docs} \cup
                  {Event("ENTITY_RESOLUTION_REQUIRED", result[d]) : d \in Unresolved})
  BY DEF Normalize
<1> DEFINE E == {Event("SIGNAL_NORMALIZED", result[d]) : d \in Docs} \cup
                {Event("ENTITY_RESOLUTION_REQUIRED", result[d]) : d \in Unresolved}
<1>3. r \in Raws
  BY <1>1, AtWork
<1>4. found[w] = SignalsOf(r)
  BY <1>1, <1>3 DEF IInv, Locks
<1>5. /\ new \subseteq Signals
      /\ \A s \in new : s.raw = r /\ s.by = w /\ s = [raw |-> r, doc |-> s.doc, by |-> w]
      /\ \A s \in new : \A t \in found[w] : t.doc # s.doc
  BY <1>3 DEF Inserted, Signals
<1>6. \A s \in new : ~Exists(s)
  BY <1>4, <1>5 DEF SignalsOf
<1>7. /\ \A s \in new : Exists(s)'
      /\ \A s \in Signals \ new : Exists(s)' = Exists(s)
  BY <1>1, <1>5 DEF Exists
<1>8. /\ \A s \in new : Milestone(s) = 0 /\ Milestone(s)' = 1
      /\ \A s \in Signals \ new : Milestone(s)' = Milestone(s)
  <2>1. ASSUME NEW s \in new
        PROVE  Milestone(s) = 0 /\ Milestone(s)' = 1
    <3>1. /\ s \in Signals /\ ~Exists(s) /\ stage'[s] = "NORMALIZED"
          /\ outputs[s] = "NONE" /\ s \notin scored \cup embedded
      BY <1>1, <1>5, <1>6 DEF IInv, DataOrder
    <3> QED
      BY <1>1, <3>1, MilestoneIs, NextMilestoneIs DEF Exists
  <2>2. ASSUME NEW s \in Signals \ new
        PROVE  Milestone(s)' = Milestone(s)
    <3>1. stage'[s] = stage[s]
      BY <1>1
    <3> QED
      BY <1>1, <3>1, MilestoneIs, NextMilestoneIs
  <2> QED
    BY <2>1, <2>2
<1>9. Advances
  <2>1. 1 \in 1..5 /\ 1 - 1 = 0
    OBVIOUS
  <2> QED
    BY <1>8, <2>1 DEF Advances
<1>10. TableTypeOK'
  <2>1. stage' \in [Signals -> {"ABSENT", "NORMALIZED", "CLASSIFIED", "SCORED"}]
    BY <1>1 DEF IInv, TableTypeOK
  <2>2. flagged' \subseteq Signals
    BY <1>1, <1>5 DEF IInv, TableTypeOK
  <2>3. /\ locked' \in [Raws -> SUBSET Workers]
        /\ found' \in [Workers -> SUBSET Signals]
    BY <1>1 DEF IInv, TableTypeOK, Unlock
  <2> QED
    BY <1>1, <2>1, <2>2, <2>3 DEF IInv, TableTypeOK
<1>11. DataOrder'
  BY <1>1, <1>7 DEF IInv, DataOrder
<1>12. OneSignalPerDocument'
  <2> SUFFICES ASSUME NEW s \in Signals, NEW t \in Signals,
                      Exists(s)', Exists(t)', s.raw = t.raw, s.doc = t.doc
               PROVE  s = t
    BY DEF OneSignalPerDocument
  <2>1. CASE s \in new /\ t \in new
    BY <1>5, <2>1
  <2>2. CASE s \in new /\ t \notin new
    <3>1. t \in found[w]
      BY <1>4, <1>5, <1>7, <2>2 DEF SignalsOf
    <3> QED
      BY <1>5, <2>2, <3>1
  <2>3. CASE s \notin new /\ t \in new
    <3>1. s \in found[w]
      BY <1>4, <1>5, <1>7, <2>3 DEF SignalsOf
    <3> QED
      BY <1>5, <2>3, <3>1
  <2>4. CASE s \notin new /\ t \notin new
    BY <1>7, <2>4 DEF IInv, OneSignalPerDocument
  <2> QED
    BY <2>1, <2>2, <2>3, <2>4
<1>13. /\ result \in [Docs -> found[w] \cup new]
       /\ \A d \in Docs : /\ result[d].doc = d /\ result[d] \in Signals
                          /\ result[d].raw = r /\ 1 <= Milestone(result[d])'
  <2>1. /\ result \in [Docs -> found[w] \cup new]
        /\ \A d \in Docs : result[d].doc = d
    BY DEF Results
  <2>2. ASSUME NEW d \in Docs
        PROVE  /\ result[d] \in Signals /\ result[d].raw = r
               /\ 1 <= Milestone(result[d])'
    <3>1. CASE result[d] \in new
      BY <1>5, <1>8, <3>1
    <3>2. CASE result[d] \in found[w] /\ result[d] \notin new
      <4>1. result[d] \in Signals /\ result[d].raw = r /\ Exists(result[d])
        BY <1>4, <3>2 DEF SignalsOf
      <4> QED
        BY <1>8, <3>2, <4>1, MilestoneRange
    <3> QED
      BY <2>1, <3>1, <3>2
  <2> QED
    BY <2>1, <2>2
<1>14. E \subseteq AllEvents
  BY <1>13, EventsAreTyped
<1>15. \A e \in E : Backed(e)'
  <2>1. ASSUME NEW d \in Docs
        PROVE  Backed(Event("SIGNAL_NORMALIZED", result[d]))'
    BY <1>13, BackedNext, MilestonesOf
  <2>2. ASSUME NEW d \in Docs
        PROVE  Backed(Event("ENTITY_RESOLUTION_REQUIRED", result[d]))'
    BY BackedNext, MilestonesOf
  <2> QED
    BY <2>1, <2>2
<1>16. HandledBy(worker[w].event, announced \cup E, validation', flagged')
  <2>1. \A d \in Docs : Event("SIGNAL_NORMALIZED", result[d]) \in E
    OBVIOUS
  <2> HIDE DEF E
  <2>2. \A d \in Docs : \E s \in Signals :
          /\ s.raw = r /\ s.doc = d
          /\ Event("SIGNAL_NORMALIZED", s) \in announced \cup E
    BY <1>13, <2>1
  <2> QED
    BY <1>1, <2>2 DEF HandledBy, Type, Subject
<1>17. Locks'
  <2>1. OthersRest(w)
    BY <1>2, <1>14, Committing DEF IInv
  <2>2. ASSUME NEW q \in Raws, w \notin locked[q]
        PROVE  SignalsOf(q)' = SignalsOf(q)
    <3>1. q # r
      BY <1>1, <2>2
    <3>2. \A s \in Signals : s.raw = q => Exists(s)' = Exists(s)
      BY <1>5, <1>7, <3>1
    <3> QED
      BY <3>2 DEF SignalsOf
  <2> QED
    BY <1>1, <2>1, <2>2, UnlockKeeps DEF IInv
<1>18. /\ flagged \subseteq flagged' /\ Commit(w, E)
       /\ \A q \in Raws : validation[q] = "REJECTED" => validation'[q] = "REJECTED"
  BY <1>1, <1>2
<1> HIDE DEF E
<1> QED
  BY <1>9, <1>10, <1>11, <1>12, <1>14, <1>15, <1>16, <1>17, <1>18, CommitStep

\* A transaction over one signal's data that inserts no row.
LEMMA SignalStep ==
  ASSUME IInv, NEW w \in Workers, NEW s \in Signals, NEW E, NEW n \in 2..5,
         Commit(w, E), E \subseteq AllEvents, UNCHANGED <<lockVars, validation>>,
         Type(w) # "RAW_SIGNAL_VALIDATED", Exists(s), Exists(s)',
         TableTypeOK',
         /\ Milestone(s)' = Milestone(s) \/ (Milestone(s) = n - 1 /\ Milestone(s)' = n)
         /\ \A t \in Signals \ {s} :
              /\ stage'[t] = stage[t] /\ outputs'[t] = outputs[t]
              /\ t \in scored' <=> t \in scored
              /\ t \in embedded' <=> t \in embedded,
         flagged \subseteq flagged', \A e \in E : Backed(e)',
         HandledBy(worker[w].event, announced \cup E, validation', flagged')
  PROVE  IInv' /\ Advances
<1>1. \A t \in Signals : Exists(t)' = Exists(t)
  BY DEF Exists
<1>2. \A t \in Signals \ {s} : Milestone(t)' = Milestone(t)
  BY MilestoneIs, NextMilestoneIs
<1>3. Advances
  <2>1. n \in 1..5
    OBVIOUS
  <2> QED
    BY <1>2, <2>1 DEF Advances
<1>4. DataOrder' /\ OneSignalPerDocument'
  BY <1>1 DEF IInv, DataOrder, OneSignalPerDocument
<1>5. Locks'
  <2>1. OthersRest(w) /\ UNCHANGED lockVars
    BY Committing DEF IInv
  <2>2. IsUnlocked(w)
    BY UnlockedElsewhere DEF IInv
  <2> QED
    BY <1>1, <2>1, <2>2, RowsStay, LocksStay DEF IInv
<1> QED
  BY <1>3, <1>4, <1>5, CommitStep

LEMMA ClassifyStep ==
  ASSUME IInv, NEW w \in Workers, Classify(w)
  PROVE  IInv' /\ Advances
<1>1. /\ In(w, "work") /\ Type(w) = "SIGNAL_NORMALIZED"
      /\ UNCHANGED <<lockVars, validation, scored, embedded, outputs>>
  BY DEF Classify, Working
<1>2. PICK s \in Signals : s = Subject(w) /\ 1 <= Milestone(s)
  BY <1>1, AtWork
<1>3. PICK verdict \in Verdicts[s.doc] :
        /\ stage' = IF verdict = "UNMATCHED" THEN stage
                    ELSE [stage EXCEPT ![s] = "CLASSIFIED"]
        /\ flagged' = IF verdict = "CLEAR" THEN flagged ELSE flagged \cup {s}
        /\ Commit(w, {Event(type, s) : type \in EventsOf(verdict)})
  BY <1>2 DEF Classify
<1> DEFINE E == {Event(type, s) : type \in EventsOf(verdict)}
<1>4. verdict \in {"CLEAR", "DOUBTFUL", "UNMATCHED"}
  BY <1>2, <1>3 DEF Signals
<1>5. stage \in [Signals -> {"ABSENT", "NORMALIZED", "CLASSIFIED", "SCORED"}]
  BY DEF IInv, TableTypeOK
<1>6. Exists(s) /\ Exists(s)'
  <2>1. Exists(s)
    BY <1>2, NoRowNoMilestone DEF IInv
  <2> QED
    BY <1>2, <1>3, <1>5, <2>1 DEF Exists
<1>7. \/ Milestone(s)' = Milestone(s)
      \/ Milestone(s) = 2 - 1 /\ Milestone(s)' = 2
  <2>1. stage'[s] = stage[s] \/ stage'[s] = "CLASSIFIED"
    BY <1>2, <1>3, <1>5
  <2> QED
    BY <1>1, <1>6, <2>1, MilestoneIs, NextMilestoneIs DEF Exists
<1>8. verdict # "UNMATCHED" => 2 <= Milestone(s)'
  <2>1. verdict # "UNMATCHED" => stage'[s] = "CLASSIFIED"
    BY <1>2, <1>3, <1>5
  <2> QED
    BY <2>1, NextMilestoneIs
<1>9. TableTypeOK'
  BY <1>1, <1>2, <1>3, <1>5 DEF IInv, TableTypeOK, lockVars
<1>10. EventsOf(verdict) \subseteq {"CLASSIFICATION_REVIEW_REQUIRED", "SIGNAL_CLASSIFIED"}
  BY DEF EventsOf
<1>11. E \subseteq AllEvents
  BY <1>2, <1>10, EventsAreTyped
<1>12. \A e \in E : Backed(e)'
  <2>1. Backed(Event("CLASSIFICATION_REVIEW_REQUIRED", s))'
    BY BackedNext, MilestonesOf
  <2>2. verdict # "UNMATCHED" => Backed(Event("SIGNAL_CLASSIFIED", s))'
    BY <1>8, BackedNext, MilestonesOf
  <2>3. "SIGNAL_CLASSIFIED" \in EventsOf(verdict) => verdict # "UNMATCHED"
    BY DEF EventsOf
  <2> QED
    BY <1>10, <2>1, <2>2, <2>3
<1>13. HandledBy(worker[w].event, announced \cup E, validation', flagged')
  <2>1. CASE verdict = "UNMATCHED"
    <3>1. "CLASSIFICATION_REVIEW_REQUIRED" \in EventsOf(verdict)
      BY <2>1 DEF EventsOf
    <3>2. Event("CLASSIFICATION_REVIEW_REQUIRED", s) \in E /\ s \in flagged'
      BY <1>3, <2>1, <3>1
    <3> HIDE DEF E
    <3> QED
      BY <1>1, <1>2, <3>2 DEF HandledBy, Type, Subject
  <2>2. CASE verdict # "UNMATCHED"
    <3>1. "SIGNAL_CLASSIFIED" \in EventsOf(verdict)
      BY <2>2 DEF EventsOf
    <3>2. Event("SIGNAL_CLASSIFIED", s) \in E
      BY <3>1
    <3> HIDE DEF E
    <3> QED
      BY <1>1, <1>2, <3>2 DEF HandledBy, Type, Subject
  <2> QED
    BY <2>1, <2>2
<1>14. \A t \in Signals \ {s} :
         /\ stage'[t] = stage[t] /\ outputs'[t] = outputs[t]
         /\ t \in scored' <=> t \in scored
         /\ t \in embedded' <=> t \in embedded
  BY <1>1, <1>3, <1>5
<1>15. /\ flagged \subseteq flagged' /\ Commit(w, E)
       /\ Type(w) # "RAW_SIGNAL_VALIDATED" /\ 2 \in 2..5
       /\ UNCHANGED <<lockVars, validation>>
  BY <1>1, <1>3
<1> HIDE DEF E
<1> QED
  BY <1>2, <1>6, <1>7, <1>9, <1>11, <1>12, <1>13, <1>14, <1>15, SignalStep

LEMMA ScoreStep ==
  ASSUME IInv, NEW w \in Workers, Score(w)
  PROVE  IInv' /\ Advances
<1>1. /\ In(w, "work") /\ Type(w) = "SIGNAL_CLASSIFIED"
  BY DEF Score, Working
<1>2. PICK s \in Signals : s = Subject(w) /\ 2 <= Milestone(s)
  BY <1>1, AtWork
<1> DEFINE E == {Event("SIGNAL_SCORED", s)}
<1>3. /\ In(w, "work") /\ Type(w) = "SIGNAL_CLASSIFIED"
      /\ scored' = scored \cup {s} /\ stage' = [stage EXCEPT ![s] = "SCORED"]
      /\ UNCHANGED <<lockVars, validation, flagged, embedded, outputs>>
      /\ Commit(w, E)
  BY <1>2 DEF Score, Working
<1>4. stage \in [Signals -> {"ABSENT", "NORMALIZED", "CLASSIFIED", "SCORED"}]
  BY DEF IInv, TableTypeOK
<1>5. stage'[s] = "SCORED" /\ s \in scored'
  BY <1>3, <1>2, <1>4
<1>6. Exists(s) /\ Exists(s)'
  BY <1>2, <1>5, NoRowNoMilestone DEF IInv, Exists
<1>7. /\ \/ Milestone(s)' = Milestone(s)
         \/ Milestone(s) = 3 - 1 /\ Milestone(s)' = 3
      /\ 3 <= Milestone(s)'
  BY <1>3, <1>2, <1>5, MilestoneIs, NextMilestoneIs
<1>8. TableTypeOK'
  BY <1>3, <1>2, <1>4 DEF IInv, TableTypeOK, lockVars
<1>9. E \subseteq AllEvents
  BY <1>2, EventsAreTyped
<1>10. \A e \in E : Backed(e)'
  BY <1>7, BackedNext, MilestonesOf
<1>11. HandledBy(worker[w].event, announced \cup E, validation', flagged')
  BY <1>3, <1>2 DEF HandledBy, Type, Subject
<1>12. \A t \in Signals \ {s} :
         /\ stage'[t] = stage[t] /\ outputs'[t] = outputs[t]
         /\ t \in scored' <=> t \in scored
         /\ t \in embedded' <=> t \in embedded
  BY <1>3, <1>4
<1>13. /\ flagged \subseteq flagged' /\ 3 \in 2..5
       /\ Type(w) # "RAW_SIGNAL_VALIDATED"
       /\ UNCHANGED <<lockVars, validation>> /\ Commit(w, E)
  BY <1>3
<1> HIDE DEF E
<1> QED
  BY <1>2, <1>6, <1>7, <1>8, <1>9, <1>10, <1>11, <1>12, <1>13, SignalStep

LEMMA EmbedStep ==
  ASSUME IInv, NEW w \in Workers, Embed(w)
  PROVE  IInv' /\ Advances
<1>1. /\ In(w, "work") /\ Type(w) = "SIGNAL_SCORED"
  BY DEF Embed, Working
<1>2. PICK s \in Signals : s = Subject(w) /\ 3 <= Milestone(s)
  BY <1>1, AtWork
<1> DEFINE E == {Event("SIGNAL_CONTEXT_READY", s)}
<1>3. /\ In(w, "work") /\ Type(w) = "SIGNAL_SCORED"
      /\ embedded' = embedded \cup {s}
      /\ UNCHANGED <<lockVars, validation, stage, flagged, scored, outputs>>
      /\ Commit(w, E)
  BY <1>2 DEF Embed, Working
<1>4. Exists(s) /\ Exists(s)'
  BY <1>3, <1>2, NoRowNoMilestone DEF IInv, Exists
<1>5. /\ \/ Milestone(s)' = Milestone(s)
         \/ Milestone(s) = 4 - 1 /\ Milestone(s)' = 4
      /\ 4 <= Milestone(s)'
  BY <1>3, <1>2, MilestoneIs, NextMilestoneIs
<1>6. TableTypeOK'
  BY <1>3, <1>2 DEF IInv, TableTypeOK, lockVars
<1>7. E \subseteq AllEvents
  BY <1>2, EventsAreTyped
<1>8. \A e \in E : Backed(e)'
  BY <1>5, BackedNext, MilestonesOf
<1>9. HandledBy(worker[w].event, announced \cup E, validation', flagged')
  BY <1>3, <1>2 DEF HandledBy, Type, Subject
<1>10. \A t \in Signals \ {s} :
        /\ stage'[t] = stage[t] /\ outputs'[t] = outputs[t]
        /\ t \in scored' <=> t \in scored
        /\ t \in embedded' <=> t \in embedded
  BY <1>3
<1>11. /\ flagged \subseteq flagged' /\ 4 \in 2..5
       /\ Type(w) # "RAW_SIGNAL_VALIDATED"
       /\ UNCHANGED <<lockVars, validation>> /\ Commit(w, E)
  BY <1>3
<1> HIDE DEF E
<1> QED
  BY <1>2, <1>4, <1>5, <1>6, <1>7, <1>8, <1>9, <1>10, <1>11, SignalStep

LEMMA SynthesizeStep ==
  ASSUME IInv, NEW w \in Workers, Synthesize(w)
  PROVE  IInv' /\ Advances
<1>1. /\ In(w, "work") /\ Type(w) = "SIGNAL_CONTEXT_READY"
  BY DEF Synthesize, Working
<1>2. PICK s \in Signals : s = Subject(w) /\ 4 <= Milestone(s)
  BY <1>1, AtWork
<1> DEFINE E == {Event("INTELLIGENCE_SYNTHESIZED", s)}
<1>3. /\ In(w, "work") /\ Type(w) = "SIGNAL_CONTEXT_READY"
      /\ UNCHANGED <<lockVars, validation, stage, flagged, scored, embedded>>
      /\ Commit(w, E)
  BY <1>2 DEF Synthesize, Working
<1>4. PICK output \in {"GROUNDED", "FALLBACK"} :
        outputs' = [outputs EXCEPT ![s] = output]
  BY <1>2 DEF Synthesize
<1>5. outputs \in [Signals -> {"NONE", "GROUNDED", "FALLBACK"}]
  BY DEF IInv, TableTypeOK
<1>6. outputs'[s] # "NONE"
  BY <1>4, <1>2, <1>5
<1>7. Exists(s) /\ Exists(s)'
  BY <1>3, <1>2, NoRowNoMilestone DEF IInv, Exists
<1>8. /\ \/ Milestone(s)' = Milestone(s)
         \/ Milestone(s) = 5 - 1 /\ Milestone(s)' = 5
      /\ 5 <= Milestone(s)'
  BY <1>2, <1>6, MilestoneIs, NextMilestoneIs
<1>9. TableTypeOK'
  BY <1>3, <1>4, <1>2, <1>5 DEF IInv, TableTypeOK, lockVars
<1>10. E \subseteq AllEvents
  BY <1>2, EventsAreTyped
<1>11. \A e \in E : Backed(e)'
  BY <1>8, BackedNext, MilestonesOf
<1>12. HandledBy(worker[w].event, announced \cup E, validation', flagged')
  BY <1>3, <1>2 DEF HandledBy, Type, Subject
<1>13. \A t \in Signals \ {s} :
         /\ stage'[t] = stage[t] /\ outputs'[t] = outputs[t]
         /\ t \in scored' <=> t \in scored
         /\ t \in embedded' <=> t \in embedded
  BY <1>3, <1>4, <1>5
<1>14. /\ flagged \subseteq flagged' /\ 5 \in 2..5
       /\ Type(w) # "RAW_SIGNAL_VALIDATED"
       /\ UNCHANGED <<lockVars, validation>> /\ Commit(w, E)
  BY <1>3
<1> HIDE DEF E
<1> QED
  BY <1>2, <1>7, <1>8, <1>9, <1>10, <1>11, <1>12, <1>13, <1>14, SignalStep

(***************************************************************************)
(* Every step                                                              *)
(***************************************************************************)
\* A message is not lost before its event is handled or dead-lettered.
Conserves ==
  \A e : HasMessage(e) => HasMessage(e)' \/ Handled(e) \/ e \in deadLetters'

\* At most one event is announced, and no transaction commits with it.
Speaks ==
  \/ announced' = announced
  \/ /\ UNCHANGED tableVars
     /\ \E e \in AllEvents : Backed(e) /\ announced' = announced \cup {e}

LEMMA QuietStep ==
  ASSUME UNCHANGED <<queue, announced>>
  PROVE  Conserves /\ Speaks
BY DEF Conserves, Speaks, HasMessage

LEMMA MoreMessages ==
  ASSUME queue \subseteq queue'
  PROVE  Conserves
BY DEF Conserves, HasMessage

LEMMA SettleConserves ==
  ASSUME IInv, NEW w \in Workers, Settle(w)
  PROVE  Conserves
<1> SUFFICES ASSUME NEW e, HasMessage(e), ~HasMessage(e)'
             PROVE  Handled(e)
  BY DEF Conserves
<1>1. In(w, "settle") /\ worker[w].outcome = "ack" /\ e = worker[w].event
  BY Settling DEF IInv
<1>2. HandledBy(e, announced, validation, flagged)
  BY <1>1 DEF IInv, Promised
<1> QED
  BY <1>2, HandledIs

LEMMA CommitIsQuiet ==
  ASSUME NEW w \in Workers,
         Validate(w) \/ LockRaw(w) \/ Normalize(w) \/ Classify(w)
           \/ Score(w) \/ Embed(w) \/ Synthesize(w)
  PROVE  UNCHANGED <<queue, announced>>
<1>1. ASSUME NEW E, Commit(w, E)
      PROVE  UNCHANGED <<queue, announced>>
  BY <1>1 DEF Commit
<1>2. CASE Validate(w)
  BY <1>1, <1>2 DEF Validate
<1>3. CASE LockRaw(w)
  BY <1>3 DEF LockRaw, queueVars
<1>4. CASE Normalize(w)
  BY <1>1, <1>4 DEF Normalize
<1>5. CASE Classify(w)
  BY <1>1, <1>5 DEF Classify
<1>6. CASE Score(w)
  BY <1>1, <1>6 DEF Score
<1>7. CASE Embed(w)
  BY <1>1, <1>7 DEF Embed
<1>8. CASE Synthesize(w)
  BY <1>1, <1>8 DEF Synthesize
<1> QED
  BY <1>2, <1>3, <1>4, <1>5, <1>6, <1>7, <1>8

LEMMA TaskStep ==
  ASSUME IInv, NEW w \in Workers, Task(w)
  PROVE  IInv' /\ Advances /\ Conserves /\ Speaks
<1>1. CASE Load(w) \/ Refused(w)
  <2>1. UNCHANGED <<queue, announced>>
    BY <1>1 DEF Load, Refused, Proceed, Refuse
  <2> QED
    BY <1>1, <2>1, QuietStep, LoadStep, RefusedStep
<1>2. CASE \/ Validate(w) \/ LockRaw(w) \/ Normalize(w) \/ Classify(w)
           \/ Score(w) \/ Embed(w) \/ Synthesize(w)
  <2>1. Conserves /\ Speaks
    BY <1>2, CommitIsQuiet, QuietStep
  <2>2. IInv' /\ Advances
    BY <1>2, ValidateStep, LockRawStep, NormalizeStep, ClassifyStep,
       ScoreStep, EmbedStep, SynthesizeStep
  <2> QED
    BY <2>1, <2>2
<1>3. CASE Announce(w)
  <2>1. PICK e \in worker[w].todo : Publish(w, e)
    BY <1>3 DEF Announce
  <2>2. e \in AllEvents /\ announced' = announced \cup {e}
    BY <2>1, Publishing DEF IInv
  <2>3. Backed(e) /\ UNCHANGED tableVars
    BY <1>3 DEF Announce, IInv, EventsBacked
  <2>4. Speaks
    BY <2>2, <2>3 DEF Speaks
  <2> QED
    BY <1>3, <2>4, AnnounceStep, MoreMessages
<1>4. CASE Settle(w) /\ UNCHANGED <<lockVars, tableVars>>
  <2>1. Speaks
    BY <1>4, Settling DEF IInv, Speaks
  <2> QED
    BY <1>4, <2>1, SettleStep, SettleConserves
<1> QED
  BY <1>1, <1>2, <1>3, <1>4 DEF Task

LEMMA EveryStep ==
  ASSUME IInv, Next
  PROVE  IInv' /\ Advances /\ Conserves /\ Speaks
<1>1. ASSUME NEW r \in Raws, Collected(r)
      PROVE  IInv' /\ Advances /\ Conserves /\ Speaks
  <2> DEFINE e == Event("RAW_SIGNAL_COLLECTED", r)
  <2>1. e \in AllEvents /\ Backed(e)
    BY EventsAreTyped DEF Backed, Event, MilestoneOf
  <2>2. announced' = announced \cup {e} /\ UNCHANGED tableVars
    BY <1>1 DEF Collected, Send, tableVars
  <2>3. Speaks
    BY <2>1, <2>2 DEF Speaks
  <2> QED
    BY <1>1, <2>3, CollectedStep, MoreMessages
<1>2. ASSUME NEW q \in Queues, Deliver(q)
      PROVE  IInv' /\ Advances /\ Conserves /\ Speaks
  <2>1. announced' = announced
    BY <1>2 DEF Deliver, Receive
  <2> QED
    BY <1>2, <2>1, DeliverStep DEF Conserves, Speaks
<1>3. ASSUME Redrive
      PROVE  IInv' /\ Advances /\ Conserves /\ Speaks
  <2>1. announced' = announced
    BY <1>3 DEF Redrive, DeadLetter
  <2> QED
    BY <1>3, <2>1, RedriveStep DEF Conserves, Speaks
<1>4. ASSUME NEW w \in Workers, TaskFails(w)
      PROVE  IInv' /\ Advances /\ Conserves /\ Speaks
  <2>1. UNCHANGED <<queue, announced>>
    BY <1>4 DEF TaskFails, CallFails, CrashWorker
  <2> QED
    BY <1>4, <2>1, FailStep, QuietStep
<1> QED
  BY <1>1, <1>2, <1>3, <1>4, TaskStep DEF Next

LEMMA StutteringStep ==
  ASSUME IInv, UNCHANGED vars
  PROVE  IInv'
<1>1. /\ UNCHANGED <<queue, announced, deadLetters, worker, faults>>
      /\ UNCHANGED <<locked, found, validation, stage, flagged, scored>>
      /\ UNCHANGED <<embedded, outputs>>
  BY DEF vars, queueVars, lockVars, tableVars
<1>2. UNCHANGED <<worker, lockVars, tableVars>> /\ UNCHANGED tableVars
  BY <1>1 DEF lockVars, tableVars
<1>3. QueueInv'
  BY <1>1 DEF IInv, QueueInv, QueueTypeOK, Busy, In, Messages, WorkerState
<1>4. /\ announced \subseteq announced' /\ announced' \subseteq AllEvents
      /\ \A e \in announced' : Backed(e)
  BY <1>1 DEF IInv, QueueInv, QueueTypeOK, EventsBacked
<1> QED
  BY <1>2, <1>3, <1>4, OutsideStep

(***************************************************************************)
(* The theorems                                                            *)
(***************************************************************************)
\* The inductive invariant: workers work on announced events, data are there
\* in order, events announce what is there, a lock's holder has found all rows
\* there are, and a committed task owes only what it still has to announce.
THEOREM Invariance == Spec => []IInv
<1>1. Init => IInv
  BY InitIInv
<1>2. IInv /\ [Next]_vars => IInv'
  BY EveryStep, StutteringStep
<1> QED
  BY <1>1, <1>2, PTL DEF Spec

\* Every variable of the pipeline keeps to its type.
THEOREM TypeCorrectness == Spec => []TypeOK
<1>1. IInv => TypeOK
  BY DEF IInv, QueueInv, TableTypeOK, TypeOK
<1> QED
  BY <1>1, Invariance, PTL

\* However many deliveries normalize one raw signal at once, a document has one
\* row (normalization.py's advisory lock around its SELECT and INSERT).
THEOREM OneRowPerDocument == Spec => []OneSignalPerDocument
<1>1. IInv => OneSignalPerDocument
  BY DEF IInv
<1> QED
  BY <1>1, Invariance, PTL

\* The last message of an event is acknowledged only when what follows from it
\* is announced, whatever crashes, raises or is delivered again.
THEOREM NothingIsStranded == Spec => NothingStranded
<1>1. IInv /\ [Next]_vars =>
        [\A e \in {m.event : m \in queue} :
           HasMessage(e)' \/ Handled(e) \/ e \in deadLetters']_vars
  <2> SUFFICES ASSUME IInv, Next, NEW m \in queue
               PROVE  \/ HasMessage(m.event)' \/ Handled(m.event)
                      \/ m.event \in deadLetters'
    OBVIOUS
  <2>1. HasMessage(m.event)
    BY DEF HasMessage
  <2>2. Conserves
    BY EveryStep
  <2> QED
    BY <2>1, <2>2 DEF Conserves
<1> QED
  BY <1>1, Invariance, PTL DEF Spec, NothingStranded

(***************************************************************************)
(* Nothing is forgotten                                                    *)
(***************************************************************************)
\* Sending an event leaves a message of it: a copy no other message has, or
\* all of them are taken.
LEMMA SentIsQueued ==
  ASSUME NEW e \in Events, Send(e)
  PROVE  HasMessage(e)'
<1>1. CASE FreeCopies(e) = {}
  <2>1. 1 \in 1..MaxCopies
    OBVIOUS
  <2>2. HasMessage(e)
    BY <1>1, <2>1 DEF FreeCopies, HasMessage
  <2> QED
    BY <2>2 DEF Send, HasMessage
<1>2. CASE FreeCopies(e) # {}
  <2> DEFINE Less == {ss \in Nat \X Nat : ss[1] < ss[2]}
  <2>1. IsWellFoundedOn(Less, Nat)
    BY NatLessThanWellFounded DEF OpToRel
  <2>2. FreeCopies(e) \subseteq Nat
    BY DEF FreeCopies
  <2>3. PICK c \in FreeCopies(e) : \A b \in FreeCopies(e) : <<b, c>> \notin Less
    <3> HIDE DEF Less
    <3> QED
      BY <1>2, <2>1, <2>2, WFMin
  <2>4. \A b \in FreeCopies(e) : c <= b
    <3>1. ASSUME NEW b \in FreeCopies(e), b < c
          PROVE  <<b, c>> \in Less
      BY <2>2, <3>1
    <3> HIDE DEF Less
    <3>2. \A b \in FreeCopies(e) : ~(b < c)
      BY <2>3, <3>1
    <3> QED
      BY <2>2, <3>2
  <2>5. [event |-> e, copy |-> c, receives |-> 0, attempt |-> 0] \in queue'
    BY <2>3, <2>4 DEF Send
  <2> QED
    BY <2>5 DEF HasMessage
<1> QED
  BY <1>1, <1>2

\* Verdicts, flags, events and dead letters are kept by every step.
LEMMA StepRemembers ==
  ASSUME IInv, Next
  PROVE  Remembers /\ deadLetters \subseteq deadLetters'
<1>t. TableTypeOK
  BY DEF IInv
<1>1. announced \subseteq announced'
  BY EveryStep DEF Speaks
<1> DEFINE Keeps == /\ flagged \subseteq flagged'
                    /\ \A r \in Raws :
                         validation[r] = "REJECTED" => validation'[r] = "REJECTED"
                    /\ deadLetters \subseteq deadLetters'
<1>2. ASSUME UNCHANGED tableVars, deadLetters \subseteq deadLetters'
      PROVE  Keeps
  BY <1>2 DEF tableVars
<1>3. ASSUME NEW w \in Workers, Task(w)
      PROVE  Keeps
  <2>1. ASSUME NEW E, Commit(w, E)
        PROVE  deadLetters' = deadLetters
    BY <2>1 DEF Commit
  <2>2. CASE Validate(w)
    <3>1. Subject(w) \in Raws
      BY <2>2, AtWork DEF Validate, Working
    <3>2. PICK status :
            /\ validation[Subject(w)] # "PENDING" => status = validation[Subject(w)]
            /\ validation' = [validation EXCEPT ![Subject(w)] = status]
            /\ deadLetters' = deadLetters
      BY <2>1, <2>2 DEF Validate
    <3> QED
      BY <1>t, <2>2, <3>1, <3>2 DEF Validate, TableTypeOK
  <2>3. CASE Normalize(w)
    BY <2>1, <2>3 DEF Normalize
  <2>4. CASE Classify(w)
    BY <2>1, <2>4 DEF Classify
  <2>5. CASE Score(w)
    BY <2>1, <2>5 DEF Score
  <2>6. CASE Embed(w)
    BY <2>1, <2>6 DEF Embed
  <2>7. CASE Synthesize(w)
    BY <2>1, <2>7 DEF Synthesize
  <2>8. CASE LockRaw(w)
    BY <1>2, <2>8 DEF LockRaw, queueVars
  <2>9. CASE Load(w) \/ Refused(w) \/ Announce(w)
    BY <1>2, <2>9 DEF Load, Refused, Announce, Proceed, Refuse, Publish
  <2>10. CASE Settle(w) /\ UNCHANGED <<lockVars, tableVars>>
    BY <1>2, <2>10 DEF Settle
  <2> QED
    BY <1>3, <2>2, <2>3, <2>4, <2>5, <2>6, <2>7, <2>8, <2>9, <2>10 DEF Task
<1>4. ASSUME ~\E w \in Workers : Task(w)
      PROVE  Keeps
  BY <1>2, <1>4 DEF Next, Collected, Deliver, Receive, Redrive, DeadLetter,
       TaskFails, CallFails, CrashWorker, tableVars
<1> QED
  BY <1>1, <1>3, <1>4 DEF Remembers

\* A step sends what it announces.
LEMMA AnnouncedIsSent ==
  ASSUME IInv, Next, NEW e \in announced', e \notin announced
  PROVE  Send(e)
<1>1. ASSUME NEW w \in Workers, Task(w)
      PROVE  Send(e)
  <2>1. CASE Announce(w)
    BY <2>1 DEF Announce, Publish, Send
  <2>2. UNCHANGED announced \/ Announce(w)
    BY <1>1, CommitIsQuiet DEF Task, Load, Refused, Proceed, Refuse, Settle
  <2> QED
    BY <2>1, <2>2
<1>2. ASSUME NEW r \in Raws, Collected(r)
      PROVE  Send(e)
  BY <1>2 DEF Collected, Send
<1> QED
  BY <1>1, <1>2 DEF Next, Deliver, Receive, Redrive, DeadLetter, TaskFails,
       CallFails, CrashWorker

\* An event that was sent is handled, or one of its messages can be found:
\* however often it was sent, received, retried or refused.
THEOREM SentAreAccountedFor == Spec => []SentIsAccountedFor
<1>1. Init => SentIsAccountedFor
  BY DEF Init, QueueInit, SentIsAccountedFor
<1>2. ASSUME IInv, SentIsAccountedFor, Next,
             NEW e \in announced' \cap Events
      PROVE  Handled(e)' \/ InHand(e)'
  <2>1. CASE e \notin announced
    BY <1>2, <2>1, AnnouncedIsSent, SentIsQueued DEF InHand
  <2>2. ASSUME Handled(e)
        PROVE  Handled(e)'
    <3>1. HandledBy(e, announced', validation', flagged')
      BY <1>2, <2>2, HandledIs, HandledGrows, StepRemembers DEF Remembers
    <3> QED
      BY <3>1 DEF Handled, HandledBy, Told, NormalizedDoc
  <2>3. CASE HasMessage(e)
    BY <1>2, <2>2, <2>3, EveryStep DEF Conserves, InHand
  <2>4. CASE e \in deadLetters
    BY <1>2, <2>4, StepRemembers DEF InHand
  <2> QED
    BY <1>2, <2>1, <2>2, <2>3, <2>4 DEF SentIsAccountedFor, InHand
<1>3. IInv /\ SentIsAccountedFor /\ [Next]_vars => SentIsAccountedFor'
  <2>1. ASSUME SentIsAccountedFor, UNCHANGED vars
        PROVE  SentIsAccountedFor'
    BY <2>1 DEF SentIsAccountedFor, vars, queueVars, tableVars, Handled, InHand,
         HasMessage, Told, NormalizedDoc
  <2> QED
    BY <1>2, <2>1 DEF SentIsAccountedFor
<1> QED
  BY <1>1, <1>3, Invariance, PTL DEF Spec

\* Between the collectors and the synthesis no signal is lost: following its
\* events, each accounted for, leads to its conclusion or to a message.
THEOREM NothingIsForgotten == Spec => []NothingForgotten
<1>1. ASSUME SentIsAccountedFor, NEW type, NEW x, Event(type, x) \in Events,
             Told(type, x)
      PROVE  \/ Handled(Event(type, x))
             \/ \E e \in Events : e.of = x /\ InHand(e)
  BY <1>1 DEF SentIsAccountedFor, Told, Event
<1>2. ASSUME SentIsAccountedFor, NEW r \in Raws, Told("RAW_SIGNAL_COLLECTED", r)
      PROVE  \/ validation[r] = "REJECTED" \/ Told("RAW_SIGNAL_SUSPICIOUS", r)
             \/ \A d \in Docs : NormalizedDoc(r, d)
             \/ \E e \in Events : e.of = r /\ InHand(e)
  <2> DEFINE Held == \E e \in Events : e.of = r /\ InHand(e)
  <2>1. /\ Event("RAW_SIGNAL_COLLECTED", r) \in Events
        /\ Event("RAW_SIGNAL_VALIDATED", r) \in Events
    BY DEF Event, Events, Of
  <2>2. \/ validation[r] = "REJECTED" \/ Told("RAW_SIGNAL_SUSPICIOUS", r)
        \/ Told("RAW_SIGNAL_VALIDATED", r) \/ Held
    <3>1. Handled(Event("RAW_SIGNAL_COLLECTED", r)) =>
            \/ validation[r] = "REJECTED"
            \/ Told("RAW_SIGNAL_VALIDATED", r)
            \/ Told("RAW_SIGNAL_SUSPICIOUS", r)
      BY DEF Handled, Event
    <3> QED
      BY <1>1, <1>2, <2>1, <3>1
  <2>3. Told("RAW_SIGNAL_VALIDATED", r) =>
          (\A d \in Docs : NormalizedDoc(r, d)) \/ Held
    <3>1. Handled(Event("RAW_SIGNAL_VALIDATED", r)) =>
            \A d \in Docs : NormalizedDoc(r, d)
      BY DEF Handled, Event
    <3> QED
      BY <1>1, <1>2, <2>1, <3>1
  <2> QED
    BY <2>2, <2>3
<1>3. ASSUME IInv, SentIsAccountedFor, NEW s \in Signals,
             Told("SIGNAL_NORMALIZED", s)
      PROVE  \/ outputs[s] # "NONE" /\ Told("INTELLIGENCE_SYNTHESIZED", s)
             \/ Told("CLASSIFICATION_REVIEW_REQUIRED", s) /\ s \in flagged
             \/ \E e \in Events : e.of = s /\ InHand(e)
  <2> DEFINE Held == \E e \in Events : e.of = s /\ InHand(e)
             Flagged == /\ Told("CLASSIFICATION_REVIEW_REQUIRED", s)
                        /\ s \in flagged
  <2>1. \A type \in {"SIGNAL_NORMALIZED", "SIGNAL_CLASSIFIED", "SIGNAL_SCORED",
                     "SIGNAL_CONTEXT_READY"} : Event(type, s) \in Events
    BY DEF Event, Events, Of
  <2>2. Told("SIGNAL_CLASSIFIED", s) \/ Flagged \/ Held
    <3>1. Handled(Event("SIGNAL_NORMALIZED", s)) =>
            Told("SIGNAL_CLASSIFIED", s) \/ Flagged
      BY DEF Handled, Event
    <3> QED
      BY <1>1, <1>3, <2>1, <3>1
  <2>3. Told("SIGNAL_CLASSIFIED", s) => Told("SIGNAL_SCORED", s) \/ Held
    <3>1. Handled(Event("SIGNAL_CLASSIFIED", s)) => Told("SIGNAL_SCORED", s)
      BY DEF Handled, Event
    <3> QED
      BY <1>1, <1>3, <2>1, <3>1
  <2>4. Told("SIGNAL_SCORED", s) => Told("SIGNAL_CONTEXT_READY", s) \/ Held
    <3>1. Handled(Event("SIGNAL_SCORED", s)) => Told("SIGNAL_CONTEXT_READY", s)
      BY DEF Handled, Event
    <3> QED
      BY <1>1, <1>3, <2>1, <3>1
  <2>5. Told("SIGNAL_CONTEXT_READY", s) =>
          Told("INTELLIGENCE_SYNTHESIZED", s) \/ Held
    <3>1. Handled(Event("SIGNAL_CONTEXT_READY", s)) =>
            Told("INTELLIGENCE_SYNTHESIZED", s)
      BY DEF Handled, Event
    <3> QED
      BY <1>1, <1>3, <2>1, <3>1
  <2>6. Told("INTELLIGENCE_SYNTHESIZED", s) => outputs[s] # "NONE"
    <3>1. ASSUME Told("INTELLIGENCE_SYNTHESIZED", s)
          PROVE  5 <= Milestone(s)
      BY <1>3, <3>1, BackedIs DEF IInv, EventsBacked, Told, Event
    <3> QED
      BY <3>1, MilestoneIs
  <2> QED
    BY <2>2, <2>3, <2>4, <2>5, <2>6
<1>4. IInv /\ SentIsAccountedFor => NothingForgotten
  BY <1>2, <1>3 DEF NothingForgotten
<1> QED
  BY <1>4, Invariance, SentAreAccountedFor, PTL

(***************************************************************************)
(* The refinement of a signal's journey                                    *)
(***************************************************************************)
Reached == [s \in Signals |-> Milestone(s)]

ToldMilestones ==
  {<<e.of, MilestoneOf[e.type]>> :
     e \in {f \in announced : f.type \in DOMAIN MilestoneOf}}

\* A transaction is a step of the journey's data.
LEMMA JourneyReaches ==
  ASSUME Advances, announced' = announced
  PROVE  Journey!Reach
<1>1. Reached' \in [Signals -> 0..5]
  BY NextMilestoneRange DEF Reached
<1>2. PICK n \in 1..5 : \A s \in Signals :
        \/ Milestone(s)' = Milestone(s)
        \/ Milestone(s) = n - 1 /\ Milestone(s)' = n
  BY DEF Advances
<1>3. \A s \in Signals :
        /\ Reached[s] = Milestone(s)
        /\ Reached'[s] = Milestone(s)'
  BY DEF Reached
<1>4. \A s \in Signals :
        Reached'[s] = Reached[s] \/ (Reached[s] = n - 1 /\ Reached'[s] = n)
  BY <1>2, <1>3
<1>5. ToldMilestones' = ToldMilestones
  BY DEF ToldMilestones, MilestoneOf
<1> QED
  BY <1>1, <1>4, <1>5 DEF Journey!Reach, Journey!Last, Reached, ToldMilestones

\* An event is an announcement of the journey, or is not about it.
LEMMA JourneyAnnounces ==
  ASSUME NEW e \in AllEvents, Backed(e), announced' = announced \cup {e},
         UNCHANGED tableVars
  PROVE  Journey!Announce \/ UNCHANGED <<Reached, ToldMilestones>>
<1>1. Reached' = Reached
  BY DEF Reached, Milestone, tableVars
<1>2. CASE e.type \notin DOMAIN MilestoneOf
  <2>1. ToldMilestones' = ToldMilestones
    BY <1>2 DEF ToldMilestones, MilestoneOf
  <2> QED
    BY <1>1, <2>1
<1>3. CASE e.type \in DOMAIN MilestoneOf
  <2>1. e.of \in Signals
    BY <1>3, EventFields
  <2>2. MilestoneOf[e.type] \in 1..5
    BY <1>3 DEF MilestoneOf
  <2>3. MilestoneOf[e.type] <= Reached[e.of]
    BY <1>3, <2>1 DEF Backed, Reached
  <2>4. ToldMilestones' = ToldMilestones \cup {<<e.of, MilestoneOf[e.type]>>}
    <3>1. ASSUME NEW p
          PROVE  p \in ToldMilestones' <=>
                   p \in ToldMilestones \/ p = <<e.of, MilestoneOf[e.type]>>
      <4>1. p \in ToldMilestones' <=>
              \E f \in announced \cup {e} :
                f.type \in DOMAIN MilestoneOf /\ p = <<f.of, MilestoneOf[f.type]>>
        BY DEF ToldMilestones, MilestoneOf
      <4>2. p \in ToldMilestones <=>
              \E f \in announced :
                f.type \in DOMAIN MilestoneOf /\ p = <<f.of, MilestoneOf[f.type]>>
        BY DEF ToldMilestones
      <4> QED
        BY <1>3, <4>1, <4>2
    <3> QED
      BY <3>1
  <2> QED
    BY <1>1, <2>1, <2>2, <2>3, <2>4
       DEF Journey!Announce, Journey!Last, Reached, ToldMilestones
<1> QED
  BY <1>2, <1>3

\* The pipeline implements a signal's journey: data in order and never lost, no
\* event ahead of the data it announces.
THEOREM JourneyIsKept == Spec => KeepsJourney
<1>1. Init => Journey!Init
  <2> SUFFICES ASSUME Init
               PROVE  Journey!Init
    OBVIOUS
  <2>1. \A s \in Signals : Milestone(s) = 0
    BY MilestoneIs DEF Init
  <2>2. announced = {}
    BY DEF Init, QueueInit
  <2> QED
    BY <2>1, <2>2 DEF Journey!Init
<1>2. IInv /\ [Next]_vars => [Journey!Next]_<<Reached, ToldMilestones>>
  <2> SUFFICES ASSUME IInv, [Next]_vars
               PROVE  [Journey!Next]_<<Reached, ToldMilestones>>
    OBVIOUS
  <2>1. CASE Next
    <3>1. Advances /\ Speaks
      BY <2>1, EveryStep
    <3>2. CASE announced' = announced
      BY <3>1, <3>2, JourneyReaches DEF Journey!Next
    <3>3. CASE announced' # announced
      BY <3>1, <3>3, JourneyAnnounces DEF Speaks, Journey!Next
    <3> QED
      BY <3>2, <3>3
  <2>2. CASE UNCHANGED vars
    <3>1. UNCHANGED tableVars /\ announced' = announced
      BY <2>2 DEF vars, queueVars
    <3> QED
      BY <3>1 DEF Reached, ToldMilestones, Milestone, tableVars, MilestoneOf
  <2> QED
    BY <2>1, <2>2
<1> QED
  BY <1>1, <1>2, Invariance, PTL
     DEF Spec, KeepsJourney, Journey!Spec, Reached, ToldMilestones
=============================================================================
