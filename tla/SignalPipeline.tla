---------------------------- MODULE SignalPipeline ----------------------------
(***************************************************************************)
(* From a collected raw signal to a synthesized one: the validation,       *)
(* normalization, classification, scoring, embedding and synthesis tasks   *)
(* over the tables and the queues they share.  Each task reads, commits    *)
(* one transaction and then announces what follows.                        *)
(***************************************************************************)
EXTENDS Naturals

CONSTANTS
  Raws,        \* rows of pipeline.raw_signals
  Docs,        \* the documents normalize_payload finds in one of them
  Unresolved,  \* those of them that mention an entity the registry lacks
  Unscorable,  \* those dated ahead of the clock, or whose taxonomy entry is retired
  Verdicts,    \* what classify_signal may come to for a document; more than one
               \* verdict if the taxonomy changes between deliveries
  Workers, MaxCopies, MaxReceives, MaxRetries, MaxFaults, NoEvent

\* A worker inserts at most one row of pipeline.signals for a document, since
\* it finds that row later: the inserting worker tells the rows apart.
Signals == [raw : Raws, doc : Docs, by : Workers]

Of(type, keys) == [type : {type}, of : keys]

\* What the tasks of this module consume; one task to each type.
Events ==
  Of("RAW_SIGNAL_COLLECTED", Raws) \cup Of("RAW_SIGNAL_VALIDATED", Raws)
    \cup Of("SIGNAL_NORMALIZED", Signals) \cup Of("SIGNAL_CLASSIFIED", Signals)
    \cup Of("SIGNAL_SCORED", Signals) \cup Of("SIGNAL_CONTEXT_READY", Signals)

\* Events for reviewers and for the decision engine leave the module.
AllEvents ==
  Events \cup Of("RAW_SIGNAL_SUSPICIOUS", Raws)
    \cup Of("ENTITY_RESOLUTION_REQUIRED", Signals)
    \cup Of("CLASSIFICATION_REVIEW_REQUIRED", Signals)
    \cup Of("INTELLIGENCE_SYNTHESIZED", Signals)

ASSUME PipelineAssumption ==
  /\ MaxCopies \in Nat \ {0}
  /\ MaxReceives \in Nat \ {0}
  /\ MaxRetries \in Nat
  /\ MaxFaults \in Nat
  /\ NoEvent \notin Events
  /\ Unresolved \subseteq Docs
  /\ Unscorable \subseteq Docs
  /\ Verdicts \in [Docs -> SUBSET {"CLEAR", "DOUBTFUL", "UNMATCHED"}]

VARIABLES
  queue, announced, deadLetters, worker, faults,
  validation,  \* validation_status of every raw signal
  locked,      \* advisory locks: who is normalizing a raw signal
  found,       \* what a worker's SELECTs under that lock returned
  stage,       \* pipeline_stage of every signal
  flagged,     \* signals whose review_flag is set
  scored,      \* signals whose score columns are filled
  embedded,    \* signals with a row of intelligence.signal_embeddings
  outputs      \* rows of intelligence.global_outputs

INSTANCE EventQueue

queueVars == <<queue, announced, deadLetters, worker, faults>>
tableVars == <<validation, stage, flagged, scored, embedded, outputs>>
lockVars == <<locked, found>>
vars == <<queueVars, lockVars, tableVars>>

Event(type, of) == [type |-> type, of |-> of]

Type(w) == worker[w].event.type
Subject(w) == worker[w].event.of

Working(w, type) == In(w, "work") /\ Type(w) = type

Exists(s) == stage[s] # "ABSENT"

Init ==
  /\ QueueInit
  /\ validation = [r \in Raws |-> "PENDING"]
  /\ locked = [r \in Raws |-> {}]
  /\ found = [w \in Workers |-> {}]
  /\ stage = [s \in Signals |-> "ABSENT"]
  /\ flagged = {}
  /\ scored = {}
  /\ embedded = {}
  /\ outputs = [s \in Signals |-> "NONE"]

(***************************************************************************)
(* The collectors announce a raw signal, and a redelivered one once more.  *)
(***************************************************************************)
Collected(r) ==
  LET e == Event("RAW_SIGNAL_COLLECTED", r) IN
  /\ Send(e)
  /\ IF e \in announced THEN Fault ELSE UNCHANGED faults
  /\ UNCHANGED <<deadLetters, worker, lockVars, tableVars>>

(***************************************************************************)
(* The first read of every task: .one() raises when the row is not in the  *)
(* state the task asks for.                                                *)
(***************************************************************************)
Ready(e) ==
  CASE e.type = "RAW_SIGNAL_COLLECTED" -> TRUE
    [] e.type = "RAW_SIGNAL_VALIDATED" -> validation[e.of] = "VALIDATED"
    [] e.type = "SIGNAL_NORMALIZED" -> Exists(e.of)
    [] e.type = "SIGNAL_CLASSIFIED" -> stage[e.of] = "CLASSIFIED"
    [] OTHER -> stage[e.of] = "SCORED"

Load(w) ==
  /\ In(w, "load")
  /\ Ready(worker[w].event)
  /\ Proceed(w)
  /\ UNCHANGED <<lockVars, tableVars>>

\* A payload that does not parse is refused like a row that is not there, and so
\* is a signal that cannot be scored: until the clock has caught up with its date.
Refused(w) ==
  /\ In(w, "load")
  /\ \/ ~Ready(worker[w].event)
     \/ Type(w) = "RAW_SIGNAL_VALIDATED"
     \/ Type(w) = "SIGNAL_CLASSIFIED" /\ Subject(w).doc \in Unscorable
  /\ Refuse(w)
  /\ UNCHANGED <<lockVars, tableVars>>

(***************************************************************************)
(* validate_raw_signal: the status is written whatever it was.  The        *)
(* validator is a function of the archived bytes and the source's profile, *)
(* and no profile is reseeded: a second delivery comes to the same status. *)
(***************************************************************************)
Validate(w) ==
  /\ Working(w, "RAW_SIGNAL_COLLECTED")
  /\ \E status \in IF validation[Subject(w)] = "PENDING"
                    THEN {"VALIDATED", "SUSPICIOUS", "REJECTED"}
                    ELSE {validation[Subject(w)]} :
       /\ validation' = [validation EXCEPT ![Subject(w)] = status]
       /\ Commit(w, CASE status = "VALIDATED" ->
                           {Event("RAW_SIGNAL_VALIDATED", Subject(w))}
                      [] status = "SUSPICIOUS" ->
                           {Event("RAW_SIGNAL_SUSPICIOUS", Subject(w))}
                      [] OTHER -> {})
  /\ UNCHANGED <<lockVars, stage, flagged, scored, embedded, outputs>>

(***************************************************************************)
(* normalize_raw_signal: under the raw signal's advisory lock, each        *)
(* document is looked for and inserted if it is not there.                 *)
(***************************************************************************)
SignalsOf(r) == {s \in Signals : s.raw = r /\ Exists(s)}

\* Mutant: no advisory lock.
LockRawAnyway(w) ==
  /\ Working(w, "RAW_SIGNAL_VALIDATED")
  /\ w \notin locked[Subject(w)]
  /\ locked' = [locked EXCEPT ![Subject(w)] = locked[Subject(w)] \cup {w}]
  /\ found' = [found EXCEPT ![w] = SignalsOf(Subject(w))]
  /\ UNCHANGED <<queueVars, tableVars>>

LockRaw(w) ==
  /\ Working(w, "RAW_SIGNAL_VALIDATED")
  /\ locked[Subject(w)] = {}
  /\ locked' = [locked EXCEPT ![Subject(w)] = locked[Subject(w)] \cup {w}]
  /\ found' = [found EXCEPT ![w] = SignalsOf(Subject(w))]
  /\ UNCHANGED <<queueVars, tableVars>>

\* The transaction ends, and its advisory lock and reads with it.
Unlock(w) ==
  /\ locked' = [r \in Raws |-> locked[r] \ {w}]
  /\ found' = [found EXCEPT ![w] = {}]

\* The rows of the documents for which none was found.
Inserted(w) ==
  {[raw |-> Subject(w), doc |-> d, by |-> w] :
     d \in {e \in Docs : \A s \in found[w] : s.doc # e}}

\* The row of every document: one of those found, or the one inserted.
Results(w) ==
  {result \in [Docs -> found[w] \cup Inserted(w)] :
     \A d \in Docs : result[d].doc = d}

\* Mutant: a document whose row is there already is not announced again.
NormalizeNewOnly(w) ==
  /\ Working(w, "RAW_SIGNAL_VALIDATED")
  /\ w \in locked[Subject(w)]
  /\ stage' = [s \in Signals |->
                 IF s \in Inserted(w) THEN "NORMALIZED" ELSE stage[s]]
  /\ flagged' = flagged \cup {s \in Inserted(w) : s.doc \in Unresolved}
  /\ Commit(w, {Event("SIGNAL_NORMALIZED", s) : s \in Inserted(w)})
  /\ Unlock(w)
  /\ UNCHANGED <<validation, scored, embedded, outputs>>

Normalize(w) ==
  /\ Working(w, "RAW_SIGNAL_VALIDATED")
  /\ w \in locked[Subject(w)]
  /\ stage' = [s \in Signals |->
                 IF s \in Inserted(w) THEN "NORMALIZED" ELSE stage[s]]
  /\ flagged' = flagged \cup {s \in Inserted(w) : s.doc \in Unresolved}
  /\ \E result \in Results(w) :
       Commit(w,
         {Event("SIGNAL_NORMALIZED", result[d]) : d \in Docs} \cup
         {Event("ENTITY_RESOLUTION_REQUIRED", result[d]) : d \in Unresolved})
  /\ Unlock(w)
  /\ UNCHANGED <<validation, scored, embedded, outputs>>

(***************************************************************************)
(* classify_signal_task: a matched signal is CLASSIFIED whatever its stage *)
(* was; an unmatched one, or a doubtful match, is flagged for review.      *)
(***************************************************************************)
\* Mutant: an unmatched signal goes on to be announced as classified.
EventsWithoutReturn(verdict) ==
  (IF verdict = "CLEAR" THEN {} ELSE {"CLASSIFICATION_REVIEW_REQUIRED"}) \cup
  {"SIGNAL_CLASSIFIED"}

EventsOf(verdict) ==
  (IF verdict = "CLEAR" THEN {} ELSE {"CLASSIFICATION_REVIEW_REQUIRED"}) \cup
  (IF verdict = "UNMATCHED" THEN {} ELSE {"SIGNAL_CLASSIFIED"})

Classify(w) ==
  /\ Working(w, "SIGNAL_NORMALIZED")
  /\ \E verdict \in Verdicts[Subject(w).doc] :
       /\ stage' = IF verdict = "UNMATCHED" THEN stage
                   ELSE [stage EXCEPT ![Subject(w)] = "CLASSIFIED"]
       /\ flagged' = IF verdict = "CLEAR" THEN flagged
                     ELSE flagged \cup {Subject(w)}
       /\ Commit(w, {Event(type, Subject(w)) : type \in EventsOf(verdict)})
  /\ UNCHANGED <<lockVars, validation, scored, embedded, outputs>>

\* score_signal
Score(w) ==
  /\ Working(w, "SIGNAL_CLASSIFIED")
  /\ scored' = scored \cup {Subject(w)}
  /\ stage' = [stage EXCEPT ![Subject(w)] = "SCORED"]
  /\ Commit(w, {Event("SIGNAL_SCORED", Subject(w))})
  /\ UNCHANGED <<lockVars, validation, flagged, embedded, outputs>>

\* embed_signal, but for its clusters and duplicates
Embed(w) ==
  /\ Working(w, "SIGNAL_SCORED")
  /\ embedded' = embedded \cup {Subject(w)}
  /\ Commit(w, {Event("SIGNAL_CONTEXT_READY", Subject(w))})
  /\ UNCHANGED <<lockVars, validation, stage, flagged, scored, outputs>>

\* Mutant: a fallback output is stored and not announced.
SynthesizeFallbackSilent(w) ==
  /\ Working(w, "SIGNAL_CONTEXT_READY")
  /\ \E output \in {"GROUNDED", "FALLBACK"} :
       /\ outputs' = [outputs EXCEPT ![Subject(w)] = output]
       /\ Commit(w, IF output = "FALLBACK" THEN {}
                    ELSE {Event("INTELLIGENCE_SYNTHESIZED", Subject(w))})
  /\ UNCHANGED <<lockVars, validation, stage, flagged, scored, embedded>>

\* synthesize_global_output: the row is overwritten, by a fallback too.
Synthesize(w) ==
  /\ Working(w, "SIGNAL_CONTEXT_READY")
  /\ \E output \in {"GROUNDED", "FALLBACK"} :
       outputs' = [outputs EXCEPT ![Subject(w)] = output]
  /\ Commit(w, {Event("INTELLIGENCE_SYNTHESIZED", Subject(w))})
  /\ UNCHANGED <<lockVars, validation, stage, flagged, scored, embedded>>

(***************************************************************************)
(* The events that follow a commit, one by one: a document's normalized    *)
(* event before its entity review, a classification review before the      *)
(* classified event.                                                       *)
(***************************************************************************)
ComesFirst(e, todo) ==
  CASE e.type = "ENTITY_RESOLUTION_REQUIRED" ->
         Event("SIGNAL_NORMALIZED", e.of) \notin todo
    [] e.type = "SIGNAL_CLASSIFIED" ->
         Event("CLASSIFICATION_REVIEW_REQUIRED", e.of) \notin todo
    [] OTHER -> TRUE

Announce(w) ==
  /\ \E e \in worker[w].todo :
       /\ ComesFirst(e, worker[w].todo)
       /\ Publish(w, e)
  /\ UNCHANGED <<lockVars, tableVars>>

Task(w) ==
  \/ Load(w) \/ Refused(w)
  \/ Validate(w) \/ LockRaw(w) \/ Normalize(w) \/ Classify(w)
  \/ Score(w) \/ Embed(w) \/ Synthesize(w)
  \/ Announce(w)
  \/ Settle(w) /\ UNCHANGED <<lockVars, tableVars>>

\* Every type of event has a queue of its own.
Queues == {e.type : e \in Events}

Deliver(q) ==
  /\ \E w \in Workers, m \in queue : m.event.type = q /\ Receive(w, m)
  /\ UNCHANGED <<lockVars, tableVars>>

Redrive ==
  /\ \E m \in queue : DeadLetter(m)
  /\ UNCHANGED <<lockVars, tableVars>>

\* The transaction is rolled back and its advisory lock goes with it.
TaskFails(w) ==
  /\ CallFails(w) \/ CrashWorker(w)
  /\ Unlock(w)
  /\ UNCHANGED tableVars

Next ==
  \/ \E r \in Raws : Collected(r)
  \/ \E q \in Queues : Deliver(q)
  \/ Redrive
  \/ \E w \in Workers : Task(w) \/ TaskFails(w)

Spec == Init /\ [][Next]_vars

(***************************************************************************)
(* Fairness: running tasks go on and every queue that has a visible        *)
(* message is polled.                                                      *)
(***************************************************************************)
FairSpec ==
  /\ Spec
  /\ \A w \in Workers : WF_vars(Task(w))
  /\ \A q \in Queues : SF_vars(Deliver(q))
  /\ WF_vars(Redrive)

(***************************************************************************)
(* Safety                                                                  *)
(***************************************************************************)
TypeOK ==
  /\ QueueTypeOK
  /\ validation \in [Raws -> {"PENDING", "VALIDATED", "SUSPICIOUS", "REJECTED"}]
  /\ locked \in [Raws -> SUBSET Workers]
  /\ found \in [Workers -> SUBSET Signals]
  /\ stage \in [Signals -> {"ABSENT", "NORMALIZED", "CLASSIFIED", "SCORED"}]
  /\ flagged \subseteq Signals
  /\ scored \subseteq Signals
  /\ embedded \subseteq Signals
  /\ outputs \in [Signals -> {"NONE", "GROUNDED", "FALLBACK"}]

\* The advisory lock keeps two deliveries of one raw signal from both finding a
\* document missing: no unique key keeps pipeline.signals from holding it twice.
OneSignalPerDocument ==
  \A s, t \in Signals :
    Exists(s) /\ Exists(t) /\ s.raw = t.raw /\ s.doc = t.doc => s = t

Told(type, of) == Event(type, of) \in announced

NormalizedDoc(r, d) ==
  \E s \in Signals : s.raw = r /\ s.doc = d /\ Told("SIGNAL_NORMALIZED", s)

\* What a task that was done with event e must have left behind.
Handled(e) ==
  CASE e.type = "RAW_SIGNAL_COLLECTED" ->
         \/ validation[e.of] = "REJECTED"
         \/ Told("RAW_SIGNAL_VALIDATED", e.of)
         \/ Told("RAW_SIGNAL_SUSPICIOUS", e.of)
    [] e.type = "RAW_SIGNAL_VALIDATED" ->
         \A d \in Docs : NormalizedDoc(e.of, d)
    [] e.type = "SIGNAL_NORMALIZED" ->
         \/ Told("SIGNAL_CLASSIFIED", e.of)
         \/ Told("CLASSIFICATION_REVIEW_REQUIRED", e.of) /\ e.of \in flagged
    [] e.type = "SIGNAL_CLASSIFIED" -> Told("SIGNAL_SCORED", e.of)
    [] e.type = "SIGNAL_SCORED" -> Told("SIGNAL_CONTEXT_READY", e.of)
    [] OTHER -> Told("INTELLIGENCE_SYNTHESIZED", e.of)

\* The last message of an event disappears only when all that follows from it
\* was announced, every document of a raw signal included, or when it goes to
\* the dead letters: no crash, exception or redelivery strands a signal.
NothingStranded ==
  [][\A e \in {m.event : m \in queue} :
       HasMessage(e)' \/ Handled(e) \/ e \in deadLetters']_vars

\* A message of the event is not deleted yet, or one is dead-lettered.
InHand(e) == HasMessage(e) \/ e \in deadLetters

\* No event is forgotten: one that was sent is handled or still in hand.
SentIsAccountedFor ==
  \A e \in announced \cap Events : Handled(e) \/ InHand(e)

\* From end to end: a collected raw signal has come to its conclusion, and so
\* has a normalized signal, unless some event about it is still in hand.  What
\* the queues no longer hold was not lost on the way from task to task.
NothingForgotten ==
  /\ \A r \in Raws : Told("RAW_SIGNAL_COLLECTED", r) =>
       \/ validation[r] = "REJECTED" \/ Told("RAW_SIGNAL_SUSPICIOUS", r)
       \/ \A d \in Docs : NormalizedDoc(r, d)
       \/ \E e \in Events : e.of = r /\ InHand(e)
  /\ \A s \in Signals : Told("SIGNAL_NORMALIZED", s) =>
       \/ outputs[s] # "NONE" /\ Told("INTELLIGENCE_SYNTHESIZED", s)
       \/ Told("CLASSIFICATION_REVIEW_REQUIRED", s) /\ s \in flagged
       \/ \E e \in Events : e.of = s /\ InHand(e)

(***************************************************************************)
(* The journey of a signal, read off its stored data: a classification     *)
(* redelivered late sets the stage back, the data stay.                    *)
(***************************************************************************)
Milestone(s) ==
  CASE outputs[s] # "NONE" -> 5
    [] outputs[s] = "NONE" /\ s \in embedded -> 4
    [] outputs[s] = "NONE" /\ s \in scored \ embedded -> 3
    [] outputs[s] = "NONE" /\ s \notin scored \cup embedded ->
         IF stage[s] = "ABSENT" THEN 0 ELSE IF stage[s] = "NORMALIZED" THEN 1 ELSE 2

MilestoneOf ==
  [SIGNAL_NORMALIZED |-> 1, SIGNAL_CLASSIFIED |-> 2, SIGNAL_SCORED |-> 3,
   SIGNAL_CONTEXT_READY |-> 4, INTELLIGENCE_SYNTHESIZED |-> 5]

Journey == INSTANCE SignalJourney WITH
  Signal <- Signals,
  reached <- [s \in Signals |-> Milestone(s)],
  told <- {<<e.of, MilestoneOf[e.type]>> :
             e \in {f \in announced : f.type \in DOMAIN MilestoneOf}}

\* Whatever is redelivered, retried or lost, a signal's data are completed in
\* order and kept, and no event runs ahead of the data it announces.
KeepsJourney == Journey!Spec

(***************************************************************************)
(* Liveness                                                                *)
(***************************************************************************)
DeadLettered(x) == \E e \in deadLetters : e.of = x

\* A collected raw signal is rejected, handed to review, dead-lettered, or
\* every one of its documents is announced.
CollectedConcludes ==
  \A r \in Raws : Told("RAW_SIGNAL_COLLECTED", r) ~>
    \/ validation[r] = "REJECTED" \/ Told("RAW_SIGNAL_SUSPICIOUS", r)
    \/ DeadLettered(r)
    \/ \A d \in Docs : NormalizedDoc(r, d)

\* A normalized signal is synthesized, handed to review, or dead-lettered.
NormalizedConcludes ==
  \A s \in Signals : Told("SIGNAL_NORMALIZED", s) ~>
    \/ outputs[s] # "NONE" /\ Told("INTELLIGENCE_SYNTHESIZED", s)
    \/ Told("CLASSIFICATION_REVIEW_REQUIRED", s)
    \/ DeadLettered(s)

(***************************************************************************)
(* What SC-DOC-004 says of failure recovery.                               *)
(***************************************************************************)

\* Consumers are idempotent: with one fault, an event whose task has already
\* committed its work is not refused until it is dead-lettered.
FinishedWorkIsNotPoison ==
  \A s \in Signals :
    /\ Event("SIGNAL_NORMALIZED", s) \in deadLetters => Milestone(s) < 2
    /\ Event("SIGNAL_CLASSIFIED", s) \in deadLetters => Milestone(s) < 3
    /\ Event("SIGNAL_SCORED", s) \in deadLetters => Milestone(s) < 4
    /\ Event("SIGNAL_CONTEXT_READY", s) \in deadLetters => Milestone(s) < 5
=============================================================================
