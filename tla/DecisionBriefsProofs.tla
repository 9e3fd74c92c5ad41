------------------------- MODULE DecisionBriefsProofs -------------------------
(***************************************************************************)
(* The safety of decision briefs and their delivery, for any number of     *)
(* outputs, tenants, users, workers, receives, retries, faults and edits,  *)
(* and the refinement of what briefs promise.                              *)
(***************************************************************************)
EXTENDS DecisionBriefs, TLAPS, FiniteSetTheorems, WellFoundedInduction

LEMMA QueueBounds ==
  /\ MaxCopies \in Nat \ {0} /\ MaxReceives \in Nat \ {0}
  /\ MaxRetries \in Nat /\ MaxFaults \in Nat
  /\ NoEvent \notin Events
BY BriefsAssumption

USE QueueBounds DEF AllEvents

(***************************************************************************)
(* The queues.  What a worker works on was announced once.                 *)
(***************************************************************************)
Busy(w) ==
  ~In(w, "idle") => /\ worker[w].event \in Events \cap announced
                    /\ worker[w].copy \in 1..MaxCopies

QueueInv ==
  /\ QueueTypeOK
  /\ \A m \in queue : m.event \in announced
  /\ \A w \in Workers : Busy(w)

OthersRest(w) == \A v \in Workers \ {w} : worker'[v] = worker[v]

LEMMA WorkerMoves ==
  ASSUME QueueTypeOK, NEW w \in Workers, NEW s \in WorkerState,
         worker' = [worker EXCEPT ![w] = s]
  PROVE  /\ worker' \in [Workers -> WorkerState]
         /\ worker'[w] = s
         /\ OthersRest(w)
BY DEF QueueTypeOK, OthersRest

LEMMA Faulting ==
  ASSUME QueueTypeOK, Fault
  PROVE  faults' \in 0..MaxFaults
BY DEF QueueTypeOK, Fault

LEMMA BusyStays ==
  ASSUME NEW v \in Workers, Busy(v), worker'[v] = worker[v],
         announced \subseteq announced'
  PROVE  Busy(v)'
BY DEF Busy, In

LEMMA Sending ==
  ASSUME QueueInv, NEW e \in AllEvents, Send(e)
  PROVE  /\ announced' = announced \cup {e} /\ announced' \subseteq AllEvents
         /\ queue \subseteq queue' /\ queue' \subseteq Messages
         /\ \A m \in queue' : m.event \in announced'
<1>1. announced' = announced \cup {e} /\ announced' \subseteq AllEvents
  BY DEF Send, QueueInv, QueueTypeOK
<1>2. queue \subseteq queue'
  BY DEF Send
<1>3. ASSUME NEW m \in queue', m \notin queue
      PROVE  m \in Messages /\ m.event = e
  <2>1. PICK c \in 1..MaxCopies :
          /\ e \in Events
          /\ m = [event |-> e, copy |-> c, receives |-> 0, attempt |-> 0]
    BY <1>3 DEF Send, FreeCopies
  <2> QED
    BY <2>1 DEF Messages
<1> QED
  BY <1>1, <1>2, <1>3 DEF QueueInv, QueueTypeOK

LEMMA Collecting ==
  ASSUME QueueInv, NEW e \in AllEvents, Send(e), faults' \in 0..MaxFaults,
         UNCHANGED <<deadLetters, worker>>
  PROVE  /\ QueueInv'
         /\ announced' = announced \cup {e}
         /\ queue \subseteq queue'
<1>1. QueueTypeOK'
  BY Sending DEF QueueTypeOK, QueueInv, Messages, WorkerState
<1>2. ASSUME NEW w \in Workers
      PROVE  Busy(w)'
  BY BusyStays, Sending DEF QueueInv
<1> QED
  BY <1>1, <1>2, Sending DEF QueueInv

LEMMA Seeing ==
  ASSUME QueueTypeOK, NEW m, Visible(m)
  PROVE  faults' \in 0..MaxFaults
BY Faulting DEF Visible, QueueTypeOK

LEMMA Receiving ==
  ASSUME QueueInv, NEW w \in Workers, NEW m \in queue, Receive(w, m)
  PROVE  /\ QueueInv'
         /\ OthersRest(w) /\ In(w, "idle")
         /\ worker'[w].pc = "load" /\ worker'[w].todo = {}
         /\ UNCHANGED <<announced, deadLetters>>
         /\ \A e : HasMessage(e) => HasMessage(e)'
<1> DEFINE s == [Resting EXCEPT !.pc = "load", !.event = m.event, !.copy = m.copy,
                                !.attempt = m.attempt]
           n == [m EXCEPT !.receives = @ + 1]
<1>1. m \in Messages
  BY DEF QueueInv, QueueTypeOK
<1>2. s \in WorkerState
  <2>1. Resting \in WorkerState
    BY DEF Resting, WorkerState
  <2>2. /\ m.event \in Events /\ m.copy \in 0..MaxCopies
        /\ m.attempt \in 0..MaxRetries
    BY <1>1 DEF Messages
  <2> QED
    BY <2>1, <2>2 DEF WorkerState
<1>3. worker' = [worker EXCEPT ![w] = s]
  BY DEF Receive
<1>4. /\ worker' \in [Workers -> WorkerState] /\ worker'[w] = s
      /\ OthersRest(w)
  BY ONLY QueueInv, <1>2, <1>3, WorkerMoves DEF QueueInv
<1>5. n \in Messages /\ n.event = m.event
  BY <1>1 DEF Messages, Receive
<1>6. queue' = (queue \ {m}) \cup {n}
  BY DEF Receive
<1>7. QueueTypeOK'
  BY <1>4, <1>5, <1>6, Seeing
     DEF QueueInv, QueueTypeOK, Receive, Messages, WorkerState
<1>8. UNCHANGED <<announced, deadLetters>> /\ In(w, "idle")
  BY DEF Receive
<1>9. /\ s.pc = "load" /\ s.event = m.event /\ s.copy = m.copy /\ s.todo = {}
  BY DEF Resting
<1>10. Busy(w)'
  BY <1>1, <1>4, <1>8, <1>9 DEF Busy, QueueInv, Messages
<1>11. ASSUME NEW v \in Workers \ {w}
       PROVE  Busy(v)'
  BY <1>4, <1>8, BusyStays DEF OthersRest, QueueInv
<1>12. \A p \in queue' : p.event \in announced'
  BY <1>5, <1>6, <1>8 DEF QueueInv
<1>13. \A e : HasMessage(e) => HasMessage(e)'
  BY <1>5, <1>6 DEF HasMessage
<1> QED
  BY <1>4, <1>7, <1>8, <1>9, <1>10, <1>11, <1>12, <1>13 DEF QueueInv

LEMMA Redriving ==
  ASSUME QueueInv, NEW m \in queue, DeadLetter(m)
  PROVE  /\ QueueInv'
         /\ UNCHANGED <<announced, worker>>
         /\ \A e : HasMessage(e) => HasMessage(e)' \/ e \in deadLetters'
<1>1. m \in Messages
  BY DEF QueueInv, QueueTypeOK
<1>2. UNCHANGED <<announced, worker>> /\ queue' = queue \ {m}
  BY DEF DeadLetter
<1>3. QueueTypeOK'
  BY <1>1, Seeing DEF DeadLetter, QueueInv, QueueTypeOK, Messages, WorkerState
<1>4. \A w \in Workers : Busy(w)'
  BY <1>2, BusyStays DEF QueueInv
<1> QED
  BY <1>2, <1>3, <1>4 DEF QueueInv, HasMessage, DeadLetter

\* A step that moves one worker on within its task and leaves the messages.
LEMMA Moving ==
  ASSUME QueueInv, NEW w \in Workers, NEW s \in WorkerState,
         worker' = [worker EXCEPT ![w] = s],
         s.pc = "idle" \/ (~In(w, "idle") /\ s.event = worker[w].event
                                          /\ s.copy = worker[w].copy),
         faults' \in 0..MaxFaults, UNCHANGED <<queue, announced, deadLetters>>
  PROVE  QueueInv' /\ OthersRest(w) /\ worker'[w] = s
<1>1. /\ worker' \in [Workers -> WorkerState] /\ worker'[w] = s
      /\ OthersRest(w)
  BY WorkerMoves DEF QueueInv
<1>2. QueueTypeOK'
  BY <1>1 DEF QueueInv, QueueTypeOK, Messages, WorkerState
<1>3. Busy(w)'
  BY <1>1 DEF Busy, In, QueueInv
<1>4. ASSUME NEW v \in Workers \ {w}
      PROVE  Busy(v)'
  BY <1>1, BusyStays DEF OthersRest, QueueInv
<1> QED
  BY <1>1, <1>2, <1>3, <1>4 DEF QueueInv

LEMMA Proceeding ==
  ASSUME QueueInv, NEW w \in Workers, Proceed(w)
  PROVE  /\ QueueInv' /\ OthersRest(w) /\ In(w, "load")
         /\ worker'[w].pc = "work" /\ worker'[w].todo = worker[w].todo
         /\ worker'[w].event = worker[w].event
<1> DEFINE s == [worker[w] EXCEPT !.pc = "work"]
<1>1. worker[w] \in WorkerState
  BY DEF QueueInv, QueueTypeOK
<1>2. /\ s \in WorkerState /\ s.pc = "work" /\ s.todo = worker[w].todo
      /\ s.event = worker[w].event /\ s.copy = worker[w].copy
  BY <1>1 DEF WorkerState
<1>3. worker' = [worker EXCEPT ![w] = s]
  BY DEF Proceed
<1>4. /\ faults' \in 0..MaxFaults /\ UNCHANGED <<queue, announced, deadLetters>>
      /\ In(w, "load") /\ ~In(w, "idle")
  BY DEF Proceed, QueueInv, QueueTypeOK, In
<1>5. QueueInv' /\ OthersRest(w) /\ worker'[w] = s
  BY ONLY QueueInv, <1>2, <1>3, <1>4, Moving
<1> QED
  BY <1>2, <1>4, <1>5

LEMMA Committing ==
  ASSUME QueueInv, NEW w \in Workers, NEW E, E \subseteq AllEvents, Commit(w, E)
  PROVE  /\ QueueInv' /\ OthersRest(w) /\ In(w, "work")
         /\ worker'[w].pc = IF E = {} THEN "settle" ELSE "publish"
         /\ worker'[w].todo = E
         /\ worker'[w].event = worker[w].event
         /\ worker'[w].outcome = worker[w].outcome
<1> DEFINE s == [worker[w] EXCEPT !.pc = IF E = {} THEN "settle" ELSE "publish",
                                  !.todo = E]
<1>1. worker[w] \in WorkerState
  BY DEF QueueInv, QueueTypeOK
<1>2. /\ s \in WorkerState /\ s.pc = IF E = {} THEN "settle" ELSE "publish"
      /\ s.todo = E /\ s.outcome = worker[w].outcome
      /\ s.event = worker[w].event /\ s.copy = worker[w].copy
  BY <1>1 DEF WorkerState
<1>3. worker' = [worker EXCEPT ![w] = s]
  BY DEF Commit
<1>4. /\ faults' \in 0..MaxFaults /\ UNCHANGED <<queue, announced, deadLetters>>
      /\ In(w, "work") /\ ~In(w, "idle")
  BY DEF Commit, QueueInv, QueueTypeOK, In
<1>5. QueueInv' /\ OthersRest(w) /\ worker'[w] = s
  BY ONLY QueueInv, <1>2, <1>3, <1>4, Moving
<1> QED
  BY <1>2, <1>4, <1>5

LEMMA Publishing ==
  ASSUME QueueInv, NEW w \in Workers, NEW e \in worker[w].todo, Publish(w, e)
  PROVE  /\ QueueInv' /\ OthersRest(w) /\ In(w, "publish")
         /\ worker'[w].pc = IF worker[w].todo = {e} THEN "settle" ELSE "publish"
         /\ worker'[w].todo = worker[w].todo \ {e}
         /\ worker'[w].event = worker[w].event
         /\ announced' = announced \cup {e}
         /\ queue \subseteq queue'
         /\ e \in AllEvents
<1> DEFINE s == [worker[w] EXCEPT
                   !.pc = IF worker[w].todo = {e} THEN "settle" ELSE "publish",
                   !.todo = worker[w].todo \ {e}]
<1>1. worker[w] \in WorkerState
  BY DEF QueueInv, QueueTypeOK
<1>2. /\ s \in WorkerState /\ e \in AllEvents
      /\ s.pc = IF worker[w].todo = {e} THEN "settle" ELSE "publish"
      /\ s.todo = worker[w].todo \ {e}
      /\ s.event = worker[w].event /\ s.copy = worker[w].copy
  BY <1>1 DEF WorkerState
<1>3. worker' = [worker EXCEPT ![w] = s]
  BY DEF Publish
<1>4. /\ worker' \in [Workers -> WorkerState] /\ worker'[w] = s
      /\ OthersRest(w)
  BY ONLY QueueInv, <1>2, <1>3, WorkerMoves DEF QueueInv
<1>5. Send(e) /\ UNCHANGED <<deadLetters, faults>> /\ In(w, "publish")
  BY DEF Publish
<1>6. QueueTypeOK'
  BY <1>2, <1>4, <1>5, Sending DEF QueueInv, QueueTypeOK, Messages, WorkerState
<1>7. Busy(w)'
  BY <1>2, <1>4, <1>5, Sending DEF Busy, In, QueueInv
<1>8. ASSUME NEW v \in Workers \ {w}
      PROVE  Busy(v)'
  BY <1>2, <1>4, <1>5, Sending, BusyStays DEF OthersRest, QueueInv
<1> QED
  BY <1>2, <1>4, <1>5, <1>6, <1>7, <1>8, Sending DEF QueueInv

LEMMA Failing ==
  ASSUME QueueInv, NEW w \in Workers, CallFails(w) \/ CrashWorker(w)
  PROVE  /\ QueueInv' /\ OthersRest(w)
         /\ worker'[w].todo = {}
         /\ worker'[w].pc \in {"idle", "settle"}
         /\ worker'[w].pc = "settle" => worker'[w].outcome # "ack"
         /\ UNCHANGED <<queue, announced, deadLetters>>
<1>1. worker[w] \in WorkerState
  BY DEF QueueInv, QueueTypeOK
<1>2. /\ faults' \in 0..MaxFaults /\ UNCHANGED <<queue, announced, deadLetters>>
      /\ ~In(w, "idle")
  BY Faulting DEF CallFails, CrashWorker, QueueInv, In
<1>3. CASE CallFails(w)
  <2>1. PICK outcome \in {"retry", "leave"} :
          worker' = [worker EXCEPT ![w] =
            [@ EXCEPT !.pc = "settle", !.outcome = outcome, !.todo = {}]]
    BY <1>3 DEF CallFails
  <2> DEFINE s == [worker[w] EXCEPT !.pc = "settle", !.outcome = outcome,
                                    !.todo = {}]
  <2>2. /\ s \in WorkerState /\ s.pc = "settle" /\ s.todo = {}
        /\ s.outcome = outcome
        /\ s.event = worker[w].event /\ s.copy = worker[w].copy
    BY <1>1 DEF WorkerState
  <2>3. worker' = [worker EXCEPT ![w] = s]
    BY <2>1
  <2>4. QueueInv' /\ OthersRest(w) /\ worker'[w] = s
    BY ONLY QueueInv, <1>2, <2>2, <2>3, Moving
  <2> QED
    BY <1>2, <2>2, <2>4
<1>4. CASE CrashWorker(w)
  <2>1. /\ Resting \in WorkerState /\ Resting.pc = "idle" /\ Resting.todo = {}
    BY DEF Resting, WorkerState
  <2>2. worker' = [worker EXCEPT ![w] = Resting]
    BY <1>4 DEF CrashWorker
  <2>3. QueueInv' /\ OthersRest(w) /\ worker'[w] = Resting
    BY ONLY QueueInv, <1>2, <2>1, <2>2, Moving
  <2> QED
    BY <1>2, <2>1, <2>3
<1> QED
  BY <1>3, <1>4

LEMMA Settling ==
  ASSUME QueueInv, NEW w \in Workers, Settle(w)
  PROVE  /\ QueueInv' /\ OthersRest(w) /\ In(w, "settle")
         /\ worker'[w] = Resting
         /\ UNCHANGED <<announced, deadLetters>>
         /\ \A e : HasMessage(e) => \/ HasMessage(e)'
                                    \/ /\ worker[w].outcome = "ack"
                                       /\ e = worker[w].event
<1> DEFINE n == [event |-> worker[w].event, copy |-> worker[w].copy,
                 receives |-> 0, attempt |-> worker[w].attempt + 1]
<1>1. /\ worker[w] \in WorkerState /\ Resting \in WorkerState
      /\ Resting.pc = "idle"
  BY DEF QueueInv, QueueTypeOK, Resting, WorkerState
<1>2. /\ In(w, "settle") /\ worker' = [worker EXCEPT ![w] = Resting]
      /\ UNCHANGED <<announced, deadLetters, faults>>
  BY DEF Settle
<1>3. \/ worker[w].outcome = "ack" /\ queue' = queue \ Delivered(w)
      \/ /\ worker[w].attempt < MaxRetries
         /\ queue' = (queue \ Delivered(w)) \cup {n}
      \/ queue' = queue
  BY DEF Settle
<1>4. Busy(w) /\ ~In(w, "idle")
  BY <1>2 DEF QueueInv, In
<1>5. worker[w].attempt < MaxRetries => n \in Messages
  BY <1>1, <1>4 DEF Busy, Messages, WorkerState
<1>6. n.event = worker[w].event /\ n.event \in announced
  BY <1>4 DEF Busy
<1>7. \A m \in Delivered(w) : m \in queue /\ m.event = worker[w].event
  BY DEF Delivered, IsDelivery
<1>8. /\ queue' \subseteq Messages
      /\ \A m \in queue' : m.event \in announced'
  <2> HIDE DEF n
  <2> QED
    BY <1>2, <1>3, <1>5, <1>6 DEF QueueInv, QueueTypeOK
<1>9. /\ worker' \in [Workers -> WorkerState] /\ worker'[w] = Resting
      /\ OthersRest(w)
  BY ONLY QueueInv, <1>1, <1>2, WorkerMoves DEF QueueInv
<1>10. QueueTypeOK'
  BY <1>2, <1>8, <1>9 DEF QueueInv, QueueTypeOK, Messages, WorkerState
<1>11. ASSUME NEW v \in Workers
       PROVE  Busy(v)'
  <2>1. CASE v = w
    BY <1>1, <1>9, <2>1 DEF Busy, In
  <2>2. CASE v # w
    BY <1>2, <1>9, <2>2, BusyStays DEF OthersRest, QueueInv
  <2> QED
    BY <2>1, <2>2
<1>12. ASSUME NEW e, HasMessage(e), ~HasMessage(e)'
       PROVE  worker[w].outcome = "ack" /\ e = worker[w].event
  <2> HIDE DEF n
  <2>1. PICK m \in queue : m.event = e
    BY <1>12 DEF HasMessage
  <2>2. m \notin queue'
    BY <1>12, <2>1 DEF HasMessage
  <2>3. m \in Delivered(w)
    BY <1>3, <2>1, <2>2
  <2>4. n \notin queue'
    BY <1>6, <1>7, <1>12, <2>1, <2>3 DEF HasMessage
  <2> QED
    BY <1>3, <1>7, <2>1, <2>2, <2>3, <2>4
<1> QED
  BY <1>2, <1>8, <1>9, <1>10, <1>11, <1>12 DEF QueueInv
(***************************************************************************)
(* Events and sequences of readers                                         *)
(***************************************************************************)
LEMMA EventIs ==
  ASSUME NEW e \in Events
  PROVE  \/ /\ e.type = "INTELLIGENCE_SYNTHESIZED"
            /\ e.of \in Outputs /\ e = Synthesized(e.of)
         \/ /\ e.type = "DECISION_BRIEF_READY"
            /\ e.of \in Briefs /\ e = Ready(e.of)
BY DEF Events, Synthesized, Ready

LEMMA EventsAre ==
  /\ \A o : Synthesized(o).type = "INTELLIGENCE_SYNTHESIZED" /\ Synthesized(o).of = o
  /\ \A b : Ready(b).type = "DECISION_BRIEF_READY" /\ Ready(b).of = b
  /\ \A o \in Outputs : Synthesized(o) \in Events
  /\ \A b \in Briefs : Ready(b) \in Events
BY DEF Events, Synthesized, Ready

LEMMA OrdersOfReaders ==
  ASSUME NEW S, NEW T, S \subseteq T, T \subseteq Users, NEW rows \in SetToSeqs(S)
  PROVE  rows \in Seq(T)
<1>1. Cardinality(S) \in Nat
  BY BriefsAssumption, FS_CardinalityType, FS_Subset
<1>2. rows \in [1 .. Cardinality(S) -> S]
  BY DEF SetToSeqs
<1>3. rows \in [1 .. Cardinality(S) -> T]
  BY <1>2
<1> QED
  BY <1>1, <1>3

Less == {ss \in Nat \X Nat : ss[1] < ss[2]}

LEMMA LeastIsMember ==
  ASSUME NEW S, S \subseteq Nat, S # {}
  PROVE  Min(S) \in S
<1>1. IsWellFoundedOn(Less, Nat)
  BY NatLessThanWellFounded DEF OpToRel, Less
<1>2. PICK x \in S : \A y \in S : <<y, x>> \notin Less
  BY <1>1, WFMin
<1>3. ASSUME NEW y \in S
      PROVE  x <= y
  <2>1. y < x => <<y, x>> \in Less
    BY DEF Less
  <2> QED
    BY <1>2, <2>1
<1> QED
  BY <1>3 DEF Min

(***************************************************************************)
(* Settings and rows                                                       *)
(***************************************************************************)
ProgressState ==
  [tenants : SUBSET Tenants, context : Versions \cup {0}, ready : SUBSET Briefs,
   rows : Seq(Users), written : SUBSET (Users \X (0..MaxMoves)), done : BOOLEAN]

\* Profiles and lenses change as often as there were moves, and never go.
SettingsInv ==
  /\ context \in [Tenants -> Versions \cup {0}]
  /\ lens \in [Users -> Versions \cup {0}]
  /\ role \in [Users -> Roles \cup {NoEvent}]
  /\ muted \subseteq Users
  /\ moves \in 0..MaxMoves
  /\ today \in 0..MaxMoves /\ today <= moves
  /\ \A t \in Tenants : context[t] <= moves + 1 /\ (t \in Onboarded => context[t] > 0)
  /\ \A u \in Users : lens[u] <= moves + 1 /\ (u \in Focused => lens[u] > 0)

\* What is announced is stored.
RowsInv ==
  /\ stored \subseteq Briefs
  /\ acted \subseteq stored
  /\ read \subseteq alerts
  /\ \A a \in alerts : a[1] \in stored /\ a[2] \in Addressees(a[1])
  /\ digests \subseteq Users \X (0..MaxMoves) \X Briefs
  /\ \A b \in Briefs : Ready(b) \in announced => b \in stored

\* A worker has stored what it is to announce and writes to addressees only.
Knows(w) ==
  /\ progress[w].ready \subseteq stored
  /\ \A e \in worker[w].todo : \E b \in stored : e = Ready(b)
  /\ Working(w, "DECISION_BRIEF_READY") =>
       /\ progress[w].rows \in Seq(Addressees(Subject(w)))
       /\ \A x \in progress[w].written : x[1] \in Addressees(Subject(w))

Owed(t) == {Company} \cup (Staff[t] \cap Focused)

Concerns(b, o, t, r) == b.output = o /\ b.tenant = t /\ b.reader = r

AllBriefed(o) == \A t \in Due(o) : \A r \in Owed(t) : Briefed(o, t, r)

\* For whom a decision task has stored no brief yet, it still has to visit; what it
\* has stored it announces before it is done.
Owes(w) ==
  ~Shielded =>
    /\ Working(w, "INTELLIGENCE_SYNTHESIZED") =>
         \A t \in Due(Subject(w)) :
           \/ t \in progress[w].tenants
           \/ \A r \in Owed(t) :
                \E b \in progress[w].ready : Concerns(b, Subject(w), t, r)
    /\ In(w, "publish") /\ Type(w) = "INTELLIGENCE_SYNTHESIZED" =>
         \A t \in Due(Subject(w)) : \A r \in Owed(t) :
           \E b \in Briefs : /\ Concerns(b, Subject(w), t, r)
                             /\ Ready(b) \in announced \cup worker[w].todo
    /\ In(w, "settle") /\ worker[w].outcome = "ack"
         /\ Type(w) = "INTELLIGENCE_SYNTHESIZED" => AllBriefed(Subject(w))

IInv ==
  /\ QueueInv /\ SettingsInv /\ RowsInv
  /\ progress \in [Workers -> ProgressState]
  /\ \A w \in Workers : Knows(w) /\ Owes(w)

LEMMA BlankIs ==
  /\ Blank \in ProgressState
  /\ Blank.ready = {} /\ Blank.written = {} /\ Blank.rows = <<>>
BY DEF Blank, ProgressState

LEMMA InitIInv == Init => IInv
<1> SUFFICES ASSUME Init
             PROVE  IInv
  OBVIOUS
<1>1. Resting \in WorkerState /\ Resting.pc = "idle" /\ Resting.todo = {}
  BY DEF Resting, WorkerState
<1>2. QueueTypeOK
  BY <1>1 DEF Init, QueueInit, QueueTypeOK
<1>3. \A w \in Workers : worker[w] = Resting /\ progress[w] = Blank
  BY DEF Init, QueueInit
<1>4. QueueInv
  BY <1>1, <1>2, <1>3 DEF Init, QueueInit, QueueInv, Busy, In
<1>5. SettingsInv
  BY BriefsAssumption DEF Init, SettingsInv, Versions
<1>6. RowsInv
  BY DEF Init, QueueInit, RowsInv
<1>7. progress \in [Workers -> ProgressState]
  BY BlankIs DEF Init
<1>8. \A w \in Workers : Knows(w) /\ Owes(w)
  BY <1>1, <1>3, BlankIs DEF Knows, Owes, Working, In
<1> QED
  BY <1>4, <1>5, <1>6, <1>7, <1>8 DEF IInv

(***************************************************************************)
(* What one worker's step leaves as it is                                  *)
(***************************************************************************)
OthersPause(w) == \A v \in Workers \ {w} : progress'[v] = progress[v]

LEMMA Advancing ==
  ASSUME progress \in [Workers -> ProgressState], NEW w \in Workers,
         NEW p \in ProgressState, Advance(w, p)
  PROVE  /\ progress' \in [Workers -> ProgressState]
         /\ progress'[w] = p
         /\ OthersPause(w)
BY DEF Advance, OthersPause

LEMMA BriefedStays ==
  ASSUME NEW o, AllBriefed(o), announced \subseteq announced'
  PROVE  AllBriefed(o)'
BY DEF AllBriefed, Briefed, Due, Owed

LEMMA OthersKeep ==
  ASSUME NEW v \in Workers, Knows(v), Owes(v), worker'[v] = worker[v],
         progress'[v] = progress[v], stored \subseteq stored',
         announced \subseteq announced'
  PROVE  Knows(v)' /\ Owes(v)'
<1>1. Knows(v)'
  BY DEF Knows, Working, In, Type, Subject, Addressees
<1>2. Owes(v)'
  <2> SUFFICES ASSUME ~Shielded
               PROVE  Owes(v)'
    BY DEF Owes
  <2>1. Working(v, "INTELLIGENCE_SYNTHESIZED")' =>
          \A t \in Due(Subject(v)') :
            \/ t \in progress'[v].tenants
            \/ \A r \in Owed(t) :
                 \E b \in progress'[v].ready : Concerns(b, Subject(v)', t, r)
    BY DEF Owes, Working, In, Type, Subject
  <2>2. In(v, "publish")' /\ (Type(v) = "INTELLIGENCE_SYNTHESIZED")' =>
          \A t \in Due(Subject(v)') : \A r \in Owed(t) :
            \E b \in Briefs : /\ Concerns(b, Subject(v)', t, r)
                              /\ Ready(b) \in announced' \cup worker'[v].todo
    BY DEF Owes, In, Type, Subject
  <2>3. In(v, "settle")' /\ worker'[v].outcome = "ack"
          /\ (Type(v) = "INTELLIGENCE_SYNTHESIZED")' => AllBriefed(Subject(v))'
    BY BriefedStays DEF Owes, In, Type, Subject, AllBriefed, Briefed
  <2> QED
    BY <2>1, <2>2, <2>3 DEF Owes, Due, Owed, Concerns
<1> QED
  BY <1>1, <1>2

LEMMA WorkerStep ==
  ASSUME IInv, NEW w \in Workers, QueueInv', OthersRest(w),
         progress' \in [Workers -> ProgressState], OthersPause(w),
         UNCHANGED settingVars, RowsInv', stored \subseteq stored',
         announced \subseteq announced', Knows(w)', Owes(w)'
  PROVE  IInv'
<1>1. SettingsInv'
  BY DEF IInv, SettingsInv, settingVars
<1>2. ASSUME NEW v \in Workers \ {w}
      PROVE  Knows(v)' /\ Owes(v)'
  BY OthersKeep DEF OthersRest, OthersPause, IInv
<1> QED
  BY <1>1, <1>2 DEF IInv

\* Rows are unchanged and nothing is announced.
LEMMA SameRows ==
  ASSUME RowsInv, UNCHANGED <<announced, briefVars, inboxVars>>
  PROVE  RowsInv' /\ stored \subseteq stored' /\ announced \subseteq announced'
<1>1. UNCHANGED <<announced, stored, acted, alerts, read, digests>>
  BY DEF briefVars, inboxVars
<1> QED
  BY <1>1 DEF RowsInv, Addressees

\* A worker at rest, or about to read, owes nothing.
LEMMA NothingOwed ==
  ASSUME NEW w,
         \/ worker[w].pc \in {"idle", "load"}
         \/ worker[w].pc = "settle" /\ worker[w].outcome # "ack"
  PROVE  Owes(w)
BY DEF Owes, Working, In

LEMMA NothingOwedNext ==
  ASSUME NEW w,
         \/ worker'[w].pc \in {"idle", "load"}
         \/ worker'[w].pc = "settle" /\ worker'[w].outcome # "ack"
  PROVE  Owes(w)'
BY DEF Owes, Working, In

LEMMA DeliverStep ==
  ASSUME IInv, NEW q \in Queues, Deliver(q)
  PROVE  IInv'
<1>1. PICK w \in Workers, m \in queue : Receive(w, m)
  BY DEF Deliver
<1>2. /\ QueueInv' /\ OthersRest(w) /\ worker'[w].pc = "load"
      /\ worker'[w].todo = {} /\ UNCHANGED announced
  BY <1>1, Receiving DEF IInv
<1>3. UNCHANGED settingVars /\ UNCHANGED progress /\ UNCHANGED <<briefVars, inboxVars>>
  BY DEF Deliver
<1>4. RowsInv' /\ stored \subseteq stored' /\ announced \subseteq announced'
  BY <1>2, <1>3, SameRows DEF IInv
<1>5. Knows(w)'
  BY <1>2, <1>3, <1>4 DEF IInv, Knows, Working, In
<1>6. Owes(w)'
  BY <1>2, NothingOwedNext
<1> QED
  BY <1>2, <1>3, <1>4, <1>5, <1>6, WorkerStep DEF OthersPause, IInv

LEMMA OutsideStep ==
  ASSUME IInv, QueueInv', UNCHANGED <<worker, progress>>, SettingsInv', RowsInv',
         stored \subseteq stored', announced \subseteq announced'
  PROVE  IInv'
<1>1. ASSUME NEW v \in Workers
      PROVE  Knows(v)' /\ Owes(v)'
  BY OthersKeep DEF IInv
<1> QED
  BY <1>1 DEF IInv

LEMMA ArriveStep ==
  ASSUME IInv, NEW o \in Outputs, Arrive(o)
  PROVE  IInv' /\ announced' = announced \cup {Synthesized(o)} /\ queue \subseteq queue'
<1> DEFINE e == Synthesized(o)
<1>1. e \in AllEvents /\ e.type = "INTELLIGENCE_SYNTHESIZED"
  BY EventsAre
<1>2. /\ Send(e) /\ (Fault \/ UNCHANGED faults)
      /\ UNCHANGED <<deadLetters, worker>> /\ UNCHANGED progress
      /\ UNCHANGED settingVars /\ UNCHANGED <<briefVars, inboxVars>>
  BY DEF Arrive
<1>3. faults' \in 0..MaxFaults
  BY <1>2, Faulting DEF IInv, QueueInv, QueueTypeOK
<1>4. QueueInv' /\ announced' = announced \cup {e} /\ queue \subseteq queue'
  BY <1>1, <1>2, <1>3, Collecting DEF IInv
<1>5. \A b : Ready(b) \in announced' => Ready(b) \in announced
  BY <1>1, <1>4, EventsAre
<1>6. RowsInv' /\ stored \subseteq stored'
  BY <1>2, <1>5 DEF IInv, RowsInv, Addressees, briefVars, inboxVars
<1>7. SettingsInv'
  BY <1>2 DEF IInv, SettingsInv, settingVars
<1> QED
  BY <1>2, <1>4, <1>6, <1>7, OutsideStep

LEMMA RedriveStep ==
  ASSUME IInv, Redrive
  PROVE  IInv' /\ UNCHANGED announced
<1>1. PICK m \in queue : DeadLetter(m)
  BY DEF Redrive
<1>2. QueueInv' /\ UNCHANGED <<announced, worker>>
  BY <1>1, Redriving DEF IInv
<1>3. UNCHANGED settingVars /\ UNCHANGED progress /\ UNCHANGED <<briefVars, inboxVars>>
  BY DEF Redrive
<1>4. RowsInv' /\ stored \subseteq stored' /\ announced \subseteq announced'
  BY <1>2, <1>3, SameRows DEF IInv
<1>5. SettingsInv'
  BY <1>3 DEF IInv, SettingsInv, settingVars
<1> QED
  BY <1>2, <1>3, <1>4, <1>5, OutsideStep

LEMMA FailStep ==
  ASSUME IInv, NEW w \in Workers, TaskFails(w)
  PROVE  IInv' /\ UNCHANGED <<queue, announced>>
<1>1. (CallFails(w) \/ CrashWorker(w)) /\ Advance(w, Blank) /\ UNCHANGED settingVars
        /\ UNCHANGED <<briefVars, inboxVars>>
  BY DEF TaskFails
<1>2. /\ QueueInv' /\ OthersRest(w) /\ worker'[w].todo = {}
      /\ worker'[w].pc \in {"idle", "settle"}
      /\ worker'[w].pc = "settle" => worker'[w].outcome # "ack"
      /\ UNCHANGED <<queue, announced>>
  BY <1>1, Failing DEF IInv
<1>3. /\ progress' \in [Workers -> ProgressState] /\ progress'[w] = Blank
      /\ OthersPause(w)
  BY <1>1, BlankIs, Advancing DEF IInv
<1>4. RowsInv' /\ stored \subseteq stored' /\ announced \subseteq announced'
  BY <1>1, <1>2, SameRows DEF IInv
<1>5. Knows(w)'
  BY <1>2, <1>3, BlankIs DEF Knows, Working, In
<1>6. Owes(w)'
  BY <1>2, NothingOwedNext
<1> QED
  BY <1>1, <1>2, <1>3, <1>4, <1>5, <1>6, WorkerStep

(***************************************************************************)
(* The decision task                                                       *)
(***************************************************************************)
\* What a task works on was announced.
LEMMA AtWork ==
  ASSUME IInv, NEW w \in Workers, ~In(w, "idle")
  PROVE  /\ worker[w] \in WorkerState
         /\ worker[w].event \in Events \cap announced
         /\ \/ Type(w) = "INTELLIGENCE_SYNTHESIZED" /\ Subject(w) \in Outputs
            \/ /\ Type(w) = "DECISION_BRIEF_READY"
               /\ Subject(w) \in Briefs /\ Subject(w) \in stored
<1>1. worker[w] \in WorkerState
  BY DEF IInv, QueueInv, QueueTypeOK
<1>2. worker[w].event \in Events \cap announced
  BY DEF IInv, QueueInv, Busy
<1>3. CASE Type(w) = "INTELLIGENCE_SYNTHESIZED"
  BY <1>1, <1>2, <1>3, EventIs DEF Type, Subject
<1>4. CASE Type(w) # "INTELLIGENCE_SYNTHESIZED"
  <2>1. /\ Type(w) = "DECISION_BRIEF_READY" /\ Subject(w) \in Briefs
        /\ worker[w].event = Ready(Subject(w))
    BY <1>2, <1>4, EventIs DEF Type, Subject
  <2> QED
    BY <1>1, <1>2, <2>1 DEF IInv, RowsInv
<1> QED
  BY <1>1, <1>2, <1>3, <1>4

\* Every tenant an output is due to applies, unless the role sees no profile.
LEMMA DueApply ==
  ASSUME SettingsInv, NEW o \in Outputs, ~Shielded
  PROVE  Due(o) \subseteq Applicable(o)
BY BriefsAssumption DEF Due, Applicable, SettingsInv

LEMMA ApplicableAreTenants ==
  ASSUME NEW o \in Outputs
  PROVE  Applicable(o) \subseteq Tenants
BY BriefsAssumption DEF Applicable

LEMMA BeginRunStep ==
  ASSUME IInv, NEW w \in Workers, BeginRun(w)
  PROVE  IInv'
<1> DEFINE o == Subject(w)
           p == [Blank EXCEPT !.tenants = Applicable(o)]
<1>1. /\ Type(w) = "INTELLIGENCE_SYNTHESIZED" /\ In(w, "load") /\ ~In(w, "idle")
      /\ Proceed(w) /\ Advance(w, p)
      /\ UNCHANGED settingVars /\ UNCHANGED <<briefVars, inboxVars>>
  BY DEF BeginRun, Loading, In
<1>2. o \in Outputs
  BY <1>1, AtWork
<1>3. p \in ProgressState /\ p.tenants = Applicable(o) /\ p.ready = {}
  BY <1>2, ApplicableAreTenants, BlankIs DEF Blank, ProgressState
<1>4. /\ QueueInv' /\ OthersRest(w) /\ worker'[w].pc = "work"
      /\ worker'[w].todo = worker[w].todo /\ worker'[w].event = worker[w].event
  BY <1>1, Proceeding DEF IInv
<1>5. UNCHANGED announced
  BY <1>1 DEF Proceed
<1>6. /\ progress' \in [Workers -> ProgressState] /\ progress'[w] = p
      /\ OthersPause(w)
  BY ONLY IInv, <1>1, <1>3, Advancing DEF IInv
<1>7. RowsInv' /\ stored \subseteq stored' /\ announced \subseteq announced'
  BY <1>1, <1>5, SameRows DEF IInv
<1> HIDE DEF p
<1>8. Knows(w)'
  BY <1>1, <1>3, <1>4, <1>6, <1>7 DEF IInv, Knows, Working, In, Type
<1>9. Owes(w)'
  <2>1. ~Shielded => Due(o) \subseteq p.tenants
    BY <1>2, <1>3, DueApply DEF IInv
  <2> QED
    BY <1>4, <1>6, <2>1 DEF Owes, Working, In, Subject, Due
<1> QED
  BY <1>1, <1>4, <1>6, <1>7, <1>8, <1>9, WorkerStep

LEMMA CurrentIsTenant ==
  ASSUME IInv, NEW w \in Workers, Visiting(w)
  PROVE  /\ progress[w] \in ProgressState
         /\ Current(w) \in progress[w].tenants /\ Current(w) \in Tenants
<1>1. progress[w] \in ProgressState
  BY DEF IInv
<1>2. progress[w].tenants \subseteq Nat /\ progress[w].tenants # {}
  BY <1>1, BriefsAssumption DEF ProgressState, Visiting
<1> QED
  BY <1>1, <1>2, LeastIsMember DEF Current, ProgressState

LEMMA LoadPackageStep ==
  ASSUME IInv, NEW w \in Workers, LoadPackage(w)
  PROVE  IInv' /\ UNCHANGED <<queue, announced>>
<1>1. Visiting(w) /\ Working(w, "INTELLIGENCE_SYNTHESIZED")
  BY DEF LoadPackage, Visiting
<1>2. /\ progress[w] \in ProgressState
      /\ Current(w) \in progress[w].tenants /\ Current(w) \in Tenants
  BY <1>1, CurrentIsTenant
<1>3. /\ UNCHANGED <<queue, announced, deadLetters, worker, faults>>
      /\ UNCHANGED settingVars /\ UNCHANGED <<briefVars, inboxVars>>
  BY DEF LoadPackage, queueVars
<1>4. PICK p \in ProgressState :
        /\ Advance(w, p) /\ p.ready = progress[w].ready
        /\ \A t \in progress[w].tenants : t \in Onboarded => t \in p.tenants
  <2>1. context[Current(w)] \in Versions \cup {0}
    BY <1>2 DEF IInv, SettingsInv
  <2>2. Current(w) \in Onboarded => context[Current(w)] # 0
    BY <1>2, <2>1 DEF IInv, SettingsInv, Versions
  <2>3. CASE context[Current(w)] = 0
    <3> DEFINE p == [progress[w] EXCEPT !.tenants = @ \ {Current(w)}]
    <3>1. p \in ProgressState /\ p.ready = progress[w].ready
            /\ p.tenants = progress[w].tenants \ {Current(w)}
      BY <1>2 DEF ProgressState
    <3>2. Advance(w, p)
      BY <2>3 DEF LoadPackage
    <3> HIDE DEF p
    <3> QED
      BY <2>2, <2>3, <3>1, <3>2
  <2>4. CASE context[Current(w)] # 0
    <3> DEFINE p == [progress[w] EXCEPT !.context = context[Current(w)]]
    <3>1. p \in ProgressState /\ p.ready = progress[w].ready
            /\ p.tenants = progress[w].tenants
      BY <1>2, <2>1 DEF ProgressState
    <3>2. Advance(w, p)
      BY <2>4 DEF LoadPackage
    <3> HIDE DEF p
    <3> QED
      BY <3>1, <3>2
  <2> QED
    BY <2>3, <2>4
<1>5. QueueInv' /\ OthersRest(w)
  BY <1>3 DEF IInv, QueueInv, QueueTypeOK, Busy, In, Messages, WorkerState, OthersRest
<1>6. /\ progress' \in [Workers -> ProgressState] /\ progress'[w] = p
      /\ OthersPause(w)
  BY <1>4, Advancing DEF IInv
<1>7. RowsInv' /\ stored \subseteq stored' /\ announced \subseteq announced'
  BY <1>3, SameRows DEF IInv
<1>8. Knows(w)'
  BY <1>1, <1>3, <1>4, <1>6, <1>7 DEF IInv, Knows, Working, In, Type
<1>9. Owes(w)'
  <2> SUFFICES ASSUME ~Shielded
               PROVE  Owes(w)'
    BY DEF Owes
  <2>1. \A t \in Due(Subject(w)) : t \in Onboarded
    BY DEF Due
  <2>2. \A t \in Due(Subject(w)) :
          \/ t \in progress[w].tenants
          \/ \A r \in Owed(t) :
               \E b \in progress[w].ready : Concerns(b, Subject(w), t, r)
    BY <1>1 DEF IInv, Owes
  <2>3. \A t \in Due(Subject(w)) :
          \/ t \in p.tenants
          \/ \A r \in Owed(t) : \E b \in p.ready : Concerns(b, Subject(w), t, r)
    BY <1>4, <2>1, <2>2
  <2> QED
    BY <1>1, <1>3, <1>6, <2>3 DEF Owes, Working, In, Subject, Due, Owed, Concerns
<1> QED
  BY <1>3, <1>5, <1>6, <1>7, <1>8, <1>9, WorkerStep

\* The briefs of one visit are rows of the tables, and none is missing.
LEMMA MadeAre ==
  ASSUME IInv, NEW w \in Workers, Visiting(w), progress[w].context > 0
  PROVE  /\ Made(w) \subseteq Briefs
         /\ \A r \in Owed(Current(w)) :
              \E b \in Made(w) : Concerns(b, Subject(w), Current(w), r)
<1> DEFINE t == Current(w)
           o == Subject(w)
           Brief(r) == [output |-> o, tenant |-> t, context |-> progress[w].context,
                        reader |-> r, lens |-> IF r = Company THEN 0 ELSE lens[r]]
           R == {Company} \cup {u \in Staff[t] : lens[u] > 0}
<1>1. progress[w] \in ProgressState /\ t \in Tenants
  BY CurrentIsTenant
<1>2. o \in Outputs
  <2>1. ~In(w, "idle") /\ Type(w) = "INTELLIGENCE_SYNTHESIZED"
    BY DEF Visiting, Working, In
  <2> QED
    BY <2>1, AtWork
<1>3. progress[w].context \in Versions
  BY <1>1, BriefsAssumption DEF ProgressState, Versions
<1>4. Staff[t] \subseteq Users /\ Company \notin Users
  BY <1>1, BriefsAssumption DEF Company
<1>5. ASSUME NEW r \in R
      PROVE  Brief(r) \in Briefs
  <2>1. CASE r = Company
    BY <1>1, <1>2, <1>3, <2>1 DEF Briefs
  <2>2. CASE r # Company
    <3>1. r \in Staff[t] /\ r \in Users /\ lens[r] > 0
      BY <1>4, <1>5, <2>2
    <3>2. lens[r] \in Versions
      BY <3>1, BriefsAssumption DEF IInv, SettingsInv, Versions
    <3>3. lens[r] # 0
      BY <3>1, <3>2 DEF Versions
    <3> QED
      BY <1>1, <1>2, <1>3, <2>2, <3>1, <3>2, <3>3 DEF Briefs
  <2> QED
    BY <2>1, <2>2
<1>6. Made(w) = {Brief(r) : r \in R}
  BY DEF Made
<1>7. Owed(t) \subseteq R
  BY <1>4 DEF Owed, IInv, SettingsInv
<1>8. \A r \in R : Concerns(Brief(r), o, t, r)
  BY DEF Concerns
<1> HIDE DEF Brief, R
<1> QED
  BY <1>5, <1>6, <1>7, <1>8

LEMMA AssessStep ==
  ASSUME IInv, NEW w \in Workers, Assess(w)
  PROVE  IInv' /\ UNCHANGED <<queue, announced, inboxVars>>
<1> DEFINE t == Current(w)
           o == Subject(w)
           p == AfterVisit(w, progress[w].ready \cup Made(w))
<1>1. /\ Visiting(w) /\ Working(w, "INTELLIGENCE_SYNTHESIZED")
      /\ progress[w].context > 0 /\ Advance(w, p)
      /\ stored' = stored \cup Made(w)
  BY DEF Assess, Visiting
<1>2. /\ UNCHANGED <<queue, announced, deadLetters, worker, faults>>
      /\ UNCHANGED settingVars /\ UNCHANGED acted
      /\ UNCHANGED <<alerts, read, digests>>
  BY DEF Assess, queueVars, inboxVars
<1>3. progress[w] \in ProgressState /\ t \in progress[w].tenants /\ t \in Tenants
  BY <1>1, CurrentIsTenant
<1>4. /\ Made(w) \subseteq Briefs
      /\ \A r \in Owed(t) : \E b \in Made(w) : Concerns(b, o, t, r)
  BY <1>1, MadeAre
<1>5. /\ p \in ProgressState /\ p.ready = progress[w].ready \cup Made(w)
      /\ p.tenants = progress[w].tenants \ {t}
  BY <1>3, <1>4 DEF ProgressState, AfterVisit
<1> HIDE DEF p
<1>6. QueueInv' /\ OthersRest(w)
  BY <1>2 DEF IInv, QueueInv, QueueTypeOK, Busy, In, Messages, WorkerState, OthersRest
<1>7. /\ progress' \in [Workers -> ProgressState] /\ progress'[w] = p
      /\ OthersPause(w)
  BY <1>1, <1>5, Advancing DEF IInv
<1>8. RowsInv' /\ stored \subseteq stored' /\ announced \subseteq announced'
  BY <1>1, <1>2, <1>4 DEF IInv, RowsInv, Addressees
<1>9. Knows(w)'
  BY <1>1, <1>2, <1>5, <1>7 DEF IInv, Knows, Working, In, Type
<1>10. Owes(w)'
  <2> SUFFICES ASSUME ~Shielded
               PROVE  Owes(w)'
    BY DEF Owes
  <2>1. \A s \in Due(o) :
          \/ s \in progress[w].tenants
          \/ \A r \in Owed(s) : \E b \in progress[w].ready : Concerns(b, o, s, r)
    BY <1>1 DEF IInv, Owes
  <2>2. \A s \in Due(o) :
          \/ s \in p.tenants
          \/ \A r \in Owed(s) : \E b \in p.ready : Concerns(b, o, s, r)
    BY <1>4, <1>5, <2>1
  <2> QED
    BY <1>1, <1>2, <1>7, <2>2 DEF Owes, Working, In, Subject, Due, Owed, Concerns
<1> QED
  BY <1>2, <1>6, <1>7, <1>8, <1>9, <1>10, WorkerStep DEF inboxVars

LEMMA EndRunStep ==
  ASSUME IInv, NEW w \in Workers, EndRun(w)
  PROVE  IInv' /\ UNCHANGED <<queue, announced>>
<1> DEFINE o == Subject(w)
           E == {Ready(b) : b \in progress[w].ready}
<1>1. /\ Working(w, "INTELLIGENCE_SYNTHESIZED") /\ progress[w].tenants = {}
      /\ Commit(w, E) /\ Advance(w, Blank)
      /\ UNCHANGED settingVars /\ UNCHANGED <<briefVars, inboxVars>>
  BY DEF EndRun
<1>2. progress[w].ready \subseteq Briefs /\ progress[w].ready \subseteq stored
  BY DEF IInv, ProgressState, Knows
<1>3. E \subseteq AllEvents
  BY <1>2, EventsAre
<1>4. UNCHANGED <<queue, announced>>
  BY <1>1 DEF Commit
<1>5. \A e \in E : \E b \in stored : e = Ready(b)
  BY <1>2
<1>6. \A b \in progress[w].ready : Ready(b) \in E
  OBVIOUS
<1> HIDE DEF E
<1>7. /\ QueueInv' /\ OthersRest(w)
      /\ worker'[w].pc = IF E = {} THEN "settle" ELSE "publish"
      /\ worker'[w].todo = E /\ worker'[w].event = worker[w].event
  BY <1>1, <1>3, Committing DEF IInv
<1>8. /\ progress' \in [Workers -> ProgressState] /\ progress'[w] = Blank
      /\ OthersPause(w)
  BY <1>1, BlankIs, Advancing DEF IInv
<1>9. RowsInv' /\ stored \subseteq stored' /\ announced \subseteq announced'
  BY <1>1, <1>4, SameRows DEF IInv
<1>10. worker'[w].pc # "work"
  BY <1>7
<1>11. Knows(w)'
  BY <1>5, <1>7, <1>8, <1>9, <1>10, BlankIs DEF Knows, Working, In
<1>12. Owes(w)'
  <2> SUFFICES ASSUME ~Shielded
               PROVE  Owes(w)'
    BY DEF Owes
  <2>1. \A t \in Due(o) : \A r \in Owed(t) :
          \E b \in progress[w].ready : Concerns(b, o, t, r)
    BY <1>1 DEF IInv, Owes
  <2>2. \A t \in Due(o) : \A r \in Owed(t) :
          \E b \in Briefs : Concerns(b, o, t, r) /\ Ready(b) \in E
    BY <1>2, <1>6, <2>1
  <2>3. CASE E = {}
    <3>1. \A t \in Due(o) : \A r \in Owed(t) : FALSE
      BY <2>2, <2>3
    <3>2. AllBriefed(o)'
      BY <1>7, <3>1 DEF AllBriefed, Due, Owed, Subject
    <3> QED
      BY <1>7, <2>3, <3>2 DEF Owes, Working, In, Subject
  <2>4. CASE E # {}
    BY <1>7, <2>2, <2>4 DEF Owes, Working, In, Subject, Due, Owed, Concerns
  <2> QED
    BY <2>3, <2>4
<1> QED
  BY <1>1, <1>4, <1>7, <1>8, <1>9, <1>11, <1>12, WorkerStep

LEMMA AnnounceStep ==
  ASSUME IInv, NEW w \in Workers, Announce(w)
  PROVE  /\ IInv' /\ queue \subseteq queue'
         /\ \E b \in stored : announced' = announced \cup {Ready(b)}
<1>1. PICK e \in worker[w].todo : Publish(w, e)
  BY DEF Announce
<1>2. PICK b \in stored : e = Ready(b)
  BY DEF IInv, Knows
<1>3. /\ UNCHANGED progress /\ UNCHANGED settingVars /\ UNCHANGED <<briefVars, inboxVars>>
  BY DEF Announce
<1>4. /\ QueueInv' /\ OthersRest(w) /\ In(w, "publish")
      /\ worker'[w].pc = IF worker[w].todo = {e} THEN "settle" ELSE "publish"
      /\ worker'[w].todo = worker[w].todo \ {e}
      /\ worker'[w].event = worker[w].event
      /\ announced' = announced \cup {e} /\ queue \subseteq queue'
  BY <1>1, Publishing DEF IInv
<1>5. RowsInv' /\ stored \subseteq stored' /\ announced \subseteq announced'
  <2>1. \A c : Ready(c) \in announced' => Ready(c) \in announced \/ c = b
    BY <1>2, <1>4, EventsAre
  <2>2. UNCHANGED <<stored, acted, alerts, read, digests>>
    BY <1>3 DEF briefVars, inboxVars
  <2> QED
    BY <1>4, <2>1, <2>2 DEF IInv, RowsInv, Addressees
<1>6. worker'[w].pc # "work"
  BY <1>4
<1>7. Knows(w)'
  BY <1>3, <1>4, <1>5, <1>6 DEF IInv, Knows, Working, In
<1>8. Owes(w)'
  <2> SUFFICES ASSUME ~Shielded, Type(w) = "INTELLIGENCE_SYNTHESIZED"
               PROVE  Owes(w)'
    BY <1>4, <1>6 DEF Owes, Working, In, Type
  <2> DEFINE o == Subject(w)
  <2>1. \A t \in Due(o) : \A r \in Owed(t) :
          \E c \in Briefs : /\ Concerns(c, o, t, r)
                            /\ Ready(c) \in announced \cup worker[w].todo
    BY <1>4 DEF IInv, Owes
  <2>2. announced \cup worker[w].todo \subseteq announced' \cup worker'[w].todo
    BY <1>4
  <2>3. \A t \in Due(o) : \A r \in Owed(t) :
          \E c \in Briefs : /\ Concerns(c, o, t, r)
                            /\ Ready(c) \in announced' \cup worker'[w].todo
    BY <2>1, <2>2
  <2>4. CASE worker[w].todo = {e}
    <3>1. worker'[w].todo = {}
      BY <1>4, <2>4
    <3>2. \A t \in Due(o) : \A r \in Owed(t) :
            \E c \in Briefs : Concerns(c, o, t, r) /\ Ready(c) \in announced'
      BY <2>3, <3>1
    <3>3. AllBriefed(o)'
      BY <1>4, <3>2 DEF AllBriefed, Briefed, Due, Owed, Concerns, Subject
    <3> QED
      BY <1>4, <1>6, <2>4, <3>3 DEF Owes, Working, In, Subject
  <2>5. CASE worker[w].todo # {e}
    <3>1. worker'[w].pc = "publish"
      BY <1>4, <2>5
    <3> QED
      BY <1>4, <2>3, <3>1 DEF Owes, Working, In, Subject, Due, Owed, Concerns
  <2> QED
    BY <2>4, <2>5
<1> QED
  BY <1>2, <1>3, <1>4, <1>5, <1>7, <1>8, WorkerStep DEF OthersPause, IInv

(***************************************************************************)
(* The delivery task                                                       *)
(***************************************************************************)
LEMMA AddresseesAre ==
  ASSUME NEW b \in Briefs
  PROVE  /\ Addressees(b) \subseteq Users
         /\ Recipients(b) \subseteq Addressees(b)
<1>1. Staff[b.tenant] \subseteq Users /\ b.reader \in Staff[b.tenant] \cup {Company}
  BY BriefsAssumption DEF Briefs
<1> QED
  BY <1>1 DEF Addressees, Recipients

\* A delivery that keeps to the addressees.
LEMMA DeliveryStep ==
  ASSUME IInv, NEW w \in Workers, NEW p \in ProgressState, Advance(w, p),
         Type(w) = "DECISION_BRIEF_READY", ~In(w, "idle"), p.ready = {},
         p.rows \in Seq(Addressees(Subject(w))),
         \A x \in p.written : x[1] \in Addressees(Subject(w)),
         QueueInv', OthersRest(w), worker'[w].todo = worker[w].todo,
         worker'[w].event = worker[w].event, UNCHANGED announced,
         UNCHANGED settingVars, RowsInv', UNCHANGED stored
  PROVE  IInv'
<1>1. /\ progress' \in [Workers -> ProgressState] /\ progress'[w] = p
      /\ OthersPause(w)
  BY Advancing DEF IInv
<1>2. Knows(w)'
  BY <1>1 DEF IInv, Knows, Type, Subject, Addressees
<1>3. Owes(w)'
  BY DEF Owes, Working, Type
<1> QED
  BY <1>1, <1>2, <1>3, WorkerStep

LEMMA BeginDeliveryStep ==
  ASSUME IInv, NEW w \in Workers, BeginDelivery(w)
  PROVE  IInv' /\ UNCHANGED <<queue, announced>>
<1> DEFINE S == IF Subject(w) \in stored THEN Recipients(Subject(w)) ELSE {}
<1>1. /\ Type(w) = "DECISION_BRIEF_READY" /\ In(w, "load") /\ ~In(w, "idle")
      /\ Proceed(w) /\ UNCHANGED settingVars /\ UNCHANGED <<briefVars, inboxVars>>
  BY DEF BeginDelivery, Loading, In
<1>2. PICK rows \in SetToSeqs(S) : Advance(w, [Blank EXCEPT !.rows = rows])
  BY DEF BeginDelivery
<1>3. Subject(w) \in Briefs
  BY <1>1, AtWork
<1>4. rows \in Seq(Addressees(Subject(w))) /\ rows \in Seq(Users)
  <2>1. S \subseteq Addressees(Subject(w)) /\ Addressees(Subject(w)) \subseteq Users
    BY <1>3, AddresseesAre
  <2> HIDE DEF S
  <2>2. S \subseteq Users
    BY <2>1
  <2> QED
    BY <2>1, <2>2, OrdersOfReaders
<1> DEFINE p == [Blank EXCEPT !.rows = rows]
<1>5. p \in ProgressState /\ p.rows = rows /\ p.ready = {} /\ p.written = {}
  BY <1>4, BlankIs DEF Blank, ProgressState
<1>6. Advance(w, p)
  BY <1>2
<1> HIDE DEF p
<1>7. /\ QueueInv' /\ OthersRest(w)
      /\ worker'[w].todo = worker[w].todo /\ worker'[w].event = worker[w].event
  BY <1>1, Proceeding DEF IInv
<1>8. UNCHANGED announced /\ UNCHANGED queue
  BY <1>1 DEF Proceed
<1>9. RowsInv' /\ UNCHANGED stored
  BY <1>1, <1>8, SameRows DEF IInv, briefVars
<1>10. p.rows \in Seq(Addressees(Subject(w)))
         /\ \A x \in p.written : x[1] \in Addressees(Subject(w))
  BY <1>4, <1>5
<1> QED
  BY ONLY IInv, <1>1, <1>5, <1>6, <1>7, <1>8, <1>9, <1>10, DeliveryStep

\* What the rows and the pairs written by a delivery under way are.
LEMMA WritingIs ==
  ASSUME IInv, NEW w \in Workers, Working(w, "DECISION_BRIEF_READY")
  PROVE  /\ progress[w] \in ProgressState
         /\ Subject(w) \in Briefs /\ Subject(w) \in stored
         /\ Ready(Subject(w)) \in announced
         /\ progress[w].rows \in Seq(Addressees(Subject(w)))
         /\ \A x \in progress[w].written : x[1] \in Addressees(Subject(w))
<1>1. ~In(w, "idle") /\ Type(w) = "DECISION_BRIEF_READY"
  BY DEF Working, In
<1>2. worker[w].event \in Events \cap announced
  BY <1>1, AtWork
<1>3. worker[w].event = Ready(Subject(w))
  BY <1>1, <1>2, EventIs DEF Type, Subject
<1>4. Subject(w) \in Briefs /\ Subject(w) \in stored
  BY <1>1, AtWork
<1> QED
  BY <1>2, <1>3, <1>4 DEF IInv, Knows

\* Within a delivery the queues rest.
LEMMA QueueRests ==
  ASSUME QueueInv, UNCHANGED <<queue, announced, deadLetters, worker, faults>>
  PROVE  /\ QueueInv'
         /\ \A w \in Workers : /\ OthersRest(w) /\ worker'[w].todo = worker[w].todo
                               /\ worker'[w].event = worker[w].event
BY DEF QueueInv, QueueTypeOK, Busy, In, Messages, WorkerState, OthersRest

LEMMA WriteRowStep ==
  ASSUME IInv, NEW w \in Workers, WriteRow(w)
  PROVE  IInv' /\ UNCHANGED <<queue, announced>>
<1> DEFINE rows == progress[w].rows
           p == [progress[w] EXCEPT !.rows = Tail(@),
                   !.written = @ \cup {<<Head(progress[w].rows), today>>}]
<1>1. /\ Working(w, "DECISION_BRIEF_READY") /\ rows # <<>> /\ Advance(w, p)
  BY DEF WriteRow, Writing
<1>2. /\ UNCHANGED <<queue, announced, deadLetters, worker, faults>>
      /\ UNCHANGED settingVars /\ UNCHANGED <<briefVars, inboxVars>>
  BY DEF WriteRow, queueVars
<1>3. /\ progress[w] \in ProgressState
      /\ rows \in Seq(Addressees(Subject(w)))
      /\ \A x \in progress[w].written : x[1] \in Addressees(Subject(w))
  BY <1>1, WritingIs
<1>4. rows \in Seq(Users) /\ progress[w].written \subseteq Users \X (0..MaxMoves)
  BY <1>3 DEF ProgressState
<1>5. /\ Tail(rows) \in Seq(Users) /\ Tail(rows) \in Seq(Addressees(Subject(w)))
      /\ Head(rows) \in Users /\ Head(rows) \in Addressees(Subject(w))
  BY <1>1, <1>3, <1>4
<1>6. today \in 0..MaxMoves
  BY DEF IInv, SettingsInv
<1>7. /\ p.rows = Tail(rows)
      /\ p.written = progress[w].written \cup {<<Head(rows), today>>}
      /\ p.ready = progress[w].ready
  BY <1>3 DEF ProgressState
<1>8. p \in ProgressState
  <2>1. progress[w].written \cup {<<Head(rows), today>>}
          \subseteq Users \X (0..MaxMoves)
    BY <1>4, <1>5, <1>6
  <2> QED
    BY <1>3, <1>5, <2>1 DEF ProgressState
<1>9. \A x \in p.written : x[1] \in Addressees(Subject(w))
  BY <1>3, <1>5, <1>7
<1> HIDE DEF p
<1>10. RowsInv' /\ stored \subseteq stored' /\ announced \subseteq announced'
  BY <1>2, SameRows DEF IInv
<1>11. QueueInv' /\ OthersRest(w)
  BY <1>2, QueueRests DEF IInv
<1>12. /\ progress' \in [Workers -> ProgressState] /\ progress'[w] = p
       /\ OthersPause(w)
  BY ONLY IInv, <1>1, <1>8, Advancing DEF IInv
<1>13. Knows(w)'
  BY <1>1, <1>2, <1>5, <1>7, <1>9, <1>10, <1>12
     DEF IInv, Knows, Working, In, Type, Subject, Addressees
<1>14. Owes(w)'
  BY <1>1, <1>2 DEF Owes, Working, In, Type
<1> QED
  BY <1>2, <1>10, <1>11, <1>12, <1>13, <1>14, WorkerStep

LEMMA CommitDeliveryStep ==
  ASSUME IInv, NEW w \in Workers, CommitDelivery(w)
  PROVE  /\ IInv' /\ UNCHANGED <<queue, announced, stored, read>>
         /\ Ready(Subject(w)) \in announced
         /\ \E written : /\ \A x \in written : x[1] \in Addressees(Subject(w))
                         /\ alerts' = alerts \cup {<<Subject(w), x[1]>> : x \in written}
                         /\ digests' = digests \cup
                              {<<x[1], x[2], Subject(w)>> : x \in written}
<1> DEFINE b == Subject(w)
           p == [progress[w] EXCEPT !.written = {}, !.done = TRUE]
<1>1. PICK written : /\ written = progress[w].written
                     /\ alerts' = alerts \cup {<<b, x[1]>> : x \in written}
                     /\ digests' = digests \cup {<<x[1], x[2], b>> : x \in written}
  BY DEF CommitDelivery
<1>2. /\ Working(w, "DECISION_BRIEF_READY") /\ Advance(w, p)
      /\ UNCHANGED <<queue, announced, deadLetters, worker, faults>>
      /\ UNCHANGED settingVars /\ UNCHANGED <<stored, acted>> /\ UNCHANGED read
  BY DEF CommitDelivery, Writing, queueVars, briefVars
<1>3. /\ progress[w] \in ProgressState /\ b \in Briefs /\ b \in stored
      /\ Ready(b) \in announced
      /\ progress[w].rows \in Seq(Addressees(b))
      /\ \A x \in written : x[1] \in Addressees(b)
  BY <1>1, <1>2, WritingIs
<1>4. written \subseteq Users \X (0..MaxMoves)
  BY <1>1, <1>3 DEF ProgressState
<1>5. /\ p \in ProgressState /\ p.rows = progress[w].rows /\ p.written = {}
      /\ p.ready = progress[w].ready
  BY <1>3 DEF ProgressState
<1> HIDE DEF p
<1>6. RowsInv'
  <2>1. \A a \in alerts' : a[1] \in stored /\ a[2] \in Addressees(a[1])
    BY <1>1, <1>3 DEF IInv, RowsInv
  <2>2. digests' \subseteq Users \X (0..MaxMoves) \X Briefs
    <3>1. digests \subseteq Users \X (0..MaxMoves) \X Briefs
      BY DEF IInv, RowsInv
    <3> QED
      BY <1>1, <1>3, <1>4, <3>1
  <2> QED
    BY <1>1, <1>2, <2>1, <2>2 DEF IInv, RowsInv, Addressees
<1>7. QueueInv' /\ OthersRest(w)
  BY <1>2, QueueRests DEF IInv
<1>8. /\ progress' \in [Workers -> ProgressState] /\ progress'[w] = p
      /\ OthersPause(w)
  BY <1>2, <1>5, Advancing DEF IInv
<1>9. Knows(w)'
  BY <1>2, <1>3, <1>5, <1>8 DEF IInv, Knows, Working, In, Type, Subject, Addressees
<1>10. Owes(w)'
  BY <1>2 DEF Owes, Working, In, Type
<1>11. IInv'
  BY <1>2, <1>6, <1>7, <1>8, <1>9, <1>10, WorkerStep
<1> QED
  BY <1>1, <1>2, <1>3, <1>11

LEMMA NotifyStep ==
  ASSUME IInv, NEW w \in Workers, Notify(w)
  PROVE  IInv' /\ UNCHANGED <<queue, announced>>
<1>1. /\ Working(w, "DECISION_BRIEF_READY") /\ Commit(w, {}) /\ Advance(w, Blank)
      /\ UNCHANGED settingVars /\ UNCHANGED <<briefVars, inboxVars>>
  BY DEF Notify
<1>2. UNCHANGED <<queue, announced>>
  BY <1>1 DEF Commit
<1>3. /\ QueueInv' /\ OthersRest(w) /\ worker'[w].todo = {}
      /\ worker'[w].pc = "settle" /\ worker'[w].event = worker[w].event
  BY <1>1, Committing DEF IInv
<1>4. RowsInv' /\ stored \subseteq stored' /\ announced \subseteq announced'
  BY <1>1, <1>2, SameRows DEF IInv
<1>5. /\ progress' \in [Workers -> ProgressState] /\ progress'[w] = Blank
      /\ OthersPause(w)
  BY <1>1, BlankIs, Advancing DEF IInv
<1>6. Knows(w)'
  BY <1>3, <1>5, BlankIs DEF Knows, Working, In
<1>7. Owes(w)'
  BY <1>1, <1>3 DEF Owes, Working, In, Type
<1> QED
  BY <1>1, <1>2, <1>3, <1>4, <1>5, <1>6, <1>7, WorkerStep

LEMMA BreakDeadlockStep ==
  ASSUME IInv, NEW w \in Workers, BreakDeadlock(w)
  PROVE  IInv' /\ UNCHANGED <<queue, announced>>
<1> DEFINE s == [worker[w] EXCEPT !.pc = "settle", !.outcome = "leave"]
<1>1. Advance(w, Blank) /\ worker' = [worker EXCEPT ![w] = s]
  BY DEF BreakDeadlock
<1>2. /\ UNCHANGED <<queue, announced, deadLetters, faults>>
      /\ UNCHANGED settingVars /\ UNCHANGED <<briefVars, inboxVars>>
  BY DEF BreakDeadlock
<1>3. ~In(w, "idle")
  BY DEF BreakDeadlock, Deadlocked, HoldsUp, Writing, Working, In
<1>4. worker[w] \in WorkerState
  BY <1>3, AtWork
<1>5. /\ s \in WorkerState /\ s.pc = "settle" /\ s.outcome = "leave"
      /\ s.event = worker[w].event /\ s.copy = worker[w].copy
      /\ s.todo = worker[w].todo
  BY <1>4 DEF WorkerState
<1> HIDE DEF s
<1>6. faults' \in 0..MaxFaults
  BY <1>2 DEF IInv, QueueInv, QueueTypeOK
<1>7. QueueInv' /\ OthersRest(w) /\ worker'[w] = s
  BY <1>1, <1>2, <1>3, <1>5, <1>6, Moving DEF IInv
<1>8. RowsInv' /\ stored \subseteq stored' /\ announced \subseteq announced'
  BY <1>2, SameRows DEF IInv
<1>9. /\ progress' \in [Workers -> ProgressState] /\ progress'[w] = Blank
      /\ OthersPause(w)
  BY <1>1, BlankIs, Advancing DEF IInv
<1>10. Knows(w)'
  BY <1>5, <1>7, <1>8, <1>9, BlankIs DEF IInv, Knows, Working, In
<1>11. Owes(w)'
  BY <1>5, <1>7, NothingOwedNext
<1> QED
  BY <1>2, <1>7, <1>8, <1>9, <1>10, <1>11, WorkerStep

LEMMA SettleStep ==
  ASSUME IInv, NEW w \in Workers, Settle(w),
         UNCHANGED <<progress, settingVars, briefVars, inboxVars>>
  PROVE  IInv' /\ UNCHANGED announced
<1>1. /\ UNCHANGED progress /\ UNCHANGED settingVars
      /\ UNCHANGED <<briefVars, inboxVars>>
  OBVIOUS
<1>2. /\ QueueInv' /\ OthersRest(w) /\ worker'[w] = Resting /\ UNCHANGED announced
  BY Settling DEF IInv
<1>3. Resting.pc = "idle" /\ Resting.todo = {}
  BY DEF Resting
<1>4. RowsInv' /\ stored \subseteq stored' /\ announced \subseteq announced'
  BY <1>1, <1>2, SameRows DEF IInv
<1>5. Knows(w)'
  BY <1>1, <1>2, <1>3, <1>4 DEF IInv, Knows, Working, In
<1>6. Owes(w)'
  BY <1>2, <1>3, NothingOwedNext
<1> QED
  BY <1>1, <1>2, <1>4, <1>5, <1>6, WorkerStep DEF OthersPause, IInv

(***************************************************************************)
(* Edits, acts and midnights                                               *)
(***************************************************************************)
Editing ==
  \/ \E t \in Tenants : EditProfile(t)
  \/ \E u \in Users : EditLens(u) \/ EditPreferences(u)
  \/ \E b \in stored : Act(b)
  \/ \E a \in alerts : Read(a)
  \/ Midnight

LEMMA MovingOn ==
  ASSUME IInv, Move
  PROVE  /\ UNCHANGED <<queue, announced, deadLetters, worker, faults>>
         /\ UNCHANGED <<progress, stored, alerts, digests>>
         /\ moves' = moves + 1 /\ moves' \in 0..MaxMoves /\ moves' \in Nat
         /\ moves \in Nat /\ MaxMoves \in Nat
BY BriefsAssumption DEF Move, queueVars, IInv, SettingsInv

LEMMA EditStep ==
  ASSUME IInv, Editing
  PROVE  /\ IInv' /\ UNCHANGED <<queue, announced, stored, alerts, digests>>
         /\ acted \subseteq acted' /\ read \subseteq read'
<1>1. Move
  BY DEF Editing, EditProfile, EditLens, EditPreferences, Act, Read, Midnight
<1>2. /\ UNCHANGED <<queue, announced, deadLetters, worker, faults>>
      /\ UNCHANGED <<progress, stored, alerts, digests>>
      /\ moves' = moves + 1 /\ moves' \in 0..MaxMoves /\ moves' \in Nat
      /\ moves \in Nat /\ MaxMoves \in Nat
  BY <1>1, MovingOn
<1>3. SettingsInv /\ RowsInv
  BY DEF IInv
<1>4. ASSUME NEW t \in Tenants, EditProfile(t)
      PROVE  SettingsInv' /\ UNCHANGED <<acted, read>>
  <2>1. /\ context' = [context EXCEPT ![t] = @ + 1]
        /\ UNCHANGED <<lens, role, muted, today, acted, read>>
    BY <1>4 DEF EditProfile
  <2>2. context' \in [Tenants -> Versions \cup {0}]
    <3>1. context[t] + 1 \in Versions
      BY <1>2, <1>3 DEF SettingsInv, Versions
    <3> QED
      BY <1>3, <2>1, <3>1 DEF SettingsInv
  <2>3. ASSUME NEW s \in Tenants
        PROVE  /\ context'[s] <= moves' + 1
               /\ s \in Onboarded => context'[s] > 0
    <3>1. context[s] \in Nat /\ context'[s] = IF s = t THEN context[s] + 1 ELSE context[s]
      BY <1>3, <2>1 DEF SettingsInv, Versions
    <3> QED
      BY <1>2, <1>3, <3>1 DEF SettingsInv
  <2>4. \A u \in Users : lens[u] \in Nat
    BY <1>3 DEF SettingsInv, Versions
  <2> QED
    BY <1>2, <1>3, <2>1, <2>2, <2>3, <2>4 DEF SettingsInv
<1>5. ASSUME NEW u \in Users, EditLens(u)
      PROVE  SettingsInv' /\ UNCHANGED <<acted, read>>
  <2>1. /\ lens' = [lens EXCEPT ![u] = @ + 1]
        /\ UNCHANGED <<context, muted, today, acted, read>>
    BY <1>5 DEF EditLens
  <2>0. role' \in [Users -> Roles \cup {NoEvent}]
    BY <1>3, <1>5 DEF EditLens, SettingsInv
  <2>2. lens' \in [Users -> Versions \cup {0}]
    <3>1. lens[u] + 1 \in Versions
      BY <1>2, <1>3 DEF SettingsInv, Versions
    <3> QED
      BY <1>3, <2>1, <3>1 DEF SettingsInv
  <2>3. ASSUME NEW v \in Users
        PROVE  /\ lens'[v] <= moves' + 1
               /\ v \in Focused => lens'[v] > 0
    <3>1. lens[v] \in Nat /\ lens'[v] = IF v = u THEN lens[v] + 1 ELSE lens[v]
      BY <1>3, <2>1 DEF SettingsInv, Versions
    <3> QED
      BY <1>2, <1>3, <3>1 DEF SettingsInv
  <2>4. \A t \in Tenants : context[t] \in Nat
    BY <1>3 DEF SettingsInv, Versions
  <2> QED
    BY <1>2, <1>3, <2>0, <2>1, <2>2, <2>3, <2>4 DEF SettingsInv
\* The versions are as before, and there is one move more.
<1>6. ASSUME UNCHANGED <<context, lens, role>>, muted' \subseteq Users,
             today' \in 0..(today + 1)
      PROVE  SettingsInv'
  <2>1. \A t \in Tenants : context[t] \in Nat
    BY <1>3 DEF SettingsInv, Versions
  <2>2. \A u \in Users : lens[u] \in Nat
    BY <1>3 DEF SettingsInv, Versions
  <2> QED
    BY <1>2, <1>3, <1>6, <2>1, <2>2 DEF SettingsInv
<1>7. today \in Nat /\ muted \subseteq Users
  BY <1>3 DEF SettingsInv
<1>8. ASSUME NEW u \in Users, EditPreferences(u)
      PROVE  SettingsInv' /\ UNCHANGED <<acted, read>>
  BY <1>6, <1>7, <1>8 DEF EditPreferences
<1>9. ASSUME NEW b \in stored, Act(b)
      PROVE  SettingsInv' /\ acted' = acted \cup {b} /\ UNCHANGED read
  BY <1>6, <1>7, <1>9 DEF Act
<1>10. ASSUME NEW a \in alerts, Read(a)
       PROVE  SettingsInv' /\ read' = read \cup {a} /\ UNCHANGED acted
  BY <1>6, <1>7, <1>10 DEF Read
<1>11. ASSUME Midnight
       PROVE  SettingsInv' /\ UNCHANGED <<acted, read>>
  BY <1>6, <1>7, <1>11 DEF Midnight
<1>12. /\ SettingsInv' /\ acted \subseteq acted' /\ read \subseteq read'
       /\ acted' \subseteq acted \cup stored /\ read' \subseteq read \cup alerts
  BY <1>4, <1>5, <1>8, <1>9, <1>10, <1>11 DEF Editing
<1>13. RowsInv'
  BY <1>2, <1>3, <1>12 DEF RowsInv, Addressees
<1>14. QueueInv'
  BY <1>2, QueueRests DEF IInv
<1> QED
  BY <1>2, <1>12, <1>13, <1>14, OutsideStep

(***************************************************************************)
(* Every step                                                              *)
(***************************************************************************)
\* The message of an output is not lost before all it is due to are briefed.
Conserves ==
  ~Shielded =>
    \A o \in Outputs :
      HasMessage(Synthesized(o)) =>
        \/ HasMessage(Synthesized(o))'
        \/ Synthesized(o) \in deadLetters'
        \/ AllBriefed(o)

LEMMA MessagesStay ==
  ASSUME queue \subseteq queue'
  PROVE  Conserves
BY DEF Conserves, HasMessage

LEMMA SettleConserves ==
  ASSUME IInv, NEW w \in Workers, Settle(w)
  PROVE  Conserves
<1> SUFFICES ASSUME ~Shielded, NEW o \in Outputs, HasMessage(Synthesized(o)),
                    ~HasMessage(Synthesized(o))'
             PROVE  AllBriefed(o)
  BY DEF Conserves
<1>1. /\ In(w, "settle") /\ worker[w].outcome = "ack"
      /\ Synthesized(o) = worker[w].event
  BY Settling DEF IInv
<1>2. Type(w) = "INTELLIGENCE_SYNTHESIZED" /\ Subject(w) = o
  BY <1>1, EventsAre DEF Type, Subject
<1> QED
  BY <1>1, <1>2 DEF IInv, Owes

\* The briefs that are announced, and what digests list.
Told == {e.of : e \in {f \in announced : f.type = "DECISION_BRIEF_READY"}}

Listed == {<<d[3], d[1]>> : d \in digests}

\* What a step does to rows that others read: briefs are stored, one of them is
\* announced, or one is handed to some of its readers.
Stores ==
  /\ stored \subseteq stored' /\ stored' \subseteq Briefs
  /\ UNCHANGED <<alerts, digests>>
  /\ \A b \in Briefs : Ready(b) \in announced' <=> Ready(b) \in announced

Tells ==
  /\ UNCHANGED <<stored, alerts, digests>>
  /\ \E b \in stored : announced' = announced \cup {Ready(b)}

Hands ==
  /\ UNCHANGED <<stored, announced>>
  /\ \E b \in Briefs : \E written :
       /\ Ready(b) \in announced
       /\ \A x \in written : x[1] \in Addressees(b)
       /\ alerts' = alerts \cup {<<b, x[1]>> : x \in written}
       /\ digests' = digests \cup {<<x[1], x[2], b>> : x \in written}

Goes ==
  /\ IInv' /\ Conserves
  /\ Stores \/ Tells \/ Hands
  /\ acted \subseteq acted' /\ read \subseteq read'

\* Nothing is said, stored or handed out.
LEMMA SilentStep ==
  ASSUME IInv, IInv', Conserves, UNCHANGED announced,
         UNCHANGED <<briefVars, inboxVars>>
  PROVE  Goes
<1>1. UNCHANGED <<stored, acted, alerts, read, digests>>
  BY DEF briefVars, inboxVars
<1>2. stored' \subseteq Briefs
  BY DEF IInv, RowsInv
<1>3. Stores
  BY <1>1, <1>2 DEF Stores
<1> QED
  BY <1>1, <1>3 DEF Goes

LEMMA TaskStep ==
  ASSUME IInv, NEW w \in Workers, Task(w)
  PROVE  Goes
<1>1. CASE BeginRun(w)
  <2>1. IInv' /\ UNCHANGED <<queue, announced>> /\ UNCHANGED <<briefVars, inboxVars>>
    BY <1>1, BeginRunStep DEF BeginRun, Proceed
  <2> QED
    BY <2>1, MessagesStay, SilentStep
<1>2. CASE LoadPackage(w)
  <2>1. IInv' /\ UNCHANGED <<queue, announced>> /\ UNCHANGED <<briefVars, inboxVars>>
    BY <1>2, LoadPackageStep DEF LoadPackage
  <2> QED
    BY <2>1, MessagesStay, SilentStep
<1>3. CASE Assess(w)
  <2>1. IInv' /\ UNCHANGED <<queue, announced, inboxVars>>
    BY <1>3, AssessStep
  <2>2. UNCHANGED acted /\ stored \subseteq stored'
    BY <1>3 DEF Assess
  <2>3. stored' \subseteq Briefs
    BY <2>1 DEF IInv, RowsInv
  <2>4. UNCHANGED <<alerts, read, digests>>
    BY <2>1 DEF inboxVars
  <2> QED
    BY <2>1, <2>2, <2>3, <2>4, MessagesStay DEF Goes, Stores
<1>4. CASE EndRun(w)
  <2>1. IInv' /\ UNCHANGED <<queue, announced>> /\ UNCHANGED <<briefVars, inboxVars>>
    BY <1>4, EndRunStep DEF EndRun
  <2> QED
    BY <2>1, MessagesStay, SilentStep
<1>5. CASE Announce(w)
  <2>1. /\ IInv' /\ queue \subseteq queue'
        /\ \E b \in stored : announced' = announced \cup {Ready(b)}
    BY <1>5, AnnounceStep
  <2>2. UNCHANGED <<stored, acted, alerts, read, digests>>
    BY <1>5 DEF Announce, briefVars, inboxVars
  <2> QED
    BY <2>1, <2>2, MessagesStay DEF Goes, Tells
<1>6. CASE BeginDelivery(w)
  <2>1. IInv' /\ UNCHANGED <<queue, announced>> /\ UNCHANGED <<briefVars, inboxVars>>
    BY <1>6, BeginDeliveryStep DEF BeginDelivery
  <2> QED
    BY <2>1, MessagesStay, SilentStep
<1>7. CASE WriteRow(w)
  <2>1. IInv' /\ UNCHANGED <<queue, announced>> /\ UNCHANGED <<briefVars, inboxVars>>
    BY <1>7, WriteRowStep DEF WriteRow
  <2> QED
    BY <2>1, MessagesStay, SilentStep
<1>8. CASE CommitDelivery(w)
  <2>1. Working(w, "DECISION_BRIEF_READY")
    BY <1>8 DEF CommitDelivery, Writing
  <2>2. Subject(w) \in Briefs
    BY <2>1, WritingIs
  <2>3. UNCHANGED acted
    BY <1>8 DEF CommitDelivery, briefVars
  <2> QED
    BY <1>8, <2>2, <2>3, CommitDeliveryStep, MessagesStay DEF Goes, Hands
<1>9. CASE Notify(w)
  <2>1. IInv' /\ UNCHANGED <<queue, announced>> /\ UNCHANGED <<briefVars, inboxVars>>
    BY <1>9, NotifyStep DEF Notify
  <2> QED
    BY <2>1, MessagesStay, SilentStep
<1>10. CASE BreakDeadlock(w)
  <2>1. IInv' /\ UNCHANGED <<queue, announced>> /\ UNCHANGED <<briefVars, inboxVars>>
    BY <1>10, BreakDeadlockStep DEF BreakDeadlock
  <2> QED
    BY <2>1, MessagesStay, SilentStep
<1>11. CASE Settle(w) /\ UNCHANGED <<progress, settingVars, briefVars, inboxVars>>
  BY <1>11, SettleStep, SettleConserves, SilentStep
<1> QED
  BY <1>1, <1>2, <1>3, <1>4, <1>5, <1>6, <1>7, <1>8, <1>9, <1>10, <1>11 DEF Task

LEMMA EveryStep ==
  ASSUME IInv, Next
  PROVE  Goes
<1>1. ASSUME NEW o \in Outputs, Arrive(o)
      PROVE  Goes
  <2>1. /\ IInv' /\ announced' = announced \cup {Synthesized(o)}
        /\ queue \subseteq queue'
    BY <1>1, ArriveStep
  <2>2. UNCHANGED <<stored, acted, alerts, read, digests>>
    BY <1>1 DEF Arrive, briefVars, inboxVars
  <2>3. \A b : Ready(b) # Synthesized(o)
    BY EventsAre
  <2>4. stored' \subseteq Briefs
    BY <2>1 DEF IInv, RowsInv
  <2> QED
    BY <2>1, <2>2, <2>3, <2>4, MessagesStay DEF Goes, Stores
<1>2. ASSUME NEW q \in Queues, Deliver(q)
      PROVE  Goes
  <2>1. PICK w \in Workers, m \in queue : Receive(w, m)
    BY <1>2 DEF Deliver
  <2>2. UNCHANGED announced /\ \A e : HasMessage(e) => HasMessage(e)'
    BY <2>1, Receiving DEF IInv
  <2>3. Conserves
    BY <2>2 DEF Conserves
  <2>4. UNCHANGED <<briefVars, inboxVars>>
    BY <1>2 DEF Deliver
  <2> QED
    BY <1>2, <2>2, <2>3, <2>4, DeliverStep, SilentStep
<1>3. ASSUME Redrive
      PROVE  Goes
  <2>1. PICK m \in queue : DeadLetter(m)
    BY <1>3 DEF Redrive
  <2>2. \A e : HasMessage(e) => HasMessage(e)' \/ e \in deadLetters'
    BY <2>1, Redriving DEF IInv
  <2>3. Conserves
    BY <2>2 DEF Conserves
  <2>4. UNCHANGED <<briefVars, inboxVars>>
    BY <1>3 DEF Redrive
  <2> QED
    BY <1>3, <2>3, <2>4, RedriveStep, SilentStep
<1>4. ASSUME NEW w \in Workers, TaskFails(w)
      PROVE  Goes
  <2>1. UNCHANGED <<briefVars, inboxVars>>
    BY <1>4 DEF TaskFails
  <2> QED
    BY <1>4, <2>1, FailStep, MessagesStay, SilentStep
<1>5. ASSUME Editing
      PROVE  Goes
  <2>1. /\ IInv' /\ UNCHANGED <<queue, announced, stored, alerts, digests>>
        /\ acted \subseteq acted' /\ read \subseteq read'
    BY <1>5, EditStep
  <2>2. stored' \subseteq Briefs
    BY <2>1 DEF IInv, RowsInv
  <2> QED
    BY <2>1, <2>2, MessagesStay DEF Goes, Stores
<1> QED
  BY <1>1, <1>2, <1>3, <1>4, <1>5, TaskStep DEF Next, Editing

LEMMA StutteringStep ==
  ASSUME IInv, UNCHANGED vars
  PROVE  IInv'
<1>1. /\ UNCHANGED <<queue, announced, deadLetters, worker, faults>>
      /\ UNCHANGED <<progress, worker>> /\ UNCHANGED settingVars
      /\ UNCHANGED <<briefVars, inboxVars>>
  BY DEF vars, queueVars
<1>2. RowsInv' /\ stored \subseteq stored' /\ announced \subseteq announced'
  BY <1>1, SameRows DEF IInv
<1>3. SettingsInv'
  BY <1>1 DEF IInv, SettingsInv, settingVars
<1>4. QueueInv'
  BY <1>1, QueueRests DEF IInv
<1> QED
  BY <1>1, <1>2, <1>3, <1>4, OutsideStep

(***************************************************************************)
(* The theorems                                                            *)
(***************************************************************************)
\* The inductive invariant: what is announced is stored, deliveries keep to the
\* addressees of their brief, and a decision task still has to visit, or has stored
\* and will announce, whatever its output is due to.
THEOREM Invariance == Spec => []IInv
<1>1. Init => IInv
  BY InitIInv
<1>2. IInv /\ [Next]_vars => IInv'
  BY EveryStep, StutteringStep DEF Goes
<1> QED
  BY <1>1, <1>2, PTL DEF Spec

\* Every variable keeps to its type; only stored briefs are acted on, and an alert
\* is of a stored brief and its addressee's.
THEOREM TypeCorrectness == Spec => []TypeOK
<1>1. IInv => TypeOK
  BY DEF IInv, QueueInv, SettingsInv, RowsInv, ProgressState, TypeOK
<1> QED
  BY <1>1, Invariance, PTL

\* No redelivery opens a brief again or makes an alert unread: the upserts of
\* decisions.py and alerts.py leave brief_status and read_at alone.
THEOREM MemoryIsKept == Spec => KeepsMemory
<1>1. IInv /\ [Next]_vars =>
        [acted \subseteq acted' /\ read \subseteq read']_vars
  BY EveryStep DEF Goes
<1> QED
  BY <1>1, Invariance, PTL DEF Spec, KeepsMemory

\* Where row-level security does not apply to the role of the database session,
\* the message of an output is acknowledged only when a brief is announced for all
\* companies and users it is due to, whatever crashes, raises or is edited.
THEOREM DueAreBriefed ==
  ASSUME ~Shielded
  PROVE  Spec => DueBriefed
<1>1. IInv /\ [Next]_vars =>
        [\A o \in Outputs :
           HasMessage(Synthesized(o)) =>
             \/ HasMessage(Synthesized(o))'
             \/ Synthesized(o) \in deadLetters'
             \/ \A t \in Due(o) : \A r \in {Company} \cup (Staff[t] \cap Focused) :
                   Briefed(o, t, r)]_vars
  <2> SUFFICES ASSUME IInv, Next, NEW o \in Outputs, HasMessage(Synthesized(o))
               PROVE  \/ HasMessage(Synthesized(o))'
                      \/ Synthesized(o) \in deadLetters'
                      \/ AllBriefed(o)
    BY DEF AllBriefed, Owed
  <2>1. Conserves
    BY EveryStep DEF Goes
  <2> QED
    BY <2>1 DEF Conserves
<1> QED
  BY <1>1, Invariance, PTL DEF Spec, DueBriefed

(***************************************************************************)
(* Nothing that is announced is forgotten                                  *)
(***************************************************************************)
\* Sending an event leaves a message of it: a copy no other message has, or
\* all of them are taken.
LEMMA SentIsQueued ==
  ASSUME NEW e \in Events, Send(e)
  PROVE  HasMessage(e)'
<1>1. CASE FreeCopies(e) = {}
  <2>1. 1 \in 1..MaxCopies
    OBVIOUS
  <2>2. HasMessage(e)
    BY <1>1, <2>1 DEF FreeCopies, HasMessage
  <2> QED
    BY <2>2 DEF Send, HasMessage
<1>2. CASE FreeCopies(e) # {}
  <2>1. IsWellFoundedOn(Less, Nat)
    BY NatLessThanWellFounded DEF OpToRel, Less
  <2>2. FreeCopies(e) \subseteq Nat
    BY DEF FreeCopies
  <2>3. PICK c \in FreeCopies(e) : \A d \in FreeCopies(e) : <<d, c>> \notin Less
    BY <1>2, <2>1, <2>2, WFMin
  <2>4. ASSUME NEW d \in FreeCopies(e)
        PROVE  c <= d
    <3>1. d < c => <<d, c>> \in Less
      BY <2>2 DEF Less
    <3> QED
      BY <2>2, <2>3, <3>1
  <2>5. [event |-> e, copy |-> c, receives |-> 0, attempt |-> 0] \in queue'
    BY <2>3, <2>4 DEF Send
  <2> QED
    BY <2>5 DEF HasMessage
<1> QED
  BY <1>1, <1>2

\* The last message of an event goes to the dead letters, or with the worker that
\* is done with it; and what is announced is sent.
Remains ==
  /\ announced \subseteq announced' /\ deadLetters \subseteq deadLetters'
  /\ \A e : HasMessage(e) =>
       \/ HasMessage(e)' \/ e \in deadLetters'
       \/ \E w \in Workers : /\ In(w, "settle") /\ worker[w].outcome = "ack"
                             /\ e = worker[w].event
  /\ \A e \in announced' : e \in announced \/ Send(e)

LEMMA MessagesRemain ==
  ASSUME queue \subseteq queue', UNCHANGED <<announced, deadLetters>>
  PROVE  Remains
BY DEF Remains, HasMessage

LEMMA SentRemain ==
  ASSUME NEW e, Send(e), UNCHANGED deadLetters
  PROVE  Remains
<1>1. queue \subseteq queue' /\ announced' = announced \cup {e}
  BY DEF Send
<1> QED
  BY <1>1 DEF Remains, HasMessage

LEMMA StepRemains ==
  ASSUME IInv, Next
  PROVE  Remains
<1>1. ASSUME NEW w \in Workers, Task(w)
      PROVE  Remains
  <2>1. CASE BeginRun(w) \/ BeginDelivery(w)
    BY <2>1, MessagesRemain DEF BeginRun, BeginDelivery, Proceed
  <2>2. CASE LoadPackage(w) \/ Assess(w) \/ WriteRow(w) \/ CommitDelivery(w)
    BY <2>2, MessagesRemain
       DEF LoadPackage, Assess, WriteRow, CommitDelivery, queueVars
  <2>3. CASE EndRun(w) \/ Notify(w)
    BY <2>3, MessagesRemain DEF EndRun, Notify, Commit
  <2>4. CASE Announce(w)
    BY <2>4, SentRemain DEF Announce, Publish
  <2>5. CASE BreakDeadlock(w)
    BY <2>5, MessagesRemain DEF BreakDeadlock
  <2>6. CASE Settle(w)
    BY <2>6, Settling DEF Remains, IInv
  <2> QED
    BY <1>1, <2>1, <2>2, <2>3, <2>4, <2>5, <2>6 DEF Task
<1>2. ASSUME NEW o \in Outputs, Arrive(o)
      PROVE  Remains
  BY <1>2, SentRemain DEF Arrive
<1>3. ASSUME NEW q \in Queues, Deliver(q)
      PROVE  Remains
  BY <1>3, Receiving DEF Deliver, Remains, IInv
<1>4. ASSUME Redrive
      PROVE  Remains
  <2>1. PICK m \in queue : DeadLetter(m)
    BY <1>4 DEF Redrive
  <2>2. deadLetters \subseteq deadLetters'
    BY <2>1 DEF DeadLetter
  <2> QED
    BY <2>1, <2>2, Redriving DEF Remains, IInv
<1>5. ASSUME NEW w \in Workers, TaskFails(w)
      PROVE  Remains
  BY <1>5, MessagesRemain DEF TaskFails, CallFails, CrashWorker
<1>6. ASSUME Editing
      PROVE  Remains
  <2>1. Move
    BY <1>6 DEF Editing, EditProfile, EditLens, EditPreferences, Act, Read, Midnight
  <2> QED
    BY <2>1, MovingOn, MessagesRemain
<1> QED
  BY <1>1, <1>2, <1>3, <1>4, <1>5, <1>6 DEF Next, Editing

LEMMA AlertsStay ==
  ASSUME IInv, Next
  PROVE  alerts \subseteq alerts'
BY EveryStep DEF Goes, Stores, Tells, Hands

\* An output that was announced is briefed to all it is due to, or one of its
\* messages can be found: however often it was sent, received, retried or refused.
THEOREM OutputsAreAccountedFor ==
  ASSUME ~Shielded
  PROVE  Spec => []OutputsAccountedFor
<1>1. OutputsAccountedFor <=>
        \A o \in Outputs : Synthesized(o) \in announced =>
          InHand(Synthesized(o)) \/ AllBriefed(o)
  BY DEF OutputsAccountedFor, AllBriefed, Owed
<1>2. OutputsAccountedFor' <=>
        \A o \in Outputs : Synthesized(o) \in announced' =>
          InHand(Synthesized(o))' \/ AllBriefed(o)'
  BY DEF OutputsAccountedFor, AllBriefed, Owed
<1>3. Init => OutputsAccountedFor
  BY DEF Init, QueueInit, OutputsAccountedFor
<1>4. ASSUME IInv, OutputsAccountedFor, Next,
             NEW o \in Outputs, Synthesized(o) \in announced'
      PROVE  InHand(Synthesized(o))' \/ AllBriefed(o)'
  <2>1. Remains /\ Conserves
    BY <1>4, StepRemains, EveryStep DEF Goes
  <2>2. CASE Synthesized(o) \notin announced
    <3>1. Synthesized(o) \in Events
      BY EventsAre
    <3> QED
      BY <1>4, <2>1, <2>2, <3>1, SentIsQueued DEF Remains, InHand
  <2>3. CASE AllBriefed(o)
    BY <2>1, <2>3, BriefedStays DEF Remains
  <2>4. CASE HasMessage(Synthesized(o))
    BY <2>1, <2>3, <2>4 DEF Conserves, InHand
  <2>5. CASE Synthesized(o) \in deadLetters
    BY <2>1, <2>5 DEF Remains, InHand
  <2> QED
    BY <1>1, <1>4, <2>2, <2>3, <2>4, <2>5 DEF InHand
<1>5. IInv /\ OutputsAccountedFor /\ [Next]_vars => OutputsAccountedFor'
  <2>1. ASSUME OutputsAccountedFor, UNCHANGED vars
        PROVE  OutputsAccountedFor'
    <3>1. UNCHANGED <<queue, announced, deadLetters>>
      BY <2>1 DEF vars, queueVars
    <3> QED
      BY <2>1, <3>1 DEF OutputsAccountedFor, InHand, HasMessage, Briefed, Due
  <2> QED
    BY <1>2, <1>4, <2>1
<1> QED
  BY <1>3, <1>5, Invariance, PTL DEF Spec

(***************************************************************************)
(* From a brief announced to the alerts of whoever stays its recipient     *)
(***************************************************************************)
Delivers(w, b) ==
  /\ Type(w) = "DECISION_BRIEF_READY"
  /\ Subject(w) = b

\* A delivery that owes user u an alert has still to write it, has written it and
\* not committed, or has committed it before it is done.
Serves(w, b, u) ==
  /\ In(w, "work") /\ Delivers(w, b) =>
       IF progress[w].done THEN <<b, u>> \in alerts
       ELSE \/ \E i \in DOMAIN progress[w].rows : progress[w].rows[i] = u
            \/ \E x \in progress[w].written : x[1] = u
  /\ In(w, "publish") /\ Delivers(w, b) => <<b, u>> \in alerts
  /\ In(w, "settle") /\ worker[w].outcome = "ack" /\ Delivers(w, b) =>
       <<b, u>> \in alerts

LEMMA ServesStays ==
  ASSUME NEW w \in Workers, NEW b, NEW u, Serves(w, b, u), worker'[w] = worker[w],
         progress'[w] = progress[w], alerts \subseteq alerts'
  PROVE  Serves(w, b, u)'
BY DEF Serves, Delivers, In, Type, Subject

\* An order of finitely many readers leaves none out.
LEMMA OrdersAreComplete ==
  ASSUME NEW S, S \subseteq Users, NEW rows \in SetToSeqs(S), NEW u \in S
  PROVE  \E i \in DOMAIN rows : rows[i] = u
<1> DEFINE D == 1..Cardinality(S)
<1>1. IsFiniteSet(S) /\ Cardinality(S) \in Nat
  BY BriefsAssumption, FS_CardinalityType, FS_Subset
<1>2. IsFiniteSet(D) /\ Cardinality(D) = Cardinality(S)
  BY <1>1, FS_Interval
<1>3. rows \in Injection(D, S)
  BY DEF SetToSeqs, Injection, IsInjective
<1>4. rows \in Surjection(D, S)
  BY <1>1, <1>2, <1>3, FS_Injection
<1> QED
  BY <1>4 DEF Surjection

\* A delivery starts with a row for everybody it owes an alert.
LEMMA BeginServes ==
  ASSUME IInv, NEW b \in Briefs, NEW u \in Recipients(b), NEW w \in Workers, BeginDelivery(w)
  PROVE  Serves(w, b, u)'
<1> SUFFICES ASSUME Subject(w) = b
             PROVE  Serves(w, b, u)'
  <2>1. worker'[w].pc = "work" /\ worker'[w].event = worker[w].event
    BY Proceeding DEF BeginDelivery, Loading, IInv
  <2> QED
    BY <2>1 DEF Serves, Delivers, In, Subject
<1> DEFINE S == IF b \in stored THEN Recipients(b) ELSE {}
<1>1. /\ Type(w) = "DECISION_BRIEF_READY" /\ In(w, "load") /\ ~In(w, "idle")
      /\ Proceed(w)
  BY DEF BeginDelivery, Loading, In
<1>2. PICK rows \in SetToSeqs(S) : Advance(w, [Blank EXCEPT !.rows = rows])
  BY DEF BeginDelivery
<1>3. b \in Briefs /\ b \in stored
  BY <1>1, AtWork
<1>4. S = Recipients(b) /\ S \subseteq Users
  BY <1>3, AddresseesAre
<1> HIDE DEF S
<1>5. rows \in Seq(Users)
  BY <1>4, OrdersOfReaders
<1> DEFINE p == [Blank EXCEPT !.rows = rows]
<1>6. p \in ProgressState /\ p.rows = rows /\ p.done = FALSE
  BY <1>5, BlankIs DEF Blank, ProgressState
<1>7. Advance(w, p)
  BY <1>2
<1> HIDE DEF p
<1>8. progress'[w] = p
  BY ONLY IInv, <1>6, <1>7, Advancing DEF IInv
<1>9. worker'[w].pc = "work" /\ worker'[w].event = worker[w].event
  BY <1>1, Proceeding DEF IInv
<1>10. \E i \in DOMAIN rows : rows[i] = u
  BY <1>4, OrdersAreComplete
<1> QED
  BY <1>6, <1>8, <1>9, <1>10 DEF Serves, In

\* A row written is written for whom it heads; the others are still to come.
LEMMA WriteServes ==
  ASSUME IInv, NEW b, NEW u, NEW w \in Workers, WriteRow(w), Serves(w, b, u)
  PROVE  Serves(w, b, u)'
<1> DEFINE rows == progress[w].rows
           p == [progress[w] EXCEPT !.rows = Tail(@),
                   !.written = @ \cup {<<Head(progress[w].rows), today>>}]
<1>1. /\ Working(w, "DECISION_BRIEF_READY") /\ ~progress[w].done
      /\ rows # <<>> /\ Advance(w, p)
      /\ UNCHANGED worker
  BY DEF WriteRow, Writing, queueVars
<1>2. progress[w] \in ProgressState /\ rows \in Seq(Addressees(Subject(w)))
  BY <1>1, WritingIs
<1>3. /\ p.rows = Tail(rows) /\ p.done = progress[w].done
      /\ p.written = progress[w].written \cup {<<Head(rows), today>>}
  BY <1>2 DEF ProgressState
<1>4. progress'[w] = p
  BY <1>1, <1>2 DEF Advance, IInv
<1> HIDE DEF p
<1>5. ASSUME NEW i \in DOMAIN rows, rows[i] = u
      PROVE  \/ \E j \in DOMAIN p.rows : p.rows[j] = u
             \/ \E x \in p.written : x[1] = u
  <2>1. rows # <<>> /\ i \in 1..Len(rows)
    BY <1>1, <1>2, <1>5
  <2>2. CASE i = 1
    <3>1. Head(rows) = u /\ <<Head(rows), today>>[1] = u
      BY <1>2, <1>5, <2>1, <2>2
    <3>2. <<Head(rows), today>> \in p.written
      BY <1>3
    <3> QED
      BY <3>1, <3>2
  <2>3. CASE i # 1
    <3>1. i - 1 \in DOMAIN Tail(rows) /\ Tail(rows)[i - 1] = rows[i]
      BY <1>2, <2>1, <2>3
    <3> QED
      BY <1>3, <1>5, <3>1
  <2> QED
    BY <2>2, <2>3
<1>6. Delivers(w, b)' => Delivers(w, b)
  BY <1>1 DEF Delivers, Type, Subject
<1>7. In(w, "work") /\ worker'[w].pc = "work"
  BY <1>1 DEF Working, In
<1> QED
  BY <1>1, <1>3, <1>4, <1>5, <1>6, <1>7 DEF Serves, In

\* A commit puts what was written into the alerts.
LEMMA CommitServes ==
  ASSUME IInv, NEW b, NEW u, NEW w \in Workers, CommitDelivery(w), Serves(w, b, u)
  PROVE  Serves(w, b, u)'
<1> DEFINE p == [progress[w] EXCEPT !.written = {}, !.done = TRUE]
<1>1. /\ Working(w, "DECISION_BRIEF_READY") /\ ~progress[w].done
      /\ progress[w].rows = <<>> /\ Advance(w, p)
      /\ alerts' = alerts \cup {<<Subject(w), x[1]>> : x \in progress[w].written}
      /\ UNCHANGED worker
  BY DEF CommitDelivery, Writing, queueVars
<1>2. progress[w] \in ProgressState
  BY DEF IInv
<1>3. p.done = TRUE
  BY <1>2 DEF ProgressState
<1>4. progress'[w] = p
  BY <1>1 DEF Advance, IInv
<1> HIDE DEF p
<1>5. Delivers(w, b)' => Delivers(w, b)
  BY <1>1 DEF Delivers, Type, Subject
<1>6. In(w, "work") /\ worker'[w].pc = "work" /\ Subject(w)' = Subject(w)
  BY <1>1 DEF Working, In, Subject
<1>7. ~\E i \in DOMAIN progress[w].rows : progress[w].rows[i] = u
  BY <1>1
<1>8. Delivers(w, b) => <<b, u>> \in alerts'
  BY <1>1, <1>6, <1>7 DEF Serves, Delivers
<1> QED
  BY <1>3, <1>4, <1>5, <1>6, <1>8 DEF Serves, In

\* A task that is at rest, loads or has failed owes no alert.
LEMMA NothingToServe ==
  ASSUME NEW w, NEW b, NEW u,
         \/ worker'[w].pc \in {"idle", "load"}
         \/ worker'[w].pc = "settle" /\ worker'[w].outcome # "ack"
         \/ Type(w)' # "DECISION_BRIEF_READY"
  PROVE  Serves(w, b, u)'
BY DEF Serves, Delivers, In

\* What comes after the commit keeps the alert.
LEMMA DoneServes ==
  ASSUME IInv, NEW b, NEW u, NEW w \in Workers, Serves(w, b, u), Notify(w) \/ Announce(w),
         alerts \subseteq alerts'
  PROVE  Serves(w, b, u)'
<1>1. /\ worker'[w].pc \in {"publish", "settle"}
      /\ worker'[w].event = worker[w].event
      /\ \/ In(w, "work") /\ progress[w].done
         \/ In(w, "publish")
  <2>1. CASE Notify(w)
    BY <2>1, Committing DEF Notify, Working, IInv
  <2>2. CASE Announce(w)
    BY <2>2, Publishing DEF Announce, IInv
  <2> QED
    BY <2>1, <2>2
<1>2. /\ Subject(w)' = Subject(w)
      /\ Delivers(w, b)' => Delivers(w, b)
  BY <1>1 DEF Delivers, Type, Subject
<1>3. Delivers(w, b) => <<b, u>> \in alerts'
  BY <1>1 DEF Serves
<1> QED
  BY <1>1, <1>2, <1>3 DEF Serves, In

\* A task moves its own worker only.
LEMMA OthersGoOn ==
  ASSUME IInv, NEW w \in Workers, Task(w) \/ TaskFails(w),
         NEW v \in Workers \ {w}
  PROVE  worker'[v] = worker[v] /\ progress'[v] = progress[v]
<1>1. DOMAIN worker = Workers /\ DOMAIN progress = Workers
  BY DEF IInv, QueueInv, QueueTypeOK
<1>2. ASSUME NEW p, Advance(w, p)
      PROVE  progress'[v] = progress[v]
  BY <1>1, <1>2 DEF Advance
<1>3. ASSUME NEW s, worker' = [worker EXCEPT ![w] = s]
      PROVE  worker'[v] = worker[v]
  BY <1>1, <1>3
<1>4. ASSUME NEW E, Commit(w, E)
      PROVE  worker'[v] = worker[v]
  BY <1>1, <1>4 DEF Commit
<1>5. CASE BeginRun(w) \/ BeginDelivery(w)
  BY <1>1, <1>2, <1>5 DEF BeginRun, BeginDelivery, Proceed
<1>6. CASE LoadPackage(w) \/ Assess(w) \/ WriteRow(w) \/ CommitDelivery(w)
  BY <1>2, <1>6 DEF LoadPackage, Assess, WriteRow, CommitDelivery, queueVars
<1>7. CASE EndRun(w) \/ Notify(w)
  BY <1>2, <1>4, <1>7 DEF EndRun, Notify
<1>8. CASE Announce(w)
  BY <1>1, <1>8 DEF Announce, Publish
<1>9. CASE BreakDeadlock(w)
  BY <1>1, <1>2, <1>9 DEF BreakDeadlock
<1>10. CASE Settle(w) /\ UNCHANGED <<progress, settingVars, briefVars, inboxVars>>
  BY <1>3, <1>10 DEF Settle
<1>11. CASE TaskFails(w)
  BY <1>1, <1>2, <1>11 DEF TaskFails, CallFails, CrashWorker
<1> QED
  BY <1>5, <1>6, <1>7, <1>8, <1>9, <1>10, <1>11 DEF Task

LEMMA TaskServes ==
  ASSUME IInv, Next, NEW b \in Briefs, NEW u \in Recipients(b), NEW w \in Workers,
         Task(w) \/ TaskFails(w), \A v \in Workers : Serves(v, b, u)
  PROVE  \A v \in Workers : Serves(v, b, u)'
<1>1. alerts \subseteq alerts'
  BY AlertsStay
<1>2. worker[w] \in WorkerState
  BY DEF IInv, QueueInv, QueueTypeOK
<1>3. \A v \in Workers \ {w} : worker'[v] = worker[v] /\ progress'[v] = progress[v]
  BY OthersGoOn
<1>4. \A v \in Workers \ {w} : Serves(v, b, u)'
  BY <1>1, <1>3, ServesStays
<1>5. Serves(w, b, u)'
  <2>1. CASE BeginDelivery(w)
    BY <2>1, BeginServes
  <2>2. CASE WriteRow(w)
    BY <2>2, WriteServes
  <2>3. CASE CommitDelivery(w)
    BY <2>3, CommitServes
  <2>4. CASE Notify(w) \/ Announce(w)
    BY <1>1, <2>4, DoneServes
  <2>5. CASE BeginRun(w) \/ LoadPackage(w) \/ Assess(w) \/ EndRun(w)
    <3>1. Type(w) = "INTELLIGENCE_SYNTHESIZED"
      BY <2>5 DEF BeginRun, Loading, LoadPackage, Assess, EndRun, Visiting, Working
    <3>2. worker'[w].event = worker[w].event
      <4>1. CASE BeginRun(w)
        BY <4>1, Proceeding DEF BeginRun, IInv
      <4>2. CASE LoadPackage(w) \/ Assess(w)
        BY <4>2 DEF LoadPackage, Assess, queueVars
      <4>3. CASE EndRun(w)
        BY <1>2, <4>3 DEF EndRun, Commit, IInv, QueueInv, QueueTypeOK, WorkerState
      <4> QED
        BY <2>5, <4>1, <4>2, <4>3
    <3> QED
      BY <3>1, <3>2, NothingToServe DEF Type
  <2>6. CASE BreakDeadlock(w)
    <3>1. worker'[w].pc = "settle" /\ worker'[w].outcome = "leave"
      BY <1>2, <2>6 DEF BreakDeadlock, IInv, QueueInv, QueueTypeOK, WorkerState
    <3> QED
      BY <3>1, NothingToServe
  <2>7. CASE Settle(w)
    BY <2>7, Settling, NothingToServe DEF Resting, IInv
  <2>8. CASE TaskFails(w)
    BY <2>8, Failing, NothingToServe DEF TaskFails, IInv
  <2> QED
    BY <2>1, <2>2, <2>3, <2>4, <2>5, <2>6, <2>7, <2>8 DEF Task
<1> QED
  BY <1>4, <1>5

LEMMA ServesStep ==
  ASSUME IInv, Next, NEW b \in Briefs, NEW u \in Recipients(b), \A w \in Workers : Serves(w, b, u)
  PROVE  \A w \in Workers : Serves(w, b, u)'
<1>1. alerts \subseteq alerts'
  BY AlertsStay
<1>2. ASSUME UNCHANGED <<worker, progress>>
      PROVE  \A w \in Workers : Serves(w, b, u)'
  BY <1>1, <1>2, ServesStays
<1>3. ASSUME NEW o \in Outputs, Arrive(o)
      PROVE  UNCHANGED <<worker, progress>>
  BY <1>3 DEF Arrive
<1>4. ASSUME NEW q \in Queues, Deliver(q)
      PROVE  \A w \in Workers : Serves(w, b, u)'
  <2>1. PICK w \in Workers, m \in queue : Receive(w, m)
    BY <1>4 DEF Deliver
  <2>2. OthersRest(w) /\ worker'[w].pc = "load" /\ UNCHANGED progress
    BY <1>4, <2>1, Receiving DEF IInv, Deliver
  <2>3. Serves(w, b, u)'
    BY <2>2, NothingToServe
  <2> QED
    BY <1>1, <2>2, <2>3, ServesStays DEF OthersRest
<1>5. ASSUME Redrive
      PROVE  UNCHANGED <<worker, progress>>
  BY <1>5 DEF Redrive, DeadLetter
<1>6. ASSUME Editing
      PROVE  UNCHANGED <<worker, progress>>
  <2>1. Move
    BY <1>6 DEF Editing, EditProfile, EditLens, EditPreferences, Act, Read, Midnight
  <2> QED
    BY <2>1, MovingOn
<1>7. ASSUME NEW w \in Workers, Task(w) \/ TaskFails(w)
      PROVE  \A v \in Workers : Serves(v, b, u)'
  BY <1>7, TaskServes
<1> QED
  BY <1>2, <1>3, <1>4, <1>5, <1>6, <1>7 DEF Next, Editing

\* What is served stays so, and what is announced by now is served or in hand, in
\* every step that finds u among the recipients.
LEMMA ServedStep ==
  ASSUME IInv, [Next]_vars, NEW b \in Briefs, NEW u \in Recipients(b),
         \A w \in Workers : Serves(w, b, u), Served(b, u)
  PROVE  (\A w \in Workers : Serves(w, b, u))' /\ Served(b, u)'
<1>1. CASE Next
  <2>1. \A w \in Workers : Serves(w, b, u)'
    BY <1>1, ServesStep
  <2>2. Remains /\ alerts \subseteq alerts'
    BY <1>1, StepRemains, AlertsStay
  <2>3. ASSUME Ready(b) \in announced'
        PROVE  <<b, u>> \in alerts' \/ InHand(Ready(b))'
    <3>1. Ready(b) \in Events
      BY EventsAre
    <3>2. CASE Ready(b) \notin announced
      BY <2>2, <2>3, <3>1, <3>2, SentIsQueued DEF Remains, InHand
    <3>3. CASE Ready(b) \in deadLetters
      BY <2>2, <3>3 DEF Remains, InHand
    <3>4. CASE <<b, u>> \in alerts
      BY <2>2, <3>4
    <3>5. CASE HasMessage(Ready(b))
      <4>1. ASSUME NEW w \in Workers, In(w, "settle"), worker[w].outcome = "ack",
                   Ready(b) = worker[w].event
            PROVE  <<b, u>> \in alerts
        <5>1. Type(w) = "DECISION_BRIEF_READY" /\ Subject(w) = b
          BY <4>1, EventsAre DEF Type, Subject
        <5> QED
          BY <4>1, <5>1 DEF Serves, Delivers
      <4> QED
        BY <2>2, <3>5, <4>1 DEF Remains, InHand
    <3> QED
      BY <3>2, <3>3, <3>4, <3>5 DEF Served, InHand
  <2> QED
    BY <2>1, <2>3 DEF Served
<1>2. CASE UNCHANGED vars
  <2>1. UNCHANGED <<queue, announced, deadLetters, worker, progress, alerts>>
    BY <1>2 DEF vars, queueVars, inboxVars
  <2>2. \A w \in Workers : Serves(w, b, u)'
    BY <2>1, ServesStays
  <2>3. Served(b, u)'
    BY <2>1 DEF Served, InHand, HasMessage
  <2> QED
    BY <2>2, <2>3
<1> QED
  BY <1>1, <1>2

LEMMA NobodyServedYet ==
  ASSUME Init, NEW b, NEW u
  PROVE  (\A w \in Workers : Serves(w, b, u)) /\ Served(b, u)
BY DEF Init, QueueInit, Served, Serves, Resting, In

\* Who stays among the recipients of a brief, by leaving alerts on and, of a company
\* brief that roles own, by keeping one of them in the lens, has an alert of it once
\* it is announced, or its event is queued or dead-lettered: no crash, failure,
\* deadlock or overtaken delivery ends it early, and no edit of anybody else's.
THEOREM ReadersAreServed ==
  ASSUME NEW b \in Briefs, NEW u \in Users
  PROVE  Spec => ([](u \in Recipients(b)) => []Served(b, u))
<1> DEFINE Serving == (\A w \in Workers : Serves(w, b, u)) /\ Served(b, u)
<1>1. Init => Serving
  BY NobodyServedYet
<1>2. IInv /\ u \in Recipients(b) /\ Serving /\ [Next]_vars => Serving'
  BY ServedStep
<1>3. Serving => Served(b, u)
  OBVIOUS
<1> HIDE DEF Serving
<1> QED
  BY <1>1, <1>2, <1>3, Invariance, PTL DEF Spec

\* From end to end: an output's brief for their company, or their own if they had a
\* lens, reaches a user who stays among its recipients whatever version of profile
\* and lens it is made for, or the message that stands between is in hand.
THEOREM ReadersAreInformed ==
  ASSUME ~Shielded, NEW o \in Outputs, NEW t \in Due(o),
         NEW r \in {Company} \cup (Staff[t] \cap Focused), NEW u \in Users
  PROVE  Spec => ([](\A b \in BriefsFor(o, t, r) : u \in Recipients(b))
                    => []Informed(u, o, t, r))
<1> DEFINE Stays == \A b \in BriefsFor(o, t, r) : u \in Recipients(b)
           Serving == \A b \in BriefsFor(o, t, r) :
                        (\A w \in Workers : Serves(w, b, u)) /\ Served(b, u)
<1>1. Init => Serving
  BY NobodyServedYet
<1>2. IInv /\ Stays /\ Serving /\ [Next]_vars => Serving'
  <2> SUFFICES ASSUME IInv, Stays, Serving, [Next]_vars, NEW b \in BriefsFor(o, t, r)
               PROVE  (\A w \in Workers : Serves(w, b, u))' /\ Served(b, u)'
    OBVIOUS
  <2> QED
    BY ServedStep DEF BriefsFor
<1>3. IInv /\ OutputsAccountedFor /\ Serving => Informed(u, o, t, r)
  <2> SUFFICES ASSUME IInv, OutputsAccountedFor, Serving,
                      Synthesized(o) \in announced, ~InHand(Synthesized(o))
               PROVE  \E b \in stored \cap BriefsFor(o, t, r) :
                        <<b, u>> \in alerts \/ InHand(Ready(b))
    BY DEF Informed
  <2>1. PICK b \in Briefs : /\ b.output = o /\ b.tenant = t /\ b.reader = r
                            /\ Ready(b) \in announced
    BY DEF OutputsAccountedFor, Briefed
  <2>2. b \in stored /\ b \in BriefsFor(o, t, r)
    BY <2>1 DEF IInv, RowsInv, BriefsFor
  <2> QED
    BY <2>1, <2>2 DEF Served
<1> HIDE DEF Serving
<1>4. Spec /\ []Stays => []Informed(u, o, t, r)
  <2> HIDE DEF Stays
  <2> QED
    BY <1>1, <1>2, <1>3, Invariance, OutputsAreAccountedFor, PTL DEF Spec
<1> QED
  BY <1>4, PTL

(***************************************************************************)
(* The refinement of what briefs promise                                   *)
(***************************************************************************)
LEMMA ToldIs ==
  ASSUME announced \subseteq Events, NEW b
  PROVE  b \in Told <=> Ready(b) \in announced
<1>1. ASSUME b \in Told
      PROVE  Ready(b) \in announced
  <2>1. PICK e \in announced : e.type = "DECISION_BRIEF_READY" /\ b = e.of
    BY <1>1 DEF Told
  <2> QED
    BY <2>1, EventIs
<1>2. ASSUME Ready(b) \in announced
      PROVE  b \in Told
  BY <1>2, EventsAre DEF Told
<1> QED
  BY <1>1, <1>2

LEMMA ToldNext ==
  ASSUME announced' \subseteq Events, NEW b
  PROVE  b \in Told' <=> Ready(b) \in announced'
<1>1. ASSUME b \in Told'
      PROVE  Ready(b) \in announced'
  <2>1. PICK e \in announced' : e.type = "DECISION_BRIEF_READY" /\ b = e.of
    BY <1>1 DEF Told
  <2> QED
    BY <2>1, EventIs
<1>2. ASSUME Ready(b) \in announced'
      PROVE  b \in Told'
  BY <1>2, EventsAre DEF Told
<1> QED
  BY <1>1, <1>2

LEMMA PromiseStep ==
  ASSUME IInv, IInv', Stores \/ Tells \/ Hands
  PROVE  [Promise!BriefingNext]_<<stored, Told, alerts, Listed>>
<1>1. announced \subseteq Events /\ announced' \subseteq Events
  BY DEF IInv, QueueInv, QueueTypeOK
<1>2. \A b \in Told \cup Told' : b \in Briefs
  <2>1. \A b : Ready(b) \in Events => b \in Briefs
    BY EventIs, EventsAre
  <2> QED
    BY <1>1, <2>1, ToldIs, ToldNext
<1>3. CASE Stores
  <2>1. Told' = Told
    BY <1>1, <1>2, <1>3, ToldIs, ToldNext DEF Stores
  <2>2. Listed' = Listed
    BY <1>3 DEF Stores, Listed
  <2>3. Promise!Store
    BY <1>3, <2>1, <2>2 DEF Stores, Promise!Store, Told, Listed
  <2> QED
    BY <2>3 DEF Promise!BriefingNext
<1>4. CASE Tells
  <2>1. PICK b \in stored : announced' = announced \cup {Ready(b)}
    BY <1>4 DEF Tells
  <2>2. \A c : Ready(c) \in announced' <=> Ready(c) \in announced \/ c = b
    BY <2>1, EventsAre
  <2>3. Told' = Told \cup {b}
    BY <1>1, <2>2, ToldIs, ToldNext
  <2>4. UNCHANGED <<stored, alerts>> /\ Listed' = Listed
    BY <1>4 DEF Tells, Listed
  <2>5. Promise!Tell(b)
    BY <2>3, <2>4 DEF Promise!Tell, Told, Listed
  <2>6. b \in Briefs
    BY DEF IInv, RowsInv
  <2> QED
    BY <2>5, <2>6 DEF Promise!BriefingNext
<1>5. CASE Hands
  <2> PICK b \in Briefs : \E written :
        /\ Ready(b) \in announced
        /\ \A x \in written : x[1] \in Addressees(b)
        /\ alerts' = alerts \cup {<<b, x[1]>> : x \in written}
        /\ digests' = digests \cup {<<x[1], x[2], b>> : x \in written}
    BY <1>5 DEF Hands
  <2>1. PICK written :
          /\ Ready(b) \in announced
          /\ \A x \in written : x[1] \in Addressees(b)
          /\ alerts' = alerts \cup {<<b, x[1]>> : x \in written}
          /\ digests' = digests \cup {<<x[1], x[2], b>> : x \in written}
    OBVIOUS
  <2> DEFINE readers == {x[1] : x \in written}
  <2>2. readers \in SUBSET Addressees(b)
    BY <2>1
  <2>3. {<<b, x[1]>> : x \in written} = {b} \X readers
    OBVIOUS
  <2>4. Listed' = Listed \cup ({b} \X readers)
    <3>1. ASSUME NEW p
          PROVE  p \in Listed' <=> p \in Listed \/ p \in {<<b, x[1]>> : x \in written}
      <4>1. p \in Listed' <=> \E d \in digests' : p = <<d[3], d[1]>>
        BY DEF Listed
      <4>2. p \in Listed <=> \E d \in digests : p = <<d[3], d[1]>>
        BY DEF Listed
      <4>3. (\E d \in {<<x[1], x[2], b>> : x \in written} : p = <<d[3], d[1]>>)
              <=> p \in {<<b, x[1]>> : x \in written}
        <5>1. \A x : <<<<x[1], x[2], b>>[3], <<x[1], x[2], b>>[1]>> = <<b, x[1]>>
          OBVIOUS
        <5> QED
          BY <5>1
      <4> QED
        BY <2>1, <4>1, <4>2, <4>3
    <3> HIDE DEF readers
    <3> QED
      BY <2>3, <3>1
  <2>5. UNCHANGED stored /\ Told' = Told /\ b \in Told
    BY <1>1, <1>5, <2>1, ToldIs DEF Hands, Told
  <2> HIDE DEF readers
  <2>6. alerts' = alerts \cup ({b} \X readers)
    BY <2>1, <2>3
  <2>7. Promise!Hand(b, readers)
    BY <2>4, <2>5, <2>6 DEF Promise!Hand, Told, Listed
  <2> QED
    BY <2>2, <2>7 DEF Promise!BriefingNext
<1> QED
  BY <1>3, <1>4, <1>5

\* Tasks and deliveries keep what briefs promise: announced once stored, handed to
\* addressees only, in alerts and digests at once, and never undone.
THEOREM BriefingIsKept == Spec => KeepsBriefing
<1>1. Init => Promise!BriefingInit
  BY DEF Init, QueueInit, Promise!BriefingInit
<1>2. IInv /\ IInv' /\ [Next]_vars =>
        [Promise!BriefingNext]_<<stored, Told, alerts, Listed>>
  <2> SUFFICES ASSUME IInv, IInv', [Next]_vars
               PROVE  [Promise!BriefingNext]_<<stored, Told, alerts, Listed>>
    OBVIOUS
  <2>1. CASE Next
    BY <2>1, EveryStep, PromiseStep DEF Goes
  <2>2. CASE UNCHANGED vars
    <3>1. UNCHANGED <<announced, stored, alerts, digests>>
      BY <2>2 DEF vars, queueVars, briefVars, inboxVars
    <3> QED
      BY <3>1 DEF Told, Listed
  <2> QED
    BY <2>1, <2>2
<1> QED
  BY <1>1, <1>2, Invariance, PTL
     DEF Spec, KeepsBriefing, Promise!BriefingSpec, Promise!briefingVars, Told, Listed
=============================================================================
