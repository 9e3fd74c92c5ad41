----------------------------- MODULE DecisionBriefs -----------------------------
(***************************************************************************)
(* From a synthesized output to its readers: the decision task writes one  *)
(* brief for each company it applies to and one for each of its users that *)
(* has a decision lens, tenant by tenant; the delivery task writes alerts  *)
(* and daily digests.  Meanwhile companies and users change what the tasks *)
(* read, and act on what they wrote.                                       *)
(***************************************************************************)
EXTENDS Naturals, Sequences

INSTANCE SequencesExt    \* SetToSeqs
INSTANCE FiniteSetsExt   \* Min

CONSTANTS
  Outputs,      \* rows of intelligence.global_outputs
  Tenants,      \* numbers, as ORDER BY tenant.id needs an order
  Users,        \* numbers above 0, likewise
  Staff,        \* the users of each tenant
  PrivateTo,    \* the tenant an output belongs to, or NoEvent
  Shielded,     \* DATABASE_RUNTIME_ROLE is subject to row-level security
  Serviced,     \* the tenants with status TRIAL or ACTIVE
  Onboarded,    \* the tenants that have a company profile from the start
  Focused,      \* the users that have a decision lens from the start
  Roles,        \* what a lens may have for a role_code
  OwnerRoles,   \* the roles that own the decision of a brief; {}: none does
  MaxMoves,     \* edits, acts and midnights in one behaviour
  Workers, MaxCopies, MaxReceives, MaxRetries, MaxFaults, NoEvent

Company == 0    \* the reader of a company brief: user_id IS NULL

Versions == 1..(MaxMoves + 1)

\* The unique keys of decision.assessments and decision.briefs together.
Briefs ==
  {b \in [output : Outputs, tenant : Tenants, context : Versions,
          reader : Users \cup {Company}, lens : Versions \cup {0}] :
     /\ b.reader \in Staff[b.tenant] \cup {Company}
     /\ b.lens = 0 <=> b.reader = Company}

Synthesized(o) == [type |-> "INTELLIGENCE_SYNTHESIZED", of |-> o]
Ready(b) == [type |-> "DECISION_BRIEF_READY", of |-> b]

Events == {Synthesized(o) : o \in Outputs} \cup {Ready(b) : b \in Briefs}
AllEvents == Events

ASSUME BriefsAssumption ==
  /\ Tenants \subseteq Nat
  /\ Users \subseteq Nat \ {Company} /\ IsFiniteSet(Users)
  /\ Staff \in [Tenants -> SUBSET Users]
  /\ \A s, t \in Tenants : s # t => Staff[s] \cap Staff[t] = {}
  /\ PrivateTo \in [Outputs -> Tenants \cup {NoEvent}]
  /\ Serviced \subseteq Tenants
  /\ Onboarded \subseteq Tenants
  /\ Focused \subseteq Users
  /\ NoEvent \notin Roles
  /\ OwnerRoles \in [Briefs -> SUBSET Roles]
  /\ Shielded \in BOOLEAN
  /\ MaxMoves \in Nat
  /\ MaxCopies \in Nat \ {0}
  /\ MaxReceives \in Nat \ {0}
  /\ MaxRetries \in Nat
  /\ MaxFaults \in Nat
  /\ NoEvent \notin Events

VARIABLES
  queue, announced, deadLetters, worker, faults,
  progress,  \* how far a worker is within its task
  context,   \* version of each company profile, 0 when there is none
  lens,      \* version of each user's decision lens, 0 when there is none
  role,      \* its role_code, NoEvent when there is none
  muted,     \* users whose alert preferences are not enabled
  today,
  moves,
  stored,    \* rows of decision.briefs
  acted,     \* those whose brief_status is no longer OPEN
  alerts,    \* rows of delivery.alerts: pairs of a brief and a user
  read,      \* those with a read_at
  digests    \* delivery.digests: triples of user, day and a brief listed

INSTANCE EventQueue

queueVars == <<queue, announced, deadLetters, worker, faults>>
settingVars == <<context, lens, role, muted, today, moves>>
briefVars == <<stored, acted>>
inboxVars == <<alerts, read, digests>>
vars == <<queueVars, progress, settingVars, briefVars, inboxVars>>

Type(w) == worker[w].event.type
Subject(w) == worker[w].event.of
Loading(w, type) == In(w, "load") /\ Type(w) = type
Working(w, type) == In(w, "work") /\ Type(w) = type

\* Of the decision task: the tenants to come, the context read for the first of
\* them, and the briefs to be announced.  Of the delivery task: the rows to come,
\* those written, and whether they are committed.
Blank == [tenants |-> {}, context |-> 0, ready |-> {},
          rows |-> <<>>, written |-> {}, done |-> FALSE]

Advance(w, state) == progress' = [progress EXCEPT ![w] = state]

Init ==
  /\ QueueInit
  /\ progress = [w \in Workers |-> Blank]
  /\ context = [t \in Tenants |-> IF t \in Onboarded THEN 1 ELSE 0]
  /\ lens = [u \in Users |-> IF u \in Focused THEN 1 ELSE 0]
  /\ role \in [Users -> Roles \cup {NoEvent}]
  /\ \A u \in Users : role[u] = NoEvent <=> u \notin Focused
  /\ muted = {}
  /\ today = 0
  /\ moves = 0
  /\ stored = {} /\ acted = {}
  /\ alerts = {} /\ read = {} /\ digests = {}

\* The synthesis task announces an output; redelivered, it does so again.
Arrive(o) ==
  LET e == Synthesized(o) IN
  /\ Send(e)
  /\ IF e \in announced THEN Fault ELSE UNCHANGED faults
  /\ UNCHANGED <<deadLetters, worker, progress, settingVars, briefVars, inboxVars>>

(***************************************************************************)
(* create_decision_briefs: one transaction per tenant, and the events of   *)
(* all of them after the last.                                             *)
(***************************************************************************)

\* No tenant is set yet when the tenants are looked for: a role that row-level
\* security applies to sees no profile.
Applicable(o) ==
  IF PrivateTo[o] # NoEvent THEN {PrivateTo[o]}
  ELSE {t \in Serviced : context[t] > 0 /\ ~Shielded}

\* Mutant: a redelivery passes over the tenants whose brief is there already.
BeginRunResumes(w) ==
  /\ Loading(w, "INTELLIGENCE_SYNTHESIZED")
  /\ Proceed(w)
  /\ Advance(w, [Blank EXCEPT !.tenants =
       {t \in Applicable(Subject(w)) :
          ~\E b \in stored : b.tenant = t /\ b.output = Subject(w)
                             /\ b.context = context[t]}])
  /\ UNCHANGED <<settingVars, briefVars, inboxVars>>

BeginRun(w) ==
  /\ Loading(w, "INTELLIGENCE_SYNTHESIZED")
  /\ Proceed(w)
  /\ Advance(w, [Blank EXCEPT !.tenants = Applicable(Subject(w))])
  /\ UNCHANGED <<settingVars, briefVars, inboxVars>>

Visiting(w) ==
  /\ Working(w, "INTELLIGENCE_SYNTHESIZED")
  /\ progress[w].tenants # {}

Current(w) == Min(progress[w].tenants)

\* A private output may find its tenant without a profile: it is passed over.
LoadPackage(w) ==
  /\ Visiting(w)
  /\ progress[w].context = 0
  /\ Advance(w, IF context[Current(w)] = 0
                THEN [progress[w] EXCEPT !.tenants = @ \ {Current(w)}]
                ELSE [progress[w] EXCEPT !.context = context[Current(w)]])
  /\ UNCHANGED <<queueVars, settingVars, briefVars, inboxVars>>

\* The tenant's own brief, and one for each active lens as it is by now.
Made(w) ==
  LET t == Current(w) IN
  {[output |-> Subject(w), tenant |-> t, context |-> progress[w].context,
    reader |-> r, lens |-> IF r = Company THEN 0 ELSE lens[r]] :
     r \in {Company} \cup {u \in Staff[t] : lens[u] > 0}}

AfterVisit(w, ready) ==
  [progress[w] EXCEPT !.tenants = @ \ {Current(w)}, !.context = 0, !.ready = ready]

\* Mutant: the upsert sets brief_status as an insert would.
AssessReopens(w) ==
  /\ Visiting(w)
  /\ progress[w].context > 0
  /\ stored' = stored \cup Made(w)
  /\ acted' = acted \ Made(w)
  /\ Advance(w, AfterVisit(w, progress[w].ready \cup Made(w)))
  /\ UNCHANGED <<queueVars, settingVars, inboxVars>>

\* Rows that are there keep their brief_status.
Assess(w) ==
  /\ Visiting(w)
  /\ progress[w].context > 0
  /\ stored' = stored \cup Made(w)
  /\ Advance(w, AfterVisit(w, progress[w].ready \cup Made(w)))
  /\ UNCHANGED <<queueVars, settingVars, acted, inboxVars>>

EndRun(w) ==
  /\ Working(w, "INTELLIGENCE_SYNTHESIZED")
  /\ progress[w].tenants = {}
  /\ Commit(w, {Ready(b) : b \in progress[w].ready})
  /\ Advance(w, Blank)
  /\ UNCHANGED <<settingVars, briefVars, inboxVars>>

\* The events leave in the order of the loop.
Precedes(b, c) ==
  b.tenant < c.tenant \/ (b.tenant = c.tenant /\ b.reader <= c.reader)

Announce(w) ==
  /\ \E e \in worker[w].todo :
       /\ \A f \in worker[w].todo : Precedes(e.of, f.of)
       /\ Publish(w, e)
  /\ UNCHANGED <<progress, settingVars, briefVars, inboxVars>>

(***************************************************************************)
(* handle_decision_brief_ready: one transaction, row by row.               *)
(***************************************************************************)

\* Mutant: a user's own brief goes to whoever would get the company's.
RecipientsOfAll(b) ==
  {u \in Staff[b.tenant] \ muted : OwnerRoles[b] = {} \/ role[u] \in OwnerRoles[b]}

\* Mutant: the lenses are joined, not left-joined.
RecipientsWithLens(b) ==
  {u \in Staff[b.tenant] \ muted :
     IF b.reader # Company THEN u = b.reader
     ELSE role[u] # NoEvent /\ (OwnerRoles[b] = {} \/ role[u] \in OwnerRoles[b])}

\* Whom the brief reaches as alerts and lenses are by now: a user's own brief that
\* user, the company's those of its owner roles, or everybody where it has none.
Recipients(b) ==
  {u \in Staff[b.tenant] \ muted :
     IF b.reader # Company THEN u = b.reader
     ELSE OwnerRoles[b] = {} \/ role[u] \in OwnerRoles[b]}

\* The query orders its rows by nothing.  A missing brief reaches nobody.
BeginDelivery(w) ==
  /\ Loading(w, "DECISION_BRIEF_READY")
  /\ Proceed(w)
  /\ LET b == Subject(w) IN
     \E rows \in SetToSeqs(IF b \in stored THEN Recipients(b) ELSE {}) :
       Advance(w, [Blank EXCEPT !.rows = rows])
  /\ UNCHANGED <<settingVars, briefVars, inboxVars>>

Writing(w) == Working(w, "DECISION_BRIEF_READY") /\ ~progress[w].done

\* Worker v has written, and not yet committed, the digest of this day or the
\* alert of this brief that w is about to write.
HoldsUp(v, w) ==
  /\ v # w
  /\ Writing(v) /\ Writing(w)
  /\ progress[w].rows # <<>>
  /\ \E x \in progress[v].written :
       x[1] = Head(progress[w].rows) /\ (x[2] = today \/ Subject(v) = Subject(w))

\* The upserts of one recipient: the alert, its log entry, the digest.
WriteRow(w) ==
  /\ Writing(w)
  /\ progress[w].rows # <<>>
  /\ \A v \in Workers : ~HoldsUp(v, w)
  /\ Advance(w, [progress[w] EXCEPT !.rows = Tail(@),
                   !.written = @ \cup {<<Head(progress[w].rows), today>>}])
  /\ UNCHANGED <<queueVars, settingVars, briefVars, inboxVars>>

\* Mutant: the digest keeps what was listed last.
CommitDeliveryReplaces(w) ==
  /\ Writing(w)
  /\ progress[w].rows = <<>>
  /\ LET b == Subject(w)
         written == progress[w].written
     IN /\ alerts' = alerts \cup {<<b, x[1]>> : x \in written}
        /\ digests' = {d \in digests : <<d[1], d[2]>> \notin written}
             \cup {<<x[1], x[2], b>> : x \in written}
  /\ Advance(w, [progress[w] EXCEPT !.written = {}, !.done = TRUE])
  /\ UNCHANGED <<queueVars, settingVars, briefVars, read>>

CommitDelivery(w) ==
  /\ Writing(w)
  /\ progress[w].rows = <<>>
  /\ LET b == Subject(w)
         written == progress[w].written
     IN /\ alerts' = alerts \cup {<<b, x[1]>> : x \in written}
        /\ digests' = digests \cup {<<x[1], x[2], b>> : x \in written}
  /\ Advance(w, [progress[w] EXCEPT !.written = {}, !.done = TRUE])
  /\ UNCHANGED <<queueVars, settingVars, briefVars, read>>

\* The message to Redis, which may raise: then the task is repeated.
Notify(w) ==
  /\ Working(w, "DECISION_BRIEF_READY")
  /\ progress[w].done
  /\ Commit(w, {})
  /\ Advance(w, Blank)
  /\ UNCHANGED <<settingVars, briefVars, inboxVars>>

Deadlocked(w) ==
  \E cycle \in SUBSET Workers :
    /\ w \in cycle
    /\ \A v \in cycle : \E x \in cycle : HoldsUp(x, v)

\* PostgreSQL ends one of the transactions that wait for one another; the
\* error is none that Celery retries.
BreakDeadlock(w) ==
  /\ Deadlocked(w)
  /\ worker' = [worker EXCEPT ![w] = [@ EXCEPT !.pc = "settle", !.outcome = "leave"]]
  /\ Advance(w, Blank)
  /\ UNCHANGED <<queue, announced, deadLetters, faults, settingVars, briefVars, inboxVars>>

(***************************************************************************)
(* Meanwhile companies and users edit, read and act, and days pass.        *)
(***************************************************************************)
Move ==
  /\ moves < MaxMoves
  /\ moves' = moves + 1
  /\ UNCHANGED <<queueVars, progress, stored, alerts, digests>>

\* put_company_context
EditProfile(t) ==
  /\ Move
  /\ context' = [context EXCEPT ![t] = @ + 1]
  /\ UNCHANGED <<lens, role, muted, today, acted, read>>

\* put_decision_lens: the role too is what the user now says it is.
EditLens(u) ==
  /\ Move
  /\ lens' = [lens EXCEPT ![u] = @ + 1]
  /\ \E r \in Roles : role' = [role EXCEPT ![u] = r]
  /\ UNCHANGED <<context, muted, today, acted, read>>

\* put_alert_preferences: enabled, or no more
EditPreferences(u) ==
  /\ Move
  /\ muted' = IF u \in muted THEN muted \ {u} ELSE muted \cup {u}
  /\ UNCHANGED <<context, lens, role, today, acted, read>>

\* record_decision_action, by the brief's reader or a colleague
Act(b) ==
  /\ Move
  /\ b \in stored
  /\ acted' = acted \cup {b}
  /\ UNCHANGED <<context, lens, role, muted, today, read>>

\* read_alert
Read(a) ==
  /\ Move
  /\ a \in alerts
  /\ read' = read \cup {a}
  /\ UNCHANGED <<context, lens, role, muted, today, acted>>

Midnight ==
  /\ Move
  /\ today' = today + 1
  /\ UNCHANGED <<context, lens, role, muted, acted, read>>

Task(w) ==
  \/ BeginRun(w) \/ LoadPackage(w) \/ Assess(w) \/ EndRun(w) \/ Announce(w)
  \/ BeginDelivery(w) \/ WriteRow(w) \/ CommitDelivery(w) \/ Notify(w)
  \/ BreakDeadlock(w)
  \/ Settle(w) /\ UNCHANGED <<progress, settingVars, briefVars, inboxVars>>

\* Every type of event has a queue of its own.
Queues == {"INTELLIGENCE_SYNTHESIZED", "DECISION_BRIEF_READY"}

Deliver(q) ==
  /\ \E w \in Workers, m \in queue : m.event.type = q /\ Receive(w, m)
  /\ UNCHANGED <<progress, settingVars, briefVars, inboxVars>>

Redrive ==
  /\ \E m \in queue : DeadLetter(m)
  /\ UNCHANGED <<progress, settingVars, briefVars, inboxVars>>

\* What the open transaction wrote is rolled back.
TaskFails(w) ==
  /\ CallFails(w) \/ CrashWorker(w)
  /\ Advance(w, Blank)
  /\ UNCHANGED <<settingVars, briefVars, inboxVars>>

Next ==
  \/ \E o \in Outputs : Arrive(o)
  \/ \E q \in Queues : Deliver(q)
  \/ Redrive
  \/ \E w \in Workers : Task(w) \/ TaskFails(w)
  \/ \E t \in Tenants : EditProfile(t)
  \/ \E u \in Users : EditLens(u) \/ EditPreferences(u)
  \/ \E b \in stored : Act(b)
  \/ \E a \in alerts : Read(a)
  \/ Midnight

Spec == Init /\ [][Next]_vars

(***************************************************************************)
(* Fairness: running tasks go on and every queue that has a visible        *)
(* message is polled.  Nobody has to edit, read or act.                    *)
(***************************************************************************)
FairSpec ==
  /\ Spec
  /\ \A w \in Workers : WF_vars(Task(w))
  /\ \A q \in Queues : SF_vars(Deliver(q))
  /\ WF_vars(Redrive)

(***************************************************************************)
(* Safety                                                                  *)
(***************************************************************************)
Addressees(b) == IF b.reader = Company THEN Staff[b.tenant] ELSE {b.reader}

TypeOK ==
  /\ QueueTypeOK
  /\ progress \in [Workers ->
       [tenants : SUBSET Tenants, context : Versions \cup {0}, ready : SUBSET Briefs,
        rows : Seq(Users), written : SUBSET (Users \X (0..MaxMoves)), done : BOOLEAN]]
  /\ context \in [Tenants -> Versions \cup {0}]
  /\ lens \in [Users -> Versions \cup {0}]
  /\ role \in [Users -> Roles \cup {NoEvent}]
  /\ muted \subseteq Users
  /\ today \in 0..MaxMoves
  /\ moves \in 0..MaxMoves
  /\ stored \subseteq Briefs
  /\ acted \subseteq stored
  /\ read \subseteq alerts
  /\ \A a \in alerts : a[1] \in stored /\ a[2] \in Addressees(a[1])
  /\ digests \subseteq Users \X (0..MaxMoves) \X Briefs

\* The tenants an output is meant for, whatever the role of the session sees.
Due(o) ==
  {t \in IF PrivateTo[o] = NoEvent THEN Serviced ELSE {PrivateTo[o]} : t \in Onboarded}

Briefed(o, t, reader) ==
  \E b \in Briefs : b.output = o /\ b.tenant = t /\ b.reader = reader
                     /\ Ready(b) \in announced

\* The last message of a synthesized output disappears only when a brief was
\* announced for every company it is meant for and for each of its users that had
\* a lens, or with the message in the dead letters: a run that dies between two
\* tenants, or before its announcements, is made good.
DueBriefed ==
  [][\A o \in Outputs :
       HasMessage(Synthesized(o)) =>
         \/ HasMessage(Synthesized(o))'
         \/ Synthesized(o) \in deadLetters'
         \/ \A t \in Due(o) : \A r \in {Company} \cup (Staff[t] \cap Focused) :
               Briefed(o, t, r)]_vars

\* A message of the event is not deleted yet, or one is dead-lettered.
InHand(e) == HasMessage(e) \/ e \in deadLetters

\* No output is forgotten: one that was announced has its briefs announced, or
\* its event is still in hand.
OutputsAccountedFor ==
  \A o \in Outputs : Synthesized(o) \in announced =>
    \/ InHand(Synthesized(o))
    \/ \A t \in Due(o) : \A r \in {Company} \cup (Staff[t] \cap Focused) :
          Briefed(o, t, r)

\* A brief announced is among the alerts of user u, or its event is in hand.
Served(b, u) ==
  Ready(b) \in announced => <<b, u>> \in alerts \/ InHand(Ready(b))

\* The briefs of an output for a reader, one to each version of what it rests on.
BriefsFor(o, t, r) ==
  {b \in Briefs : b.output = o /\ b.tenant = t /\ b.reader = r}

\* From end to end: of an output that is announced, user u has a brief made for r
\* among the alerts, unless the output's event or that brief's is still in hand.
Informed(u, o, t, r) ==
  Synthesized(o) \in announced =>
    \/ InHand(Synthesized(o))
    \/ \E b \in stored \cap BriefsFor(o, t, r) :
         <<b, u>> \in alerts \/ InHand(Ready(b))

\* No redelivery makes a brief open again that somebody has acted on, or an alert
\* unread that was read, though both rows are written again.
KeepsMemory == [][acted \subseteq acted' /\ read \subseteq read']_vars

Promise == INSTANCE Briefing WITH
  Brief <- Briefs,
  Reader <- Users,
  ready <- {e.of : e \in {f \in announced : f.type = "DECISION_BRIEF_READY"}},
  inbox <- alerts,
  digest <- {<<d[3], d[1]>> : d \in digests}

\* Two deliveries that merge their briefs into one digest lose neither, alerts and
\* digests tell the same, and nothing reaches anybody it is not addressed to.
KeepsBriefing == Promise!BriefingSpec

(***************************************************************************)
(* Liveness                                                                *)
(***************************************************************************)

\* Unless users switch alerts off, a brief announced is in the alerts of all it is
\* addressed to, or in the dead letters, again and again; not so where the decision
\* belongs to certain roles.  Deliveries may fail or block one another.
AnnouncedIsDelivered ==
  [](muted = {}) =>
    []<>\A b \in stored :
          Ready(b) \in announced \ deadLetters /\ (b.reader = Company => OwnerRoles[b] = {}) =>
            {b} \X Addressees(b) \subseteq alerts
=============================================================================
