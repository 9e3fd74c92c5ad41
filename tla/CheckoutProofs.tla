---------------------------- MODULE CheckoutProofs ----------------------------
(***************************************************************************)
(* Checkout's safety, for any number of keys, plans, amounts, handlers and *)
(* faults.                                                                 *)
(***************************************************************************)
EXTENDS Checkout, TLAPS

USE CheckoutAssumption

(***************************************************************************)
(* The inductive invariant                                                 *)
(***************************************************************************)

Ending(e) == \E k \in Keys : e \in {Disabled(k), NotRenewed(k)}

\* What a handler knows of its checkout between two of its steps.
Knows(h) ==
  /\ ~At(h, "idle") => Key(h) \in Keys
  /\ At(h, "quote") => handler[h].plan \in Plans
  /\ At(h, "apply") => Ending(handler[h].event)
  /\ handler[h].at \in {"expire", "reopen", "ask", "failed", "initialized"} =>
       Status(Key(h)) # "ABSENT"
  /\ At(h, "ask") => handler[h].amount = intents[Key(h)].amount
  /\ At(h, "initialized") => asked[Key(h)] # Nothing
  /\ At(h, "activate") =>
       /\ Status(Key(h)) \notin {"ABSENT", "SUCCEEDED"}
       /\ charged[Key(h)] = intents[Key(h)].amount

\* A row lock has one holder.
LockExclusive ==
  \A g, h \in Handlers :
    g # h /\ handler[g].at \in Locking /\ handler[h].at \in Locking => Key(g) # Key(h)

\* The rows of a key agree with one another and with Paystack.
RowsAgree(k) ==
  /\ Status(k) = "ABSENT" <=> intents[k].amount = Nothing
  /\ asked[k] # Nothing => asked[k] = intents[k].amount
  /\ intents[k].url => asked[k] # Nothing
  /\ charged[k] # Nothing => asked[k] # Nothing
  /\ invoices[k] # Nothing =>
       invoices[k] = intents[k].amount /\ charged[k] = intents[k].amount

\* A row for a paid plan, live or not, rests on an invoice.
PlanRests ==
  \A s \in subscriptions : s.plan # "TRIAL" =>
    \E k \in Keys : invoices[k] # Nothing /\ intents[k].plan = s.plan

IInv ==
  /\ TypeOK
  /\ \A h \in Handlers : Knows(h)
  /\ LockExclusive
  /\ \A k \in Keys : RowsAgree(k)
  /\ PlanRests

(***************************************************************************)
(* Helpers                                                                 *)
(***************************************************************************)

\* A handler that becomes another well-formed record leaves the others alone.
LEMMA OneHandlerMoves ==
  ASSUME TypeOK, NEW h \in Handlers, NEW state \in HandlerState, Become(h, state)
  PROVE  /\ handler' \in [Handlers -> HandlerState]
         /\ handler'[h] = state
         /\ \A g \in Handlers \ {h} : handler'[g] = handler[g]
BY DEF TypeOK, Become

\* So does a row of checkout_intents.
LEMMA OneIntentMoves ==
  ASSUME TypeOK, NEW k \in Keys, NEW intent \in Intent, SetIntent(k, intent)
  PROVE  /\ intents' \in [Keys -> Intent]
         /\ intents'[k] = intent
         /\ \A j \in Keys \ {k} : intents'[j] = intents[j]
BY DEF TypeOK, SetIntent

\* The records a handler becomes are well formed.
LEMMA HandlerRecords ==
  ASSUME TypeOK, NEW h \in Handlers
  PROVE  /\ Idle \in HandlerState
         /\ \A place \in Place :
              [handler[h] EXCEPT !.at = place] \in HandlerState
         /\ \A a \in Amounts :
              [handler[h] EXCEPT !.at = "ask", !.amount = a] \in HandlerState
         /\ \A place \in Place, k \in Keys, p \in Plans \cup {Nothing},
               e \in Events \cup {Nothing} :
              [at |-> place, key |-> k, plan |-> p, amount |-> Nothing, event |-> e]
                \in HandlerState
<1>1. handler[h] \in HandlerState
  BY DEF TypeOK
<1>2. Idle \in HandlerState
  BY DEF Idle, HandlerState, Place
<1>3. ASSUME NEW place \in Place
      PROVE  [handler[h] EXCEPT !.at = place] \in HandlerState
  BY <1>1, Zenon DEF HandlerState
<1>4. "ask" \in Place
  BY DEF Place
<1>5. ASSUME NEW a \in Amounts
      PROVE  [handler[h] EXCEPT !.at = "ask", !.amount = a] \in HandlerState
  BY <1>1, <1>4, Zenon DEF HandlerState
<1>6. ASSUME NEW place \in Place, NEW k \in Keys, NEW p \in Plans \cup {Nothing},
             NEW e \in Events \cup {Nothing}
      PROVE  [at |-> place, key |-> k, plan |-> p, amount |-> Nothing, event |-> e]
               \in HandlerState
  BY Zenon DEF HandlerState
<1> QED
  BY <1>2, <1>3, <1>5, <1>6, Zenon

\* The records a row becomes are well formed.
LEMMA IntentRecords ==
  ASSUME TypeOK, NEW k \in Keys
  PROVE  /\ \A status \in {"PENDING", "SUCCEEDED", "FAILED", "EXPIRED"} :
              [intents[k] EXCEPT !.status = status] \in Intent
         /\ [intents[k] EXCEPT !.status = "INITIALIZED", !.url = TRUE] \in Intent
<1>1. intents[k] \in Intent
  BY DEF TypeOK
<1>2. ASSUME NEW status \in {"PENDING", "SUCCEEDED", "FAILED", "EXPIRED"}
      PROVE  [intents[k] EXCEPT !.status = status] \in Intent
  BY <1>1, Zenon DEF Intent
<1>3. [intents[k] EXCEPT !.status = "INITIALIZED", !.url = TRUE] \in Intent
  BY <1>1, Zenon DEF Intent
<1> QED
  BY <1>2, <1>3, Zenon

LEMMA StatusMoves ==
  ASSUME TypeOK, NEW k \in Keys,
         NEW status \in {"PENDING", "SUCCEEDED", "FAILED", "EXPIRED"}, SetStatus(k, status)
  PROVE  /\ intents' \in [Keys -> Intent]
         /\ intents'[k].status = status
         /\ intents'[k].plan = intents[k].plan
         /\ intents'[k].amount = intents[k].amount
         /\ intents'[k].url = intents[k].url
         /\ \A j \in Keys \ {k} : intents'[j] = intents[j]
<1> DEFINE intent == [intents[k] EXCEPT !.status = status]
<1>1. intent \in Intent
  BY IntentRecords
<1>2. /\ intent.status = status /\ intent.plan = intents[k].plan
      /\ intent.amount = intents[k].amount /\ intent.url = intents[k].url
  BY DEF TypeOK, Intent
<1>3. SetIntent(k, intent)
  BY DEF SetStatus
<1> HIDE DEF intent
<1> QED
  BY <1>1, <1>2, <1>3, OneIntentMoves

\* A fault only counts.
LEMMA FaultTyped ==
  ASSUME TypeOK, Fault
  PROVE  faults' \in 0..MaxFaults
BY DEF TypeOK, Fault

(***************************************************************************)
(* What no step takes back                                                 *)
(***************************************************************************)

\* A checkout that was quoted stays quoted, and what was asked, charged or
\* invoiced stays so.
Keeps ==
  \A k \in Keys :
    /\ Status(k) # "ABSENT" =>
         /\ intents'[k].status # "ABSENT"
         /\ intents'[k].amount = intents[k].amount
         /\ intents'[k].plan = intents[k].plan
    /\ asked[k] # Nothing => asked'[k] = asked[k]
    /\ charged[k] # Nothing => charged'[k] = charged[k]
    /\ invoices[k] # Nothing => invoices'[k] = invoices[k]

\* What a handler knows, it still knows after a step of another.
LEMMA OthersKnow ==
  ASSUME TypeOK, \A k \in Keys : RowsAgree(k), Keeps,
         NEW g \in Handlers, Knows(g), handler'[g] = handler[g],
         At(g, "activate") => intents'[Key(g)].status = Status(Key(g))
  PROVE  Knows(g)'
<1>1. CASE At(g, "idle")
  BY <1>1 DEF Knows, At
<1>2. CASE ~At(g, "idle")
  <2>1. Key(g) \in Keys
    BY <1>2 DEF Knows
  <2> QED
    BY <1>2, <2>1 DEF Knows, At, Key, Status, Keeps, RowsAgree
<1> QED
  BY <1>1, <1>2

\* A handler that moves takes no row lock but a free one.
LEMMA LockKept ==
  ASSUME TypeOK, LockExclusive, NEW h \in Handlers, NEW state \in HandlerState,
         Become(h, state), state.at \in Locking => Free(state.key)
  PROVE  LockExclusive'
<1>1. /\ handler'[h] = state
      /\ \A g \in Handlers \ {h} : handler'[g] = handler[g]
  BY OneHandlerMoves
<1> QED
  BY <1>1 DEF LockExclusive, Free, Key, Locking

\* Where the tables keep their contents, what rests on them does too.
LEMMA TablesKept ==
  ASSUME TypeOK, UNCHANGED <<intents, asked, charged, invoices>>,
         \A k \in Keys : RowsAgree(k)
  PROVE  Keeps /\ \A k \in Keys : RowsAgree(k)'
BY DEF Keeps, RowsAgree, Status

\* A step of one handler that writes to none of the tables.
LEMMA HandlerStep ==
  ASSUME IInv, NEW h \in Handlers, NEW state \in HandlerState, Become(h, state),
         UNCHANGED <<intents, lapsed, asked, charged, accountVars>>,
         unanswered' \subseteq Events,
         ledger' \in [Events -> {"NONE", "PROCESSED", "FAILED"}],
         faults' \in 0..MaxFaults,
         state.at \in Locking => Free(state.key),
         Knows(h)'
  PROVE  IInv'
<1> USE DEF accountVars
<1>1. TypeOK /\ LockExclusive /\ PlanRests
      /\ (\A g \in Handlers : Knows(g)) /\ (\A k \in Keys : RowsAgree(k))
  BY DEF IInv
<1>2. /\ handler' \in [Handlers -> HandlerState]
      /\ \A g \in Handlers \ {h} : handler'[g] = handler[g]
  BY <1>1, OneHandlerMoves
<1>3. TypeOK'
  BY <1>1, <1>2 DEF TypeOK, Status, Live
<1>4. Keeps /\ \A k \in Keys : RowsAgree(k)'
  BY <1>1, TablesKept
<1>5. \A g \in Handlers : Knows(g)'
  <2>1. ASSUME NEW g \in Handlers \ {h}
        PROVE  Knows(g)'
    BY <1>1, <1>2, <1>4, OthersKnow DEF Status
  <2> QED
    BY <2>1
<1>6. LockExclusive'
  BY <1>1, LockKept
<1>7. PlanRests'
  BY <1>1 DEF PlanRests
<1> QED
  BY <1>3, <1>4, <1>5, <1>6, <1>7 DEF IInv

\* A step of one handler that writes to the row of its own checkout: the row
\* is locked by nobody, or was not there.
LEMMA IntentStep ==
  ASSUME IInv, NEW h \in Handlers, NEW state \in HandlerState, Become(h, state),
         NEW intent \in Intent, Key(h) \in Keys, SetIntent(Key(h), intent),
         Free(Key(h)) \/ Status(Key(h)) = "ABSENT",
         intent.status # "ABSENT", intent.plan # Nothing, intent.amount # Nothing,
         Status(Key(h)) # "ABSENT" =>
           /\ intent.plan = intents[Key(h)].plan
           /\ intent.amount = intents[Key(h)].amount,
         intent.url => asked[Key(h)] # Nothing,
         UNCHANGED <<lapsed, paystackVars, ledger, accountVars, faults>>,
         state.at \notin Locking,
         Knows(h)'
  PROVE  IInv'
<1> USE DEF accountVars, paystackVars
<1> PICK k \in Keys : k = Key(h)
  OBVIOUS
<1>1. TypeOK /\ LockExclusive /\ PlanRests
      /\ (\A g \in Handlers : Knows(g)) /\ (\A j \in Keys : RowsAgree(j))
  BY DEF IInv
<1>2. /\ handler' \in [Handlers -> HandlerState]
      /\ \A g \in Handlers \ {h} : handler'[g] = handler[g]
  BY <1>1, OneHandlerMoves
<1>3. /\ intents' \in [Keys -> Intent]
      /\ intents'[k] = intent
      /\ \A j \in Keys \ {k} : intents'[j] = intents[j]
  BY <1>1, OneIntentMoves
<1>4. k = Key(h) /\ k \in Keys
  OBVIOUS
<1>5. TypeOK'
  <2>1. \A j \in Keys : (Status(j) = "ABSENT" <=> intents[j].plan = Nothing)'
    BY <1>1, <1>3, <1>4 DEF TypeOK, Status
  <2> QED
    BY <1>1, <1>2, <1>3, <2>1 DEF TypeOK, Live
<1>6. Keeps
  BY <1>3, <1>4 DEF Keeps, Status
<1>7. \A j \in Keys : RowsAgree(j)'
  <2>1. RowsAgree(k)'
    BY <1>1, <1>3, <1>4 DEF RowsAgree, Status
  <2>2. ASSUME NEW j \in Keys \ {k}
        PROVE  RowsAgree(j)'
    BY <1>1, <1>3, <2>2 DEF RowsAgree, Status
  <2> QED
    BY <2>1, <2>2
<1>8. \A g \in Handlers : Knows(g)'
  <2>1. ASSUME NEW g \in Handlers \ {h}
        PROVE  Knows(g)'
    <3>1. Knows(g) /\ handler'[g] = handler[g]
      BY <1>1, <1>2
    <3>2. At(g, "activate") => intents'[Key(g)].status = Status(Key(g))
      <4>1. SUFFICES ASSUME At(g, "activate")
                     PROVE  intents'[Key(g)].status = Status(Key(g))
        OBVIOUS
      <4>2. Key(g) \in Keys /\ Key(g) # k
        BY <1>4, <3>1, <4>1 DEF Knows, At, Free, Locking
      <4> QED
        BY <1>3, <4>2 DEF Status
    <3> QED
      BY <1>1, <1>6, <3>1, <3>2, OthersKnow
  <2> QED
    BY <2>1
<1>9. LockExclusive'
  BY <1>1, LockKept
<1>10. PlanRests'
  BY <1>1, <1>6 DEF PlanRests, Keeps, RowsAgree, Status
<1> QED
  BY <1>5, <1>7, <1>8, <1>9, <1>10 DEF IInv

(***************************************************************************)
(* The checkout request                                                    *)
(***************************************************************************)

LEMMA InitEstablishes == Init => IInv
<1> SUFFICES ASSUME Init PROVE IInv
  OBVIOUS
<1> USE DEF Init
<1>1. intents \in [Keys -> Intent]
  BY DEF Intent
<1>2. handler \in [Handlers -> HandlerState]
  BY DEF Idle, HandlerState, Place
<1>3. Trial \in Subscription
  BY DEF Trial, Subscription
<1>4. TypeOK
  <2>1. \A k \in Keys : Status(k) = "ABSENT" <=> intents[k].plan = Nothing
    BY DEF Status
  <2>2. asked \in [Keys -> Amounts \cup {Nothing}] /\ charged = asked /\ invoices = asked
    OBVIOUS
  <2>3. ledger \in [Events -> {"NONE", "PROCESSED", "FAILED"}]
    OBVIOUS
  <2>4. subscriptions \subseteq Subscription /\ \A s, t \in subscriptions : s = t
    BY <1>3
  <2>5. \A s, t \in Live : s = t
    BY <2>4 DEF Live
  <2>6. /\ lapsed \subseteq Keys /\ unanswered \subseteq Events
        /\ tenant \in {"TRIAL", "ACTIVE"} /\ faults \in 0..MaxFaults
    OBVIOUS
  <2> HIDE DEF Init
  <2> QED
    BY <1>1, <1>2, <2>1, <2>2, <2>3, <2>4, <2>5, <2>6, Zenon DEF TypeOK
<1>5. (\A h \in Handlers : Knows(h)) /\ LockExclusive
  BY DEF Knows, LockExclusive, At, Idle, Locking
<1>6. (\A k \in Keys : RowsAgree(k)) /\ PlanRests
  BY DEF RowsAgree, PlanRests, Status, Trial
<1> QED
  BY <1>4, <1>5, <1>6 DEF IInv

\* Types of what is left alone.
LEMMA Typed ==
  ASSUME IInv
  PROVE  /\ TypeOK
         /\ lapsed \subseteq Keys
         /\ unanswered \subseteq Events
         /\ ledger \in [Events -> {"NONE", "PROCESSED", "FAILED"}]
         /\ faults \in 0..MaxFaults
BY DEF IInv, TypeOK

\* A handler is done, or rolled back.
LEMMA LeaveStep ==
  ASSUME IInv, NEW h \in Handlers, Leave(h),
         UNCHANGED <<intents, lapsed, asked, charged, accountVars>>,
         unanswered' \subseteq Events,
         ledger' \in [Events -> {"NONE", "PROCESSED", "FAILED"}],
         faults' \in 0..MaxFaults
  PROVE  IInv'
<1>1. Idle \in HandlerState /\ Become(h, Idle) /\ Idle.at \notin Locking
  BY Typed, HandlerRecords DEF Leave, Idle, Locking
<1>2. handler'[h] = Idle
  BY <1>1, Typed, OneHandlerMoves
<1>3. Knows(h)'
  BY <1>2 DEF Knows, At, Idle
<1> QED
  BY <1>1, <1>3, HandlerStep

\* Where no handler moves and no table a handler looks at, nothing changes.
LEMMA NoHandlerStep ==
  ASSUME IInv, UNCHANGED <<intents, handler, asked, charged, accountVars>>,
         lapsed' \subseteq Keys,
         unanswered' \subseteq Events,
         ledger' \in [Events -> {"NONE", "PROCESSED", "FAILED"}],
         faults' \in 0..MaxFaults
  PROVE  IInv'
<1> USE DEF accountVars
<1>1. TypeOK'
  BY DEF IInv, TypeOK, Status, Live
<1>2. \A h \in Handlers : Knows(h)'
  BY DEF IInv, Knows, At, Key, Status
<1>3. LockExclusive' /\ \A k \in Keys : RowsAgree(k)'
  BY DEF IInv, LockExclusive, RowsAgree, Key, Status
<1>4. PlanRests'
  BY DEF IInv, PlanRests
<1> QED
  BY <1>1, <1>2, <1>3, <1>4 DEF IInv

LEMMA RequestStep ==
  ASSUME IInv, NEW h \in Handlers, NEW k \in Keys, NEW p \in Plans, Request(h, k, p)
  PROVE  IInv'
<1> USE DEF intentVars, paystackVars, accountVars
<1>1. PICK place \in {"quote", "expire", "reopen"} :
        /\ Begin(h, place, k, p, Nothing)
        /\ place # "quote" => Status(k) # "ABSENT"
  BY DEF Request
<1> DEFINE state ==
      [at |-> place, key |-> k, plan |-> p, amount |-> Nothing, event |-> Nothing]
<1>2. place \in Place \ Locking
  BY DEF Place, Locking
<1>3. state \in HandlerState /\ Become(h, state)
  BY <1>1, <1>2, Typed, HandlerRecords DEF Begin
<1>4. state.at = place /\ state.key = k /\ state.plan = p
  OBVIOUS
<1> HIDE DEF state
<1>5. handler'[h] = state /\ intents' = intents
  BY <1>3, Typed, OneHandlerMoves DEF Request
<1>6. Knows(h)'
  BY <1>1, <1>4, <1>5 DEF Knows, At, Key, Status
<1>7. UNCHANGED <<intents, lapsed, asked, charged, unanswered, ledger, accountVars, faults>>
  BY DEF Request
<1> QED
  BY <1>2, <1>3, <1>4, <1>6, <1>7, Typed, HandlerStep

LEMMA ExpireStep ==
  ASSUME IInv, NEW h \in Handlers, Expire(h) \/ Fail(h)
  PROVE  IInv'
<1>1. PICK k \in Keys : k = Key(h)
  BY DEF IInv, Knows, Expire, Fail, At
<1>2. PICK status \in {"EXPIRED", "FAILED"} : SetStatus(k, status)
  BY <1>1 DEF Expire, Fail
<1> DEFINE intent == [intents[k] EXCEPT !.status = status]
<1>3. intent \in Intent
  BY Typed, IntentRecords
<1>4. /\ intent.status = status /\ intent.plan = intents[k].plan
      /\ intent.amount = intents[k].amount /\ intent.url = intents[k].url
  BY Typed DEF TypeOK, Intent
<1>5. SetIntent(k, intent)
  BY <1>2 DEF SetStatus
<1> HIDE DEF intent
<1>6. Status(k) # "ABSENT" /\ Free(k)
  BY <1>1 DEF IInv, Knows, Expire, Fail, At
<1>7. /\ intents[k].plan # Nothing /\ intents[k].amount # Nothing
      /\ intents[k].url => asked[k] # Nothing
  BY <1>6 DEF IInv, TypeOK, RowsAgree
<1>8. /\ Leave(h)
      /\ UNCHANGED <<lapsed, paystackVars, ledger, accountVars, faults>>
  BY DEF Expire, Fail
<1>9. Idle \in HandlerState /\ Become(h, Idle) /\ Idle.at \notin Locking
  BY <1>8, Typed, HandlerRecords DEF Leave, Idle, Locking
<1>10. handler'[h] = Idle
  BY <1>9, Typed, OneHandlerMoves
<1>11. Knows(h)'
  BY <1>10 DEF Knows, At, Idle
<1>12. intent.status # "ABSENT"
  BY <1>4
<1> QED
  BY <1>1, <1>3, <1>4, <1>5, <1>6, <1>7, <1>8, <1>9, <1>11, <1>12, IntentStep

LEMMA ReopenStep ==
  ASSUME IInv, NEW h \in Handlers, Reopen(h)
  PROVE  IInv'
<1>1. PICK k \in Keys : k = Key(h)
  BY DEF IInv, Knows, Reopen, At
<1>2. /\ UNCHANGED <<lapsed, paystackVars, ledger, accountVars, faults>>
      /\ Status(k) # "ABSENT" /\ Free(k)
  BY <1>1 DEF IInv, Knows, Reopen, At
<1>3. CASE Leave(h) /\ UNCHANGED intents
  BY <1>2, <1>3, Typed, LeaveStep DEF paystackVars
<1>4. CASE SetStatus(k, "PENDING") /\ AskFor(h, intents[k].amount)
  <2> DEFINE intent == [intents[k] EXCEPT !.status = "PENDING"]
             state == [handler[h] EXCEPT !.at = "ask", !.amount = intents[k].amount]
  <2>1. intent \in Intent
    BY Typed, IntentRecords
  <2>2. /\ intent.status = "PENDING" /\ intent.plan = intents[k].plan
        /\ intent.amount = intents[k].amount /\ intent.url = intents[k].url
    BY Typed DEF TypeOK, Intent
  <2>3. SetIntent(k, intent) /\ Become(h, state)
    BY <1>4 DEF SetStatus, AskFor
  <2>4. /\ intents[k].plan # Nothing /\ intents[k].amount \in Amounts
        /\ intents[k].url => asked[k] # Nothing
    BY <1>2 DEF IInv, TypeOK, RowsAgree, Intent
  <2>5. state \in HandlerState
    BY <2>4, Typed, HandlerRecords
  <2>6. state.at = "ask" /\ state.key = k /\ state.amount = intents[k].amount
    BY <1>1, Typed DEF TypeOK, HandlerState, Key
  <2> HIDE DEF intent, state
  <2>7. handler'[h] = state /\ intents'[k] = intent
    BY <2>1, <2>3, <2>5, Typed, OneHandlerMoves, OneIntentMoves
  <2>8. Knows(h)'
    BY <2>2, <2>6, <2>7 DEF Knows, At, Key, Status
  <2>9. state.at \notin Locking /\ intent.status # "ABSENT" /\ intent.amount # Nothing
    BY <2>2, <2>4, <2>6 DEF Locking
  <2> QED
    BY <1>1, <1>2, <2>1, <2>2, <2>3, <2>4, <2>5, <2>8, <2>9, IntentStep
<1> QED
  BY <1>1, <1>3, <1>4 DEF Reopen

LEMMA InsertStep ==
  ASSUME IInv, NEW h \in Handlers, Insert(h)
  PROVE  IInv'
<1>1. PICK k \in Keys : k = Key(h)
  BY DEF IInv, Knows, Insert, At
<1>2. /\ UNCHANGED <<lapsed, paystackVars, ledger, accountVars, faults>>
      /\ handler[h].plan \in Plans
  BY DEF IInv, Knows, Insert
<1>3. CASE Leave(h) /\ UNCHANGED intents
  BY <1>2, <1>3, Typed, LeaveStep DEF paystackVars
<1>4. CASE Status(k) = "ABSENT" /\ \E a \in Amounts : SetIntent(k, Pending(h, a)) /\ AskFor(h, a)
  <2>1. PICK a \in Amounts : SetIntent(k, Pending(h, a)) /\ AskFor(h, a)
    BY <1>4
  <2> DEFINE intent == Pending(h, a)
             state == [handler[h] EXCEPT !.at = "ask", !.amount = a]
  <2>2. intent \in Intent
    BY <1>2 DEF Pending, Intent
  <2>3. /\ intent.status = "PENDING" /\ intent.plan = handler[h].plan
        /\ intent.amount = a /\ intent.url = FALSE
    BY DEF Pending
  <2>4. state \in HandlerState
    BY Typed, HandlerRecords
  <2>5. state.at = "ask" /\ state.key = k /\ state.amount = a
    BY <1>1, Typed DEF TypeOK, HandlerState, Key
  <2>6. SetIntent(k, intent) /\ Become(h, state)
    BY <2>1 DEF AskFor
  <2> HIDE DEF intent, state
  <2>7. handler'[h] = state /\ intents'[k] = intent
    BY <2>2, <2>4, <2>6, Typed, OneHandlerMoves, OneIntentMoves
  <2>8. Knows(h)'
    BY <2>3, <2>5, <2>7 DEF Knows, At, Key, Status
  <2>9. /\ state.at \notin Locking /\ intent.status # "ABSENT"
        /\ intent.amount # Nothing /\ intent.plan # Nothing
    BY <1>2, <2>3, <2>5 DEF Locking
  <2> QED
    BY <1>1, <1>2, <1>4, <2>2, <2>3, <2>4, <2>6, <2>8, <2>9, IntentStep
<1> QED
  BY <1>1, <1>3, <1>4 DEF Insert

LEMMA InitializeStep ==
  ASSUME IInv, NEW h \in Handlers, Initialize(h)
  PROVE  IInv'
<1>1. PICK k \in Keys : k = Key(h)
  BY DEF IInv, Knows, Initialize, At
<1> DEFINE intent == [intents[k] EXCEPT !.status = "INITIALIZED", !.url = TRUE]
<1>2. intent \in Intent
  BY Typed, IntentRecords
<1>3. /\ intent.status = "INITIALIZED" /\ intent.plan = intents[k].plan
      /\ intent.amount = intents[k].amount
  BY Typed DEF TypeOK, Intent
<1>4. SetIntent(k, intent)
  BY <1>1 DEF Initialize
<1> HIDE DEF intent
<1>5. Status(k) # "ABSENT" /\ Free(k) /\ asked[k] # Nothing
  BY <1>1 DEF IInv, Knows, Initialize, At
<1>6. intents[k].plan # Nothing /\ intents[k].amount # Nothing
  BY <1>5 DEF IInv, TypeOK, RowsAgree
<1>7. /\ Leave(h)
      /\ UNCHANGED <<lapsed, paystackVars, ledger, accountVars, faults>>
  BY DEF Initialize
<1>8. Idle \in HandlerState /\ Become(h, Idle) /\ Idle.at \notin Locking
  BY <1>7, Typed, HandlerRecords DEF Leave, Idle, Locking
<1>9. handler'[h] = Idle
  BY <1>8, Typed, OneHandlerMoves
<1>10. Knows(h)'
  BY <1>9 DEF Knows, At, Idle
<1>11. intent.status # "ABSENT"
  BY <1>3
<1> QED
  BY <1>1, <1>2, <1>3, <1>4, <1>5, <1>6, <1>7, <1>8, <1>10, <1>11, IntentStep

LEMMA AskStep ==
  ASSUME IInv, NEW h \in Handlers, Ask(h)
  PROVE  IInv'
<1> USE DEF intentVars, accountVars
<1>1. PICK k \in Keys : k = Key(h)
  BY DEF IInv, Knows, Ask, At
<1>2. /\ TypeOK /\ LockExclusive /\ PlanRests
      /\ (\A g \in Handlers : Knows(g)) /\ (\A j \in Keys : RowsAgree(j))
      /\ Status(k) # "ABSENT" /\ handler[h].amount = intents[k].amount
      /\ intents[k].amount \in Amounts /\ intents[k].amount # Nothing
  BY <1>1 DEF IInv, Knows, Ask, At, TypeOK, RowsAgree, Intent
<1>3. PICK place \in {"initialized", "failed"} :
        /\ Proceed(h, place)
        /\ place = "initialized" => asked[k] = Nothing /\ asked'[k] = intents[k].amount
  BY <1>1, <1>2 DEF Ask, TypeOK
<1>4. /\ asked' \in [Keys -> Amounts \cup {Nothing}]
      /\ asked'[k] # Nothing => asked'[k] = intents[k].amount
      /\ asked[k] # Nothing => asked'[k] = asked[k]
      /\ \A j \in Keys \ {k} : asked'[j] = asked[j]
  BY <1>1, <1>2 DEF Ask, TypeOK, RowsAgree
<1>5. /\ faults' \in 0..MaxFaults
      /\ UNCHANGED <<intents, lapsed, charged, unanswered, ledger, accountVars>>
  BY Typed, FaultTyped DEF Ask
<1> DEFINE state == [handler[h] EXCEPT !.at = place]
<1>6. place \in Place \ Locking
  BY DEF Place, Locking
<1>7. state \in HandlerState /\ Become(h, state)
  BY <1>3, <1>6, Typed, HandlerRecords DEF Proceed
<1>8. state.at = place /\ state.key = k
  BY <1>1, Typed DEF TypeOK, HandlerState, Key
<1> HIDE DEF state
<1>9. /\ handler' \in [Handlers -> HandlerState] /\ handler'[h] = state
      /\ \A g \in Handlers \ {h} : handler'[g] = handler[g]
  BY <1>2, <1>7, OneHandlerMoves
<1>10. TypeOK'
  BY <1>2, <1>4, <1>5, <1>9 DEF TypeOK, Status, Live
<1>11. Keeps
  BY <1>4, <1>5 DEF Keeps, Status
<1>12. \A j \in Keys : RowsAgree(j)'
  BY <1>2, <1>4, <1>5 DEF RowsAgree, Status
<1>13. \A g \in Handlers : Knows(g)'
  <2>1. Knows(h)'
    BY <1>2, <1>3, <1>5, <1>8, <1>9 DEF Knows, At, Key, Status
  <2>2. ASSUME NEW g \in Handlers \ {h}
        PROVE  Knows(g)'
    BY <1>2, <1>5, <1>9, <1>11, OthersKnow DEF Status
  <2> QED
    BY <2>1, <2>2
<1>14. LockExclusive'
  BY <1>2, <1>6, <1>7, <1>8, LockKept
<1>15. PlanRests'
  BY <1>2, <1>5 DEF PlanRests
<1> QED
  BY <1>10, <1>12, <1>13, <1>14, <1>15 DEF IInv

(***************************************************************************)
(* The returning browser and the webhook                                   *)
(***************************************************************************)

LEMMA ReturnStep ==
  ASSUME IInv, NEW h \in Handlers, NEW k \in Keys, Return(h, k)
  PROVE  IInv'
<1> USE DEF intentVars, paystackVars
<1> DEFINE state == [at |-> "verify", key |-> k, plan |-> Nothing,
                     amount |-> Nothing, event |-> Nothing]
<1>1. state \in HandlerState /\ Become(h, state)
  BY Typed, HandlerRecords DEF Return, Begin, Place
<1>2. state.at = "verify" /\ state.key = k /\ state.at \notin Locking
  BY DEF Locking
<1> HIDE DEF state
<1>3. handler'[h] = state
  BY <1>1, Typed, OneHandlerMoves
<1>4. Knows(h)'
  BY <1>2, <1>3 DEF Knows, At, Key
<1> QED
  BY <1>1, <1>2, <1>4, Typed, HandlerStep DEF Return

\* A handler with a checkout goes on to a place where nothing need be known.
LEMMA ProceedStep ==
  ASSUME IInv, NEW h \in Handlers, Key(h) \in Keys,
         NEW place \in {"lock", "settled", "mismatch", "activate"}, Proceed(h, place),
         UNCHANGED <<intentVars, paystackVars, ledger, accountVars, faults>>,
         place \in Locking => Free(Key(h)),
         place = "activate" =>
           /\ Status(Key(h)) \notin {"ABSENT", "SUCCEEDED"}
           /\ charged[Key(h)] = intents[Key(h)].amount
  PROVE  IInv'
<1> USE DEF intentVars, paystackVars
<1> PICK k \in Keys : k = Key(h)
  OBVIOUS
<1> DEFINE state == [handler[h] EXCEPT !.at = place]
<1>1. place \in Place
  BY DEF Place, Locking
<1>2. state \in HandlerState /\ Become(h, state)
  BY <1>1, Typed, HandlerRecords DEF Proceed
<1>3. state.at = place /\ state.key = k
  BY Typed DEF TypeOK, HandlerState, Key
<1> HIDE DEF state
<1>4. handler'[h] = state
  BY <1>2, Typed, OneHandlerMoves
<1>5. Knows(h)'
  BY <1>3, <1>4 DEF Knows, At, Key, Status
<1> QED
  BY <1>2, <1>3, <1>5, Typed, HandlerStep

LEMMA VerifyStep ==
  ASSUME IInv, NEW h \in Handlers, Verify(h)
  PROVE  IInv'
<1> USE DEF intentVars, paystackVars
<1>1. Key(h) \in Keys
  BY DEF IInv, Knows, Verify, At
<1>2. CASE Proceed(h, "lock") /\ UNCHANGED faults
  BY <1>1, <1>2, ProceedStep DEF Verify, Locking
<1>3. CASE Leave(h) /\ (Fault \/ UNCHANGED faults)
  BY <1>3, Typed, FaultTyped, LeaveStep DEF Verify
<1> QED
  BY <1>2, <1>3 DEF Verify

LEMMA DeliverStep ==
  ASSUME IInv, NEW h \in Handlers, NEW e \in Events, Deliver(h, e)
  PROVE  IInv'
<1> USE DEF intentVars
<1>1. /\ UNCHANGED <<intents, lapsed, asked, charged, ledger, accountVars, faults>>
      /\ unanswered' \subseteq Events
  BY Typed DEF Deliver
<1>2. CASE Begin(h, Handling(e), e.of, Nothing, e)
  <2> DEFINE state == [at |-> Handling(e), key |-> e.of, plan |-> Nothing,
                       amount |-> Nothing, event |-> e]
  <2>1. e.of \in Keys
    BY CheckoutAssumption DEF Events, Charged, Disabled, NotRenewed
  <2>2. Handling(e) \in {"lock", "apply"} /\ (Handling(e) = "apply" => Ending(e))
    BY CheckoutAssumption DEF Handling, Ending, Events, Charged, Disabled, NotRenewed
  <2>3. Handling(e) \in Place
    BY <2>2 DEF Place
  <2>4. state \in HandlerState /\ Become(h, state)
    BY <1>2, <2>1, <2>3, Typed, HandlerRecords DEF Begin
  <2>5. /\ state.at \in {"lock", "apply"} /\ state.key \in Keys
        /\ state.at = "apply" => Ending(state.event)
    BY <2>1, <2>2
  <2> HIDE DEF state
  <2>6. handler'[h] = state
    BY <2>4, Typed, OneHandlerMoves
  <2>7. Knows(h)'
    BY <2>5, <2>6 DEF Knows, At, Key
  <2> QED
    BY <1>1, <2>4, <2>5, <2>7, Typed, HandlerStep DEF Locking
<1>3. CASE UNCHANGED handler
  BY <1>1, <1>3, Typed, NoHandlerStep
<1> QED
  BY <1>2, <1>3 DEF Deliver

\* The commit of a handler leaves the ledger and Paystack's events typed.
LEMMA ConcludeTyped ==
  ASSUME IInv, NEW h \in Handlers, NEW status \in {"PROCESSED", "FAILED"},
         Conclude(h, status)
  PROVE  /\ Leave(h)
         /\ unanswered' \subseteq Events
         /\ ledger' \in [Events -> {"NONE", "PROCESSED", "FAILED"}]
         /\ faults' \in 0..MaxFaults
<1>1. CASE handler[h].event = Nothing
  BY <1>1, Typed DEF Conclude
<1>2. CASE handler[h].event # Nothing
  <2>1. PICK e \in Events : e = handler[h].event
    BY <1>2, Typed DEF TypeOK, HandlerState
  <2>2. ledger' = [ledger EXCEPT ![e] = status]
    BY <1>2, <2>1 DEF Conclude
  <2>3. unanswered' = unanswered \/ unanswered' = unanswered \ {e}
    BY <1>2, <2>1 DEF Conclude
  <2>4. Fault \/ UNCHANGED faults
    BY <1>2, <2>1 DEF Conclude
  <2>5. Leave(h)
    BY DEF Conclude
  <2> QED
    BY <2>2, <2>3, <2>4, <2>5, Typed, FaultTyped
<1> QED
  BY <1>1, <1>2

LEMMA LockStep ==
  ASSUME IInv, NEW h \in Handlers, Lock(h)
  PROVE  IInv'
<1> USE DEF intentVars, paystackVars
<1>1. PICK k \in Keys : k = Key(h)
  BY DEF IInv, Knows, Lock, At
<1>2. Free(k) /\ Proceed(h, AfterLock(k))
  BY <1>1 DEF Lock
<1>3. CASE Status(k) \in {"ABSENT", "SUCCEEDED"}
  <2>1. AfterLock(k) = "settled"
    BY <1>3 DEF AfterLock
  <2> QED
    BY <1>1, <1>2, <2>1, ProceedStep DEF Lock
<1>4. CASE Status(k) \notin {"ABSENT", "SUCCEEDED"} /\ charged[k] # intents[k].amount
  <2>1. AfterLock(k) = "mismatch"
    BY <1>4 DEF AfterLock
  <2> QED
    BY <1>1, <1>2, <2>1, ProceedStep DEF Lock
<1>5. CASE Status(k) \notin {"ABSENT", "SUCCEEDED"} /\ charged[k] = intents[k].amount
  <2>1. AfterLock(k) = "activate"
    BY <1>5 DEF AfterLock
  <2> QED
    BY <1>1, <1>2, <1>5, <2>1, ProceedStep DEF Lock
<1> QED
  BY <1>3, <1>4, <1>5

\* Steps that end a handler and leave the checkout and the account alone.
LEMMA EndStep ==
  ASSUME IInv, NEW h \in Handlers,
         \/ QuoteFails(h) \/ Crash(h) \/ Settled(h) \/ Mismatch(h)
         \/ ActivateClashes(h) \/ ApplyClashes(h)
  PROVE  IInv'
<1> USE DEF intentVars, paystackVars
<1>1. CASE Settled(h)
  BY <1>1, ConcludeTyped, LeaveStep DEF Settled
<1>2. CASE Mismatch(h)
  BY <1>2, ConcludeTyped, LeaveStep DEF Mismatch
<1>3. CASE Crash(h)
  BY <1>3, Typed, FaultTyped, LeaveStep DEF Crash
<1>4. CASE QuoteFails(h)
  BY <1>4, Typed, LeaveStep DEF QuoteFails
<1>5. CASE ActivateClashes(h) \/ ApplyClashes(h)
  BY <1>5, Typed, LeaveStep DEF ActivateClashes, ApplyClashes, RollBack
<1> QED
  BY <1>1, <1>2, <1>3, <1>4, <1>5

(***************************************************************************)
(* The account                                                             *)
(***************************************************************************)

\* A step on the subscriptions alone, with a handler that ends or none.
LEMMA SubscriptionStep ==
  ASSUME IInv, UNCHANGED <<intents, lapsed, asked, charged, tenant, invoices>>,
         \/ UNCHANGED handler
         \/ \E h \in Handlers : Leave(h),
         unanswered' \subseteq Events,
         ledger' \in [Events -> {"NONE", "PROCESSED", "FAILED"}],
         faults' \in 0..MaxFaults,
         subscriptions' \subseteq Subscription,
         \A s, t \in Live' : s = t,
         \A s, t \in subscriptions' : s.code = t.code /\ s.code # Nothing => s = t,
         \A s \in subscriptions' : s.plan # "TRIAL" =>
           \E r \in subscriptions : r.plan = s.plan
  PROVE  IInv'
<1>1. /\ TypeOK /\ LockExclusive /\ PlanRests
      /\ (\A h \in Handlers : Knows(h)) /\ (\A k \in Keys : RowsAgree(k))
  BY DEF IInv
<1>2. /\ handler' \in [Handlers -> HandlerState]
      /\ \A h \in Handlers : handler'[h] = handler[h] \/ handler'[h] = Idle
  <2>1. CASE UNCHANGED handler
    BY <1>1, <2>1 DEF TypeOK
  <2>2. ASSUME NEW h \in Handlers, Leave(h)
        PROVE  /\ handler' \in [Handlers -> HandlerState]
               /\ \A g \in Handlers : handler'[g] = handler[g] \/ handler'[g] = Idle
    <3>1. Idle \in HandlerState /\ Become(h, Idle)
      BY <1>1, <2>2, HandlerRecords DEF Leave
    <3> QED
      BY <1>1, <3>1, OneHandlerMoves
  <2> QED
    BY <2>1, <2>2
<1>3. TypeOK'
  BY <1>1, <1>2 DEF TypeOK, Status
<1>4. ASSUME NEW h \in Handlers
      PROVE  Knows(h)'
  <2>1. CASE handler'[h] = Idle
    BY <2>1 DEF Knows, At, Idle
  <2>2. CASE handler'[h] = handler[h]
    BY <1>1, <2>2 DEF Knows, At, Key, Status
  <2> QED
    BY <1>2, <2>1, <2>2
<1>5. LockExclusive'
  BY <1>1, <1>2 DEF LockExclusive, Locking, Key, Idle
<1>6. \A k \in Keys : RowsAgree(k)'
  BY <1>1 DEF RowsAgree, Status
<1>7. PlanRests'
  BY <1>1 DEF PlanRests
<1> QED
  BY <1>3, <1>4, <1>5, <1>6, <1>7 DEF IInv

LEMMA ApplyStep ==
  ASSUME IInv, NEW h \in Handlers, Apply(h)
  PROVE  IInv'
<1> USE DEF intentVars
<1>1. PICK k \in Keys : \E e \in {Disabled(k), NotRenewed(k)} : e = handler[h].event
  BY DEF IInv, Knows, Apply, At, Ending
<1> PICK e \in {Disabled(k), NotRenewed(k)} : e = handler[h].event
  BY <1>1
<1>2. e.of = k /\ k # Nothing /\ (e = NotRenewed(k) <=> e # Disabled(k))
  BY <1>1, CheckoutAssumption DEF Disabled, NotRenewed
<1> DEFINE status == StatusAfter(e)
           new(s) == [s EXCEPT !.status = status]
<1>3. /\ status \in {"CANCELLED", "ACTIVE"}
      /\ status = "ACTIVE" => Live \ Named(k) = {} \/ Named(k) = {}
  BY <1>1, <1>2 DEF StatusAfter, TwoLive, Apply
<1>4. /\ Conclude(h, "PROCESSED")
      /\ UNCHANGED <<intents, lapsed, asked, charged, tenant, invoices>>
      /\ subscriptions' = (subscriptions \ Named(k)) \cup {new(s) : s \in Named(k)}
  BY <1>1, <1>2 DEF Apply
<1> HIDE DEF status
<1>5. /\ subscriptions \subseteq Subscription
      /\ \A s, t \in Live : s = t
      /\ \A s, t \in subscriptions : s.code = t.code /\ s.code # Nothing => s = t
  BY DEF IInv, TypeOK
<1>6. ASSUME NEW s \in Subscription
      PROVE  /\ new(s) \in Subscription /\ new(s).status = status
             /\ new(s).plan = s.plan /\ new(s).code = s.code
  BY <1>3 DEF Subscription
<1> HIDE DEF new
<1>7. Named(k) \subseteq subscriptions /\ \A s \in subscriptions : s \in Named(k) <=> s.code = k
  BY DEF Named
<1>8. \A s, t \in Named(k) : s = t
  BY <1>2, <1>5, <1>7
<1>9. subscriptions' \subseteq Subscription
  BY <1>4, <1>5, <1>6, <1>7
<1>10. \A s, t \in Live' : s = t
  BY <1>3, <1>4, <1>5, <1>6, <1>7, <1>8 DEF Live
<1>11. ASSUME NEW s \in subscriptions', NEW t \in subscriptions',
              s.code = t.code, s.code # Nothing
       PROVE  s = t
  <2>1. CASE s \in subscriptions \ Named(k) /\ t \in subscriptions \ Named(k)
    BY <1>5, <1>11, <2>1
  <2>2. CASE s \in subscriptions \ Named(k) <=> t \notin subscriptions \ Named(k)
    BY <1>4, <1>5, <1>6, <1>7, <1>11, <2>2
  <2>3. CASE s \notin subscriptions \ Named(k) /\ t \notin subscriptions \ Named(k)
    BY <1>4, <1>8, <2>3
  <2> QED
    BY <2>1, <2>2, <2>3
<1>12. \A s \in subscriptions' : s.plan # "TRIAL" => \E r \in subscriptions : r.plan = s.plan
  BY <1>4, <1>5, <1>6, <1>7
<1>13. /\ Leave(h) /\ unanswered' \subseteq Events
       /\ ledger' \in [Events -> {"NONE", "PROCESSED", "FAILED"}]
       /\ faults' \in 0..MaxFaults
  BY <1>4, ConcludeTyped
<1> QED
  BY <1>4, <1>9, <1>10, <1>11, <1>12, <1>13, SubscriptionStep

LEMMA ProvisionStep ==
  ASSUME IInv, Provision
  PROVE  IInv'
<1> USE DEF intentVars, paystackVars
<1>1. /\ subscriptions' = subscriptions \cup {Trial} /\ Live = {}
      /\ UNCHANGED <<intents, lapsed, asked, charged, tenant, invoices, handler,
                     unanswered, ledger, faults>>
  BY DEF Provision
<1>2. /\ subscriptions \subseteq Subscription
      /\ \A s, t \in subscriptions : s.code = t.code /\ s.code # Nothing => s = t
  BY DEF IInv, TypeOK
<1>3. Trial \in Subscription /\ Trial.code = Nothing /\ Trial.plan = "TRIAL"
  BY DEF Trial, Subscription
<1>4. \A s, t \in Live' : s = t
  BY <1>1 DEF Live
<1> QED
  BY <1>1, <1>2, <1>3, <1>4, Typed, SubscriptionStep

LEMMA PeriodEndsStep ==
  ASSUME IInv, NEW r \in subscriptions, PeriodEnds(r)
  PROVE  IInv'
<1> USE DEF intentVars, paystackVars
<1> DEFINE new == [r EXCEPT !.running = FALSE]
<1>1. /\ subscriptions' = (subscriptions \ {r}) \cup {new}
      /\ UNCHANGED <<intents, lapsed, asked, charged, tenant, invoices, handler,
                     unanswered, ledger, faults>>
  BY DEF PeriodEnds
<1>2. /\ subscriptions \subseteq Subscription
      /\ \A s, t \in Live : s = t
      /\ \A s, t \in subscriptions : s.code = t.code /\ s.code # Nothing => s = t
  BY DEF IInv, TypeOK
<1>3. /\ new \in Subscription /\ new.status = r.status
      /\ new.code = r.code /\ new.plan = r.plan
  BY <1>2 DEF Subscription
<1> HIDE DEF new
<1>4. \A s, t \in Live' : s = t
  BY <1>1, <1>2, <1>3 DEF Live
<1>5. \A s, t \in subscriptions' : s.code = t.code /\ s.code # Nothing => s = t
  BY <1>1, <1>2, <1>3
<1>6. subscriptions' \subseteq Subscription
  BY <1>1, <1>2, <1>3
<1>7. \A s \in subscriptions' : s.plan # "TRIAL" => \E t \in subscriptions : t.plan = s.plan
  BY <1>1, <1>3
<1> QED
  BY <1>1, <1>4, <1>5, <1>6, <1>7, Typed, SubscriptionStep

\* The row Activate leaves is the one live row, and its code is no other's.
LEMMA RenewedRow ==
  ASSUME IInv, NEW k \in Keys, Status(k) # "ABSENT", ~CodeIsTaken(k)
  PROVE  /\ Renewed(k) \in Subscription
         /\ Renewed(k).status = "ACTIVE" /\ Renewed(k).plan = intents[k].plan
         /\ \A s \in subscriptions \ Live : s.code # Nothing => s.code # Renewed(k).code
<1>1. /\ subscriptions \subseteq Subscription
      /\ \A s, t \in subscriptions : s.code = t.code /\ s.code # Nothing => s = t
      /\ intents[k].plan \in Plans
  BY DEF IInv, TypeOK, Intent
<1>2. Renewed(k).status = "ACTIVE" /\ Renewed(k).plan = intents[k].plan
  BY DEF Renewed
<1>3. CASE k \in Subscribed \/ Live = {}
  <2>1. Renewed(k).code = CodeOf(k) /\ CodeOf(k) \in Keys \cup {Nothing}
    BY <1>3 DEF Renewed, CodeOf
  <2>2. Renewed(k) \in Subscription
    BY <1>1, <1>3, <2>1 DEF Renewed, Subscription
  <2> QED
    BY <1>2, <2>1, <2>2 DEF CodeIsTaken
<1>4. CASE ~(k \in Subscribed \/ Live = {})
  <2>1. PICK r \in Live : r = CHOOSE s \in Live : TRUE
    BY <1>4
  <2>2. r \in subscriptions /\ r \in Subscription
    BY <1>1 DEF Live
  <2>3. Renewed(k).code = r.code
    BY <1>4, <2>1 DEF Renewed
  <2>4. Renewed(k) \in Subscription
    BY <1>1, <1>4, <2>1, <2>2 DEF Renewed, Subscription
  <2> QED
    BY <1>1, <1>2, <2>1, <2>2, <2>3, <2>4
<1> QED
  BY <1>3, <1>4

LEMMA ActivateStep ==
  ASSUME IInv, NEW h \in Handlers, Activate(h)
  PROVE  IInv'
<1> USE DEF intentVars
<1>1. PICK k \in Keys : k = Key(h)
  BY DEF IInv, Knows, Activate, At
<1>2. /\ TypeOK /\ LockExclusive /\ PlanRests
      /\ (\A g \in Handlers : Knows(g)) /\ (\A j \in Keys : RowsAgree(j))
      /\ Status(k) # "ABSENT" /\ charged[k] = intents[k].amount
      /\ intents[k].amount \in Amounts /\ intents[k].amount # Nothing
  BY <1>1 DEF IInv, Knows, Activate, At, TypeOK, RowsAgree, Intent
<1>3. /\ ~CodeIsTaken(k) /\ tenant' = "ACTIVE" /\ SetStatus(k, "SUCCEEDED")
      /\ subscriptions' = (subscriptions \ Live) \cup {Renewed(k)}
      /\ UNCHANGED <<lapsed, asked, charged>>
  BY <1>1 DEF Activate
<1>4. /\ invoices' \in [Keys -> Amounts \cup {Nothing}]
      /\ invoices'[k] = intents[k].amount
      /\ \A j \in Keys \ {k} : invoices'[j] = invoices[j]
  BY <1>1, <1>2 DEF Activate, TypeOK, RowsAgree
<1>5. /\ Leave(h) /\ unanswered' \subseteq Events
      /\ ledger' \in [Events -> {"NONE", "PROCESSED", "FAILED"}]
      /\ faults' \in 0..MaxFaults
  BY ConcludeTyped DEF Activate
<1>6. Idle \in HandlerState /\ Become(h, Idle) /\ Idle.at \notin Locking
  BY <1>2, <1>5, HandlerRecords DEF Leave, Idle, Locking
<1>7. /\ handler' \in [Handlers -> HandlerState] /\ handler'[h] = Idle
      /\ \A g \in Handlers \ {h} : handler'[g] = handler[g]
  BY <1>2, <1>6, OneHandlerMoves
<1>8. /\ intents' \in [Keys -> Intent]
      /\ intents'[k].status = "SUCCEEDED"
      /\ intents'[k].plan = intents[k].plan
      /\ intents'[k].amount = intents[k].amount
      /\ intents'[k].url = intents[k].url
      /\ \A j \in Keys \ {k} : intents'[j] = intents[j]
  BY <1>2, <1>3, StatusMoves
<1>9. /\ Renewed(k) \in Subscription
      /\ Renewed(k).status = "ACTIVE" /\ Renewed(k).plan = intents[k].plan
      /\ \A s \in subscriptions \ Live : s.code # Nothing => s.code # Renewed(k).code
  BY <1>2, <1>3, RenewedRow
<1>10. TypeOK'
  <2>1. \A j \in Keys : (Status(j) = "ABSENT" <=> intents[j].plan = Nothing)'
    BY <1>2, <1>8 DEF TypeOK, Status
  <2>2. subscriptions' \subseteq Subscription
    BY <1>2, <1>3, <1>9 DEF TypeOK
  <2>3. \A s, t \in Live' : s = t
    BY <1>3 DEF Live
  <2>4. ASSUME NEW s \in subscriptions', NEW t \in subscriptions',
               s.code = t.code, s.code # Nothing
        PROVE  s = t
    BY <1>2, <1>3, <1>9, <2>4 DEF TypeOK
  <2>5. /\ lapsed' \subseteq Keys
        /\ asked' \in [Keys -> Amounts \cup {Nothing}]
        /\ charged' \in [Keys -> Amounts \cup {Nothing}]
        /\ tenant' \in {"TRIAL", "ACTIVE"}
    BY <1>2, <1>3 DEF TypeOK
  <2> QED
    BY <1>4, <1>5, <1>7, <1>8, <2>1, <2>2, <2>3, <2>4, <2>5, Zenon DEF TypeOK
<1>11. Keeps
  BY <1>2, <1>3, <1>4, <1>8 DEF Keeps, Status, RowsAgree
<1>12. \A j \in Keys : RowsAgree(j)'
  <2>1. RowsAgree(k)'
    BY <1>2, <1>3, <1>4, <1>8 DEF RowsAgree, Status
  <2>2. ASSUME NEW j \in Keys \ {k}
        PROVE  RowsAgree(j)'
    BY <1>2, <1>3, <1>4, <1>8, <2>2 DEF RowsAgree, Status
  <2> QED
    BY <2>1, <2>2
<1>13. \A g \in Handlers : Knows(g)'
  <2>1. Knows(h)'
    BY <1>7 DEF Knows, At, Idle
  <2>2. ASSUME NEW g \in Handlers \ {h}
        PROVE  Knows(g)'
    <3>1. Knows(g) /\ handler'[g] = handler[g]
      BY <1>2, <1>7
    <3>2. At(g, "activate") => intents'[Key(g)].status = Status(Key(g))
      <4>1. SUFFICES ASSUME At(g, "activate")
                     PROVE  intents'[Key(g)].status = Status(Key(g))
        OBVIOUS
      <4>2. Key(g) \in Keys /\ Key(g) # k
        BY <1>1, <1>2, <3>1, <4>1 DEF Knows, At, LockExclusive, Locking, Activate
      <4> QED
        BY <1>8, <4>2 DEF Status
    <3> QED
      BY <1>2, <1>11, <3>1, <3>2, OthersKnow
  <2> QED
    BY <2>1, <2>2
<1>14. LockExclusive'
  BY <1>2, <1>6, LockKept
<1>15. PlanRests'
  <2>1. ASSUME NEW s \in subscriptions', s.plan # "TRIAL"
        PROVE  \E j \in Keys : invoices'[j] # Nothing /\ intents'[j].plan = s.plan
    <3>1. CASE s = Renewed(k)
      BY <1>2, <1>4, <1>8, <1>9, <3>1
    <3>2. CASE s \in subscriptions
      <4>1. PICK j \in Keys : invoices[j] # Nothing /\ intents[j].plan = s.plan
        BY <1>2, <2>1, <3>2 DEF PlanRests
      <4>2. invoices'[j] # Nothing /\ intents'[j].plan = intents[j].plan
        BY <1>2, <1>4, <1>8, <4>1
      <4> QED
        BY <4>1, <4>2
    <3> QED
      BY <1>3, <3>1, <3>2
  <2> QED
    BY <2>1 DEF PlanRests
<1> QED
  BY <1>10, <1>12, <1>13, <1>14, <1>15 DEF IInv

(***************************************************************************)
(* The customer and the clock                                              *)
(***************************************************************************)

LEMMA PayStep ==
  ASSUME IInv, NEW k \in Keys, Pay(k)
  PROVE  IInv'
<1> USE DEF intentVars, accountVars
<1>1. /\ TypeOK /\ (\A j \in Keys : RowsAgree(j)) /\ (\A h \in Handlers : Knows(h))
      /\ LockExclusive /\ PlanRests
  BY DEF IInv
<1>2. PICK a \in Amounts :
        /\ charged' = [charged EXCEPT ![k] = a]
        /\ Fault \/ UNCHANGED faults
  BY DEF Pay
<1>3. /\ charged' \in [Keys -> Amounts \cup {Nothing}] /\ charged'[k] = a
      /\ \A j \in Keys \ {k} : charged'[j] = charged[j]
      /\ charged[k] = Nothing /\ asked[k] # Nothing
      /\ UNCHANGED <<intents, lapsed, handler, asked, ledger, accountVars>>
  BY <1>1, <1>2 DEF Pay, TypeOK, RowsAgree
<1>4. unanswered' \subseteq Events /\ faults' \in 0..MaxFaults
  BY <1>1, <1>2, FaultTyped DEF TypeOK, Pay, Events
<1>5. TypeOK'
  BY <1>1, <1>3, <1>4 DEF TypeOK, Status, Live
<1>6. Keeps
  BY <1>3 DEF Keeps, Status
<1>7. \A h \in Handlers : Knows(h)'
  BY <1>1, <1>3, <1>6, OthersKnow DEF Status
<1>8. \A j \in Keys : RowsAgree(j)'
  <2>1. RowsAgree(k)'
    BY <1>1, <1>3 DEF RowsAgree, Status
  <2>2. ASSUME NEW j \in Keys \ {k}
        PROVE  RowsAgree(j)'
    BY <1>1, <1>3, <2>2 DEF RowsAgree, Status
  <2> QED
    BY <2>1, <2>2
<1>9. LockExclusive' /\ PlanRests'
  BY <1>1, <1>3 DEF LockExclusive, PlanRests, Key
<1> QED
  BY <1>5, <1>7, <1>8, <1>9 DEF IInv

LEMMA OutsideStep ==
  ASSUME IInv, NEW k \in Keys, EndSubscription(k) \/ Lapse(k)
  PROVE  IInv'
<1> USE DEF intentVars, paystackVars
<1>1. CASE EndSubscription(k)
  <2>1. unanswered' \subseteq Events
    BY <1>1, Typed DEF EndSubscription, Events
  <2> QED
    BY <1>1, <2>1, Typed, NoHandlerStep DEF EndSubscription
<1>2. CASE Lapse(k)
  BY <1>2, Typed, NoHandlerStep DEF Lapse
<1> QED
  BY <1>1, <1>2

(***************************************************************************)
(* The theorems                                                            *)
(***************************************************************************)

LEMMA NextKeeps == IInv /\ [Next]_vars => IInv'
<1>1. SUFFICES ASSUME IInv, [Next]_vars
               PROVE  IInv'
  OBVIOUS
<1>2. CASE UNCHANGED vars
  BY <1>1, <1>2, Typed, NoHandlerStep DEF vars, intentVars, paystackVars, accountVars
<1>3. ASSUME NEW h \in Handlers, NEW k \in Keys, Return(h, k)
      PROVE  IInv'
  BY <1>1, <1>3, ReturnStep
<1>4. ASSUME NEW h \in Handlers, NEW k \in Keys, NEW p \in Plans, Request(h, k, p)
      PROVE  IInv'
  BY <1>1, <1>4, RequestStep
<1>5. ASSUME NEW h \in Handlers, Initializing(h)
      PROVE  IInv'
  BY <1>1, <1>5, ExpireStep, ReopenStep, InsertStep, AskStep, InitializeStep, EndStep
    DEF Initializing
<1>6. ASSUME NEW h \in Handlers, Activating(h)
      PROVE  IInv'
  BY <1>1, <1>6, VerifyStep, LockStep, EndStep, ActivateStep DEF Activating
<1>7. ASSUME NEW h \in Handlers, Apply(h) \/ ApplyClashes(h) \/ Crash(h)
      PROVE  IInv'
  BY <1>1, <1>7, ApplyStep, EndStep
<1>8. ASSUME NEW h \in Handlers, NEW e \in Events, Deliver(h, e)
      PROVE  IInv'
  BY <1>1, <1>8, DeliverStep
<1>9. ASSUME NEW k \in Keys, Pay(k) \/ EndSubscription(k) \/ Lapse(k)
      PROVE  IInv'
  BY <1>1, <1>9, PayStep, OutsideStep
<1>10. ASSUME NEW s \in subscriptions, PeriodEnds(s)
       PROVE  IInv'
  BY <1>1, <1>10, PeriodEndsStep
<1>11. CASE Provision
  BY <1>1, <1>11, ProvisionStep
<1> QED
  BY <1>1, <1>2, <1>3, <1>4, <1>5, <1>6, <1>7, <1>8, <1>9, <1>10, <1>11, Zenon
    DEF Next, Continue

\* The inductive invariant: what the rows, Paystack and the handlers under way
\* know of one another, in every order of their steps and of the faults.
THEOREM Invariance == Spec => []IInv
<1>1. Init => IInv
  BY InitEstablishes
<1>2. IInv /\ [Next]_vars => IInv'
  BY NextKeeps
<1> QED
  BY <1>1, <1>2, PTL DEF Spec

\* The rows of billing.* keep their types, the workspace never has two live
\* subscriptions, and no subscription code names two rows.
THEOREM TypeCorrectness == Spec => []TypeOK
<1>1. IInv => TypeOK
  BY DEF IInv
<1> QED
  BY <1>1, Invariance, PTL

\* A workspace is on a paid plan only by an invoice of a checkout for that
\* plan, through every renewal, cancellation, reactivation and rollback.
THEOREM PaidPlansRestOnInvoices == Spec => []PlanIsPaidFor
<1>1. IInv => PlanIsPaidFor
  BY DEF IInv, PlanRests, PlanIsPaidFor, Live
<1> QED
  BY <1>1, Invariance, PTL

(***************************************************************************)
(* The implementation of Sale                                              *)
(***************************************************************************)

Price == [k \in Keys |-> intents[k].amount]

\* A step that leaves every amount alone is no step of the sale.
LEMMA Unsold ==
  ASSUME \A k \in Keys : intents'[k].amount = intents[k].amount,
         UNCHANGED <<asked, charged, invoices>>
  PROVE  UNCHANGED Promise!saleVars
<1>1. Price' = Price
  BY DEF Price
<1> QED
  BY <1>1 DEF Promise!saleVars, Price

LEMMA IntentUnsold ==
  ASSUME IInv, NEW h \in Handlers, Expire(h) \/ Fail(h) \/ Reopen(h) \/ Initialize(h)
  PROVE  UNCHANGED Promise!saleVars
<1> USE DEF paystackVars, accountVars
<1>1. PICK k \in Keys : k = Key(h)
  BY DEF IInv, Knows, Expire, Fail, Reopen, Initialize, At
<1>2. UNCHANGED <<asked, charged, invoices>>
  BY DEF Expire, Fail, Reopen, Initialize
<1>3. CASE UNCHANGED intents
  BY <1>2, <1>3, Unsold
<1>4. ASSUME NEW status \in {"EXPIRED", "FAILED", "PENDING"}, SetStatus(k, status)
      PROVE  UNCHANGED Promise!saleVars
  <2>1. \A j \in Keys : intents'[j].amount = intents[j].amount
    BY <1>4, Typed, StatusMoves
  <2> QED
    BY <1>2, <2>1, Unsold
<1>5. CASE Initialize(h)
  <2>1. intents[k] \in Intent
    BY Typed DEF TypeOK
  <2>2. /\ [intents[k] EXCEPT !.status = "INITIALIZED", !.url = TRUE].amount
             = intents[k].amount
        /\ [intents[k] EXCEPT !.status = "INITIALIZED", !.url = TRUE] \in Intent
    BY <2>1, Typed, IntentRecords DEF Intent
  <2>3. \A j \in Keys : intents'[j].amount = intents[j].amount
    BY <1>1, <1>5, <2>2, Typed, OneIntentMoves DEF Initialize
  <2> QED
    BY <1>2, <2>3, Unsold
<1> QED
  BY <1>1, <1>3, <1>4, <1>5 DEF Expire, Fail, Reopen

LEMMA InsertQuotes ==
  ASSUME IInv, NEW h \in Handlers, Insert(h)
  PROVE  [Promise!SaleNext]_Promise!saleVars
<1> USE DEF paystackVars, accountVars
<1>1. PICK k \in Keys : k = Key(h)
  BY DEF IInv, Knows, Insert, At
<1>2. UNCHANGED <<asked, charged, invoices>> /\ handler[h].plan \in Plans
  BY DEF Insert, IInv, Knows
<1>3. CASE UNCHANGED intents
  BY <1>2, <1>3, Unsold
<1>4. ASSUME NEW a \in Amounts, Status(k) = "ABSENT", SetIntent(k, Pending(h, a))
      PROVE  [Promise!SaleNext]_Promise!saleVars
  <2>1. Pending(h, a) \in Intent /\ Pending(h, a).amount = a
    BY <1>2 DEF Pending, Intent
  <2>2. /\ intents'[k].amount = a
        /\ \A j \in Keys \ {k} : intents'[j] = intents[j]
    BY <1>4, <2>1, Typed, OneIntentMoves
  <2>3. Price[k] = Nothing
    BY <1>4 DEF IInv, RowsAgree, Price
  <2>4. Price' = [Price EXCEPT ![k] = a]
    BY <2>2 DEF Price
  <2>5. Promise!Quote(k, a)
    BY <1>2, <2>3, <2>4 DEF Promise!Quote, Price
  <2> QED
    BY <2>5 DEF Promise!SaleNext
<1> QED
  BY <1>1, <1>3, <1>4 DEF Insert

LEMMA AskCollects ==
  ASSUME IInv, NEW h \in Handlers, Ask(h)
  PROVE  [Promise!SaleNext]_Promise!saleVars
<1> USE DEF intentVars, accountVars
<1>1. PICK k \in Keys : k = Key(h)
  BY DEF IInv, Knows, Ask, At
<1>2. UNCHANGED <<intents, charged, invoices>>
  BY DEF Ask
<1>3. CASE UNCHANGED asked
  BY <1>2, <1>3, Unsold
<1>4. CASE asked[k] = Nothing /\ asked' = [asked EXCEPT ![k] = handler[h].amount]
  <2>1. Price[k] = handler[h].amount /\ Price[k] # Nothing /\ Price' = Price
    BY <1>1, <1>2 DEF IInv, Knows, Ask, At, RowsAgree, Price
  <2>2. Promise!Collect(k)
    BY <1>2, <1>4, <2>1 DEF Promise!Collect, Price
  <2> QED
    BY <2>2 DEF Promise!SaleNext
<1> QED
  BY <1>1, <1>3, <1>4 DEF Ask

LEMMA PayCharges ==
  ASSUME IInv, NEW k \in Keys, Pay(k)
  PROVE  [Promise!SaleNext]_Promise!saleVars
<1>1. PICK a \in Amounts : charged' = [charged EXCEPT ![k] = a]
  BY DEF Pay
<1>2. UNCHANGED <<intents, asked, invoices>> /\ charged[k] = Nothing /\ asked[k] # Nothing
  BY DEF IInv, Pay, RowsAgree, intentVars, accountVars
<1>3. Promise!Charge(k, a)
  BY <1>1, <1>2 DEF Promise!Charge
<1> QED
  BY <1>3 DEF Promise!SaleNext

LEMMA ActivateInvoices ==
  ASSUME IInv, NEW h \in Handlers, Activate(h)
  PROVE  [Promise!SaleNext]_Promise!saleVars
<1>1. PICK k \in Keys : k = Key(h)
  BY DEF IInv, Knows, Activate, At
<1>2. /\ charged[k] = intents[k].amount /\ charged[k] # Nothing
      /\ UNCHANGED <<asked, charged>>
      /\ \A j \in Keys : intents'[j].amount = intents[j].amount
  BY <1>1, Typed, StatusMoves DEF IInv, Knows, Activate, At, RowsAgree
<1>3. invoices' = [invoices EXCEPT ![k] = IF @ = Nothing THEN intents[k].amount ELSE @]
  BY <1>1 DEF Activate
<1>4. CASE invoices[k] # Nothing
  <2>1. invoices' = invoices
    BY <1>3, <1>4, Typed DEF TypeOK
  <2> QED
    BY <1>2, <2>1, Unsold
<1>5. CASE invoices[k] = Nothing
  <2>1. Price' = Price /\ Price[k] = intents[k].amount
    BY <1>2 DEF Price
  <2>2. invoices' = [invoices EXCEPT ![k] = Price[k]]
    BY <1>3, <1>5, <2>1
  <2>3. Promise!Invoice(k)
    BY <1>2, <1>5, <2>1, <2>2 DEF Promise!Invoice, Price
  <2> QED
    BY <2>3 DEF Promise!SaleNext
<1> QED
  BY <1>4, <1>5

\* What every other step leaves alone.
LEMMA OtherUnsold ==
  ASSUME \/ UNCHANGED vars \/ Provision
         \/ \E h \in Handlers : \/ QuoteFails(h) \/ Verify(h) \/ Lock(h) \/ Settled(h)
                                \/ Mismatch(h) \/ ActivateClashes(h) \/ Crash(h)
                                \/ Apply(h) \/ ApplyClashes(h)
         \/ \E h \in Handlers, k \in Keys : Return(h, k) \/ \E p \in Plans : Request(h, k, p)
         \/ \E h \in Handlers, e \in Events : Deliver(h, e)
         \/ \E k \in Keys : EndSubscription(k) \/ Lapse(k)
         \/ \E s \in subscriptions : PeriodEnds(s)
  PROVE  UNCHANGED Promise!saleVars
<1>1. UNCHANGED <<intents, asked, charged, invoices>>
  BY DEF vars, intentVars, paystackVars, accountVars, Provision, QuoteFails, Verify, Lock,
         Settled, Mismatch, ActivateClashes, Crash, Apply, ApplyClashes, RollBack, Return,
         Request, Deliver, EndSubscription, Lapse, PeriodEnds
<1> QED
  BY <1>1, Unsold

LEMMA SaleStep ==
  ASSUME IInv, [Next]_vars
  PROVE  [Promise!SaleNext]_Promise!saleVars
<1>1. ASSUME NEW h \in Handlers, Initializing(h)
      PROVE  [Promise!SaleNext]_Promise!saleVars
  BY <1>1, IntentUnsold, InsertQuotes, AskCollects, OtherUnsold DEF Initializing
<1>2. ASSUME NEW h \in Handlers, Activating(h)
      PROVE  [Promise!SaleNext]_Promise!saleVars
  BY <1>2, ActivateInvoices, OtherUnsold DEF Activating
<1>3. ASSUME NEW k \in Keys, Pay(k)
      PROVE  [Promise!SaleNext]_Promise!saleVars
  BY <1>3, PayCharges
<1> QED
  BY <1>1, <1>2, <1>3, OtherUnsold DEF Next, Continue

\* Billing keeps Sale's promise: one quote per checkout, a collection of that
\* quote and no other, and one invoice, for a charge of exactly that amount.
THEOREM ImplementsTheSale == Spec => ImplementsSale
<1>1. Init => Promise!SaleInit
  BY DEF Init, Promise!SaleInit, Promise!Unset
<1>2. IInv /\ [Next]_vars => [Promise!SaleNext]_Promise!saleVars
  BY SaleStep
<1> QED
  BY <1>1, <1>2, Invariance, PTL DEF Spec, ImplementsSale, Promise!SaleSpec

(***************************************************************************)
(* No payment is forgotten                                                 *)
(***************************************************************************)

\* Where a handler deals with a charge.
Dealing == {"lock"} \cup Locking

\* What a handler that deals with a charge knows of it beyond its row.
Deals(h) ==
  /\ At(h, "verify") => handler[h].event = Nothing
  /\ handler[h].at \in Dealing =>
       /\ charged[Key(h)] # Nothing
       /\ handler[h].event \in {Nothing, Charged(Key(h))}
  /\ At(h, "settled") => invoices[Key(h)] # Nothing
  /\ At(h, "mismatch") => charged[Key(h)] # asked[Key(h)]

\* The ledger of events, Paystack's and the rows agree: a settled checkout and an
\* event processed have an invoice, an event that failed has another amount.
Booked(k) ==
  /\ Charged(k) \in unanswered => charged[k] # Nothing
  /\ Status(k) = "SUCCEEDED" => invoices[k] # Nothing
  /\ ledger[Charged(k)] # "NONE" => charged[k] # Nothing
  /\ ledger[Charged(k)] = "PROCESSED" => invoices[k] # Nothing
  /\ ledger[Charged(k)] = "FAILED" => charged[k] # asked[k]
  /\ charged[k] # Nothing /\ charged[k] = asked[k] =>
       invoices[k] # Nothing \/ Charged(k) \in unanswered

BookInv == (\A h \in Handlers : Deals(h)) /\ (\A k \in Keys : Booked(k))

LEMMA EventsDiffer ==
  /\ \A k \in Keys : Charged(k) \in Events /\ Charged(k).of = k
  /\ \A e \in Events : e # Charged(e.of) => Ending(e)
  /\ \A e : Ending(e) => \A k \in Keys : e # Charged(k)
<1>1. \A k \in Keys : Charged(k).of = k /\ Charged(k).type = "charge.success"
  BY DEF Charged
<1>2. ASSUME NEW e, Ending(e), NEW k \in Keys
      PROVE  e # Charged(k)
  BY <1>1, <1>2 DEF Ending, Disabled, NotRenewed
<1>3. ASSUME NEW e \in Events, e # Charged(e.of)
      PROVE  Ending(e)
  BY <1>1, <1>3, CheckoutAssumption DEF Events, Ending
<1>4. \A k \in Keys : Charged(k) \in Events
  BY DEF Events
<1> QED
  BY <1>1, <1>2, <1>3, <1>4

\* What was charged and asked for, and what was invoiced, stays.
MoneyStays(k) ==
  /\ charged[k] # Nothing => charged'[k] = charged[k] /\ asked'[k] = asked[k]
  /\ invoices[k] # Nothing => invoices'[k] = invoices[k]

LEMMA StepKeepsMoney ==
  ASSUME IInv, Next, NEW k \in Keys
  PROVE  MoneyStays(k)
<1>1. /\ asked \in [Keys -> Amounts \cup {Nothing}]
      /\ charged \in [Keys -> Amounts \cup {Nothing}]
      /\ invoices \in [Keys -> Amounts \cup {Nothing}]
      /\ charged[k] # Nothing => asked[k] # Nothing
  BY DEF IInv, TypeOK, RowsAgree
<1>2. [Promise!SaleNext]_Promise!saleVars
  BY SaleStep
<1>3. CASE UNCHANGED Promise!saleVars
  BY <1>3 DEF MoneyStays, Promise!saleVars
<1>4. ASSUME NEW j \in Keys, Promise!Collect(j)
      PROVE  MoneyStays(k)
  BY <1>1, <1>4 DEF MoneyStays, Promise!Collect
<1>5. ASSUME NEW j \in Keys, Promise!Invoice(j)
      PROVE  MoneyStays(k)
  BY <1>1, <1>5 DEF MoneyStays, Promise!Invoice
<1>6. ASSUME NEW j \in Keys, NEW a \in Amounts, Promise!Quote(j, a) \/ Promise!Charge(j, a)
      PROVE  MoneyStays(k)
  BY <1>1, <1>6 DEF MoneyStays, Promise!Quote, Promise!Charge
<1> QED
  BY <1>2, <1>3, <1>4, <1>5, <1>6 DEF Promise!SaleNext

\* What a handler knows of a payment stays true while it rests.
LEMMA OthersDeal ==
  ASSUME IInv, \A k \in Keys : MoneyStays(k), NEW g \in Handlers, Deals(g),
         handler'[g] = handler[g]
  PROVE  Deals(g)'
<1>1. handler[g].at \in Dealing \cup {"verify"} => Key(g) \in Keys
  BY DEF IInv, Knows, At, Dealing, Locking
<1>2. At(g, "settled") \/ At(g, "mismatch") => handler[g].at \in Dealing
  BY DEF At, Dealing, Locking
<1> QED
  BY <1>1, <1>2 DEF Deals, At, Key, MoneyStays

\* A handler that deals with no charge has nothing to know.
LEMMA NoDeal ==
  ASSUME NEW h \in Handlers, handler'[h].at \notin Dealing \cup {"verify"}
  PROVE  Deals(h)'
BY DEF Deals, At, Dealing, Locking

\* The books still agree if an event is dropped, or entered in the ledger, only
\* when its payment is invoiced or not what was asked for.
LEMMA BookedStays ==
  ASSUME NEW k \in Keys, Booked(k), MoneyStays(k),
         Charged(k) \in unanswered' =>
           Charged(k) \in unanswered \/ charged'[k] # Nothing,
         Charged(k) \in unanswered =>
           \/ Charged(k) \in unanswered'
           \/ invoices'[k] # Nothing
           \/ charged[k] # asked[k],
         charged[k] = Nothing /\ charged'[k] # Nothing => Charged(k) \in unanswered',
         Status(k)' = "SUCCEEDED" => Status(k) = "SUCCEEDED" \/ invoices'[k] # Nothing,
         \/ ledger'[Charged(k)] = ledger[Charged(k)]
         \/ /\ charged[k] # Nothing
            /\ \/ ledger'[Charged(k)] = "PROCESSED" /\ invoices'[k] # Nothing
               \/ ledger'[Charged(k)] = "FAILED" /\ charged[k] # asked[k]
  PROVE  Booked(k)'
<1>1. /\ (Charged(k) \in unanswered)' => charged'[k] # Nothing
      /\ ledger'[Charged(k)] # "NONE" => charged'[k] # Nothing
  BY DEF Booked, MoneyStays
<1>2. /\ Status(k)' = "SUCCEEDED" => invoices'[k] # Nothing
      /\ ledger'[Charged(k)] = "PROCESSED" => invoices'[k] # Nothing
  BY DEF Booked, MoneyStays
<1>3. ledger'[Charged(k)] = "FAILED" => charged'[k] # asked'[k]
  BY DEF Booked, MoneyStays
<1>4. charged'[k] # Nothing /\ charged'[k] = asked'[k] =>
        invoices'[k] # Nothing \/ Charged(k) \in unanswered'
  BY DEF Booked, MoneyStays
<1> QED
  BY <1>1, <1>2, <1>3, <1>4 DEF Booked, Charged, Status

\* Steps that neither settle a checkout nor touch a payment or its event.
LEMMA QuietStep ==
  ASSUME IInv, BookInv, \A k \in Keys : MoneyStays(k),
         UNCHANGED <<charged, ledger, unanswered>>,
         \A k \in Keys : Status(k)' = "SUCCEEDED" => Status(k) = "SUCCEEDED",
         \A g \in Handlers : handler'[g] = handler[g] \/ Deals(g)'
  PROVE  BookInv'
<1>1. \A g \in Handlers : Deals(g)'
  BY OthersDeal DEF BookInv
<1>2. \A k \in Keys : Booked(k)'
  BY BookedStays DEF BookInv
<1> QED
  BY <1>1, <1>2 DEF BookInv

\* A handler that moves on, where the others stay.
LEMMA MoveOn ==
  ASSUME IInv, NEW h \in Handlers
  PROVE  /\ \A state : Become(h, state) =>
              /\ handler'[h] = state
              /\ \A g \in Handlers \ {h} : handler'[g] = handler[g]
         /\ \A place : [handler[h] EXCEPT !.at = place].at = place
         /\ \A a : [handler[h] EXCEPT !.at = "ask", !.amount = a].at = "ask"
         /\ Idle.at = "idle"
<1>1. handler[h] \in HandlerState /\ DOMAIN handler = Handlers
  BY DEF IInv, TypeOK
<1>2. \A place : [handler[h] EXCEPT !.at = place].at = place
  BY <1>1 DEF HandlerState
<1>3. \A a : [handler[h] EXCEPT !.at = "ask", !.amount = a].at = "ask"
  BY <1>1 DEF HandlerState
<1> QED
  BY <1>1, <1>2, <1>3 DEF Become, Idle

\* The other handlers where one becomes another.
LEMMA Alone ==
  ASSUME IInv, NEW h \in Handlers, NEW state, Become(h, state),
         state.at \notin Dealing \cup {"verify"}
  PROVE  \A g \in Handlers : handler'[g] = handler[g] \/ Deals(g)'
BY MoveOn, NoDeal

LEMMA LeaveAlone ==
  ASSUME IInv, NEW h \in Handlers, Leave(h)
  PROVE  \A g \in Handlers : handler'[g] = handler[g] \/ Deals(g)'
BY MoveOn, Alone DEF Leave, Dealing, Locking

(***************************************************************************)
(* The steps that leave payments alone                                     *)
(***************************************************************************)
LEMMA RequestBooks ==
  ASSUME IInv, BookInv, \A k \in Keys : MoneyStays(k), NEW h \in Handlers,
         \E k \in Keys : Return(h, k) \/ \E p \in Plans : Request(h, k, p)
  PROVE  BookInv'
<1>1. UNCHANGED <<intents, charged, ledger, unanswered>>
  BY DEF Return, Request, intentVars, paystackVars
<1>2. PICK state : /\ Become(h, state) /\ state.event = Nothing
                   /\ state.at \in {"quote", "expire", "reopen", "verify"}
  <2>1. PICK place \in {"quote", "expire", "reopen", "verify"} :
          \E k, p : Begin(h, place, k, p, Nothing)
    BY DEF Return, Request
  <2>2. PICK k, p : Begin(h, place, k, p, Nothing)
    BY <2>1
  <2> DEFINE begun == [at |-> place, key |-> k, plan |-> p, amount |-> Nothing,
                       event |-> Nothing]
  <2>3. Become(h, begun) /\ begun.at = place /\ begun.event = Nothing
    BY <2>2 DEF Begin
  <2> HIDE DEF begun
  <2> QED
    BY <2>3
<1>3. handler'[h] = state
  BY <1>2, MoveOn
<1>4. Deals(h)'
  BY <1>2, <1>3 DEF Deals, At, Dealing, Locking
<1>5. \A g \in Handlers : handler'[g] = handler[g] \/ Deals(g)'
  BY <1>2, <1>4, MoveOn
<1> QED
  BY <1>1, <1>5, QuietStep DEF Status

\* Of the steps of a checkout request none settles the checkout.
LEMMA InitializingBooks ==
  ASSUME IInv, BookInv, \A k \in Keys : MoneyStays(k), NEW h \in Handlers,
         Initializing(h)
  PROVE  BookInv'
<1>1. UNCHANGED <<charged, ledger, unanswered>>
  BY DEF Initializing, Expire, Reopen, QuoteFails, Insert, Ask, Fail, Initialize,
         paystackVars
<1>2. \A g \in Handlers : handler'[g] = handler[g] \/ Deals(g)'
  <2>1. CASE Leave(h)
    BY <2>1, LeaveAlone
  <2>2. ASSUME NEW a, AskFor(h, a)
        PROVE  \A g \in Handlers : handler'[g] = handler[g] \/ Deals(g)'
    BY <2>2, MoveOn, Alone DEF AskFor, Dealing, Locking
  <2>3. ASSUME NEW place \in {"initialized", "failed"}, Proceed(h, place)
        PROVE  \A g \in Handlers : handler'[g] = handler[g] \/ Deals(g)'
    <3>1. [handler[h] EXCEPT !.at = place].at = place
      BY MoveOn
    <3>2. place \notin Dealing \cup {"verify"}
      BY DEF Dealing, Locking
    <3> QED
      BY <2>3, <3>1, <3>2, Alone DEF Proceed
  <2> QED
    BY <2>1, <2>2, <2>3
       DEF Initializing, Expire, Reopen, QuoteFails, Insert, Ask, Fail, Initialize
<1>3. ASSUME NEW k \in Keys, Status(k)' = "SUCCEEDED"
      PROVE  Status(k) = "SUCCEEDED"
  <2>1. CASE UNCHANGED intents
    BY <1>3, <2>1 DEF Status
  <2>2. ASSUME NEW j \in Keys, NEW status \in {"PENDING", "FAILED", "EXPIRED"},
               SetStatus(j, status)
        PROVE  Status(k) = "SUCCEEDED"
    <3>1. intents'[j].status = status /\ \A i \in Keys \ {j} : intents'[i] = intents[i]
      BY <2>2, Typed, StatusMoves
    <3> QED
      BY <1>3, <3>1 DEF Status
  <2>3. ASSUME NEW j \in Keys, NEW intent \in Intent, intent.status # "SUCCEEDED",
               SetIntent(j, intent)
        PROVE  Status(k) = "SUCCEEDED"
    <3>1. intents'[j] = intent /\ \A i \in Keys \ {j} : intents'[i] = intents[i]
      BY <2>3, Typed, OneIntentMoves
    <3> QED
      BY <1>3, <2>3, <3>1 DEF Status
  <2>4. CASE Expire(h) \/ Reopen(h) \/ Fail(h)
    <3>1. Key(h) \in Keys
      BY <2>4 DEF IInv, Knows, At, Expire, Reopen, Fail
    <3> QED
      BY <2>1, <2>2, <2>4, <3>1 DEF Expire, Reopen, Fail
  <2>5. CASE Insert(h)
    <3>1. Key(h) \in Keys /\ handler[h].plan \in Plans
      BY <2>5 DEF IInv, Knows, At, Insert
    <3>2. ASSUME NEW a \in Amounts
          PROVE  Pending(h, a) \in Intent /\ Pending(h, a).status = "PENDING"
      BY <3>1 DEF Pending, Intent
    <3> QED
      BY <2>1, <2>3, <2>5, <3>1, <3>2 DEF Insert
  <2>6. CASE Initialize(h)
    <3>1. PICK j \in Keys : j = Key(h)
      BY <2>6 DEF IInv, Knows, At, Initialize
    <3> DEFINE intent == [intents[j] EXCEPT !.status = "INITIALIZED", !.url = TRUE]
    <3>2. intent \in Intent
      BY Typed, IntentRecords
    <3>3. intent.status = "INITIALIZED"
      BY Typed DEF TypeOK, Intent
    <3>4. SetIntent(j, intent)
      BY <2>6, <3>1 DEF Initialize
    <3> HIDE DEF intent
    <3> QED
      BY <2>3, <3>2, <3>3, <3>4
  <2>7. CASE QuoteFails(h) \/ Ask(h)
    BY <2>1, <2>7 DEF QuoteFails, Ask, intentVars
  <2> QED
    BY <2>4, <2>5, <2>6, <2>7 DEF Initializing
<1> QED
  BY <1>1, <1>2, <1>3, QuietStep

LEMMA EndingBooks ==
  ASSUME IInv, BookInv, \A k \in Keys : MoneyStays(k), NEW h \in Handlers,
         ActivateClashes(h) \/ ApplyClashes(h) \/ Crash(h)
  PROVE  BookInv'
<1>1. UNCHANGED <<intents, charged, ledger, unanswered>> /\ Leave(h)
  BY DEF ActivateClashes, ApplyClashes, Crash, RollBack, intentVars, paystackVars
<1> QED
  BY <1>1, LeaveAlone, QuietStep DEF Status

LEMMA AloneBooks ==
  ASSUME IInv, BookInv, \A k \in Keys : MoneyStays(k),
         \/ UNCHANGED vars \/ Provision
         \/ \E k \in Keys : Lapse(k)
         \/ \E s \in subscriptions : PeriodEnds(s)
  PROVE  BookInv'
<1>1. UNCHANGED <<intents, handler, charged, ledger, unanswered>>
  BY DEF vars, Provision, Lapse, PeriodEnds, intentVars, paystackVars
<1> QED
  BY <1>1, QuietStep DEF Status

(***************************************************************************)
(* The steps of a payment                                                  *)
(***************************************************************************)
\* Paystack repeats one event more.
LEMMA PaystackBooks ==
  ASSUME IInv, BookInv, \A k \in Keys : MoneyStays(k), NEW j \in Keys,
         Pay(j) \/ EndSubscription(j)
  PROVE  BookInv'
<1>1. UNCHANGED <<intents, handler, ledger>>
  BY DEF Pay, EndSubscription, intentVars
<1>2. \A g \in Handlers : Deals(g)'
  BY <1>1, OthersDeal DEF BookInv
<1>3. CASE Pay(j)
  <2>1. PICK a \in Amounts : charged' = [charged EXCEPT ![j] = a]
    BY <1>3 DEF Pay
  <2>2. /\ charged'[j] = a /\ a # Nothing
        /\ \A k \in Keys \ {j} : charged'[k] = charged[k]
    BY <2>1 DEF IInv, TypeOK
  <2>3. unanswered' = unanswered \cup {Charged(j)}
    BY <1>3 DEF Pay
  <2>4. \A k \in Keys : Charged(k) = Charged(j) => k = j
    BY EventsDiffer
  <2>5. \A k \in Keys : Booked(k)'
    BY <1>1, <2>2, <2>3, <2>4, BookedStays DEF BookInv, Status
  <2> QED
    BY <1>2, <2>5 DEF BookInv
<1>4. CASE EndSubscription(j)
  <2>1. PICK e \in {Disabled(j), NotRenewed(j)} : unanswered' = unanswered \cup {e}
    BY <1>4 DEF EndSubscription
  <2>2. UNCHANGED charged
    BY <1>4 DEF EndSubscription
  <2>3. \A k \in Keys : e # Charged(k)
    BY EventsDiffer DEF Ending
  <2>4. \A k \in Keys : Booked(k)'
    BY <1>1, <2>1, <2>2, <2>3, BookedStays DEF BookInv, Status
  <2> QED
    BY <1>2, <2>4 DEF BookInv
<1> QED
  BY <1>3, <1>4

LEMMA VerifyBooks ==
  ASSUME IInv, BookInv, \A k \in Keys : MoneyStays(k), NEW h \in Handlers, Verify(h)
  PROVE  BookInv'
<1>1. UNCHANGED <<intents, charged, ledger, unanswered>>
  BY DEF Verify, intentVars, paystackVars
<1>2. \A g \in Handlers : handler'[g] = handler[g] \/ Deals(g)'
  <2>1. CASE Leave(h)
    BY <2>1, LeaveAlone
  <2>2. CASE Proceed(h, "lock") /\ charged[Key(h)] # Nothing
    <3> DEFINE state == [handler[h] EXCEPT !.at = "lock"]
    <3>1. /\ state.at = "lock" /\ state.key = Key(h)
          /\ state.event = handler[h].event
      BY Typed DEF TypeOK, HandlerState, Key
    <3>2. handler'[h] = state /\ \A g \in Handlers \ {h} : handler'[g] = handler[g]
      BY <2>2, MoveOn DEF Proceed
    <3>3. handler[h].event = Nothing
      BY DEF Verify, BookInv, Deals
    <3> HIDE DEF state
    <3>4. Deals(h)'
      BY <1>1, <2>2, <3>1, <3>2, <3>3 DEF Deals, At, Key
    <3> QED
      BY <3>2, <3>4
  <2> QED
    BY <2>1, <2>2 DEF Verify
<1> QED
  BY <1>1, <1>2, QuietStep DEF Status

LEMMA LockBooks ==
  ASSUME IInv, BookInv, \A k \in Keys : MoneyStays(k), NEW h \in Handlers, Lock(h)
  PROVE  BookInv'
<1>1. UNCHANGED <<intents, charged, asked, invoices, ledger, unanswered>>
  BY DEF Lock, intentVars, paystackVars, accountVars
<1>2. PICK k \in Keys : k = Key(h)
  BY DEF IInv, Knows, Lock, At
<1> DEFINE state == [handler[h] EXCEPT !.at = AfterLock(k)]
<1>3. /\ state.at = AfterLock(k) /\ state.key = k
      /\ state.event = handler[h].event
  BY <1>2, Typed DEF TypeOK, HandlerState, Key
<1>4. handler'[h] = state /\ \A g \in Handlers \ {h} : handler'[g] = handler[g]
  BY <1>2, MoveOn DEF Lock, Proceed
<1> HIDE DEF state
<1>5. charged[k] # Nothing /\ handler[h].event \in {Nothing, Charged(k)}
  BY <1>2 DEF BookInv, Deals, Lock, At, Dealing
<1>6. asked[k] = intents[k].amount /\ Status(k) # "ABSENT"
  BY <1>5 DEF IInv, RowsAgree
<1>7. AfterLock(k) \in Locking
  BY DEF AfterLock, Locking
<1>8. AfterLock(k) = "settled" => invoices[k] # Nothing
  BY <1>6 DEF AfterLock, BookInv, Booked
<1>9. AfterLock(k) = "mismatch" => charged[k] # asked[k]
  BY <1>6 DEF AfterLock
<1>10. Deals(h)'
  BY <1>1, <1>3, <1>4, <1>5, <1>7, <1>8, <1>9 DEF Deals, At, Key, Locking
<1> QED
  BY <1>1, <1>4, <1>10, QuietStep DEF Status

LEMMA DeliverBooks ==
  ASSUME IInv, BookInv, \A k \in Keys : MoneyStays(k), NEW h \in Handlers,
         NEW e \in Events, Deliver(h, e)
  PROVE  BookInv'
<1>1. UNCHANGED <<intents, asked, charged, ledger>>
  BY DEF Deliver, intentVars
<1>2. CASE ledger[e] = "NONE"
  <2>1. UNCHANGED unanswered /\ Begin(h, Handling(e), e.of, Nothing, e)
    BY <1>2 DEF Deliver
  <2> DEFINE state == [at |-> Handling(e), key |-> e.of, plan |-> Nothing,
                       amount |-> Nothing, event |-> e]
  <2>2. state.at = Handling(e) /\ state.key = e.of /\ state.event = e
    OBVIOUS
  <2>3. handler'[h] = state /\ \A g \in Handlers \ {h} : handler'[g] = handler[g]
    BY <2>1, MoveOn DEF Begin
  <2> HIDE DEF state
  <2>4. Deals(h)'
    <3>1. CASE e = Charged(e.of)
      <4>1. e.of \in Keys
        BY CheckoutAssumption DEF Events, Charged, Disabled, NotRenewed
      <4>2. charged[e.of] # Nothing
        BY <3>1, <4>1 DEF Deliver, BookInv, Booked
      <4> QED
        BY <1>1, <2>2, <2>3, <3>1, <4>2 DEF Handling, Deals, At, Key
    <3>2. CASE e # Charged(e.of)
      BY <2>2, <2>3, <3>2, NoDeal DEF Handling, Dealing, Locking
    <3> QED
      BY <3>1, <3>2
  <2> QED
    BY <1>1, <2>1, <2>3, <2>4, QuietStep DEF Status
<1>3. CASE ledger[e] # "NONE"
  <2>1. unanswered' = unanswered \ {e} /\ UNCHANGED handler
    BY <1>3 DEF Deliver
  <2>2. ledger[e] \in {"PROCESSED", "FAILED"}
    BY <1>3 DEF IInv, TypeOK
  <2>3. \A g \in Handlers : Deals(g)'
    BY <2>1, OthersDeal DEF BookInv
  <2>4. ASSUME NEW k \in Keys
        PROVE  Booked(k)'
    <3>1. Booked(k) /\ MoneyStays(k)
      BY DEF BookInv
    <3>2. e = Charged(k) => invoices'[k] # Nothing \/ charged[k] # asked[k]
      BY <2>2, <3>1 DEF Booked, MoneyStays
    <3> QED
      BY <1>1, <2>1, <3>1, <3>2, BookedStays DEF Status
  <2> QED
    BY <2>3, <2>4 DEF BookInv
<1> QED
  BY <1>2, <1>3

\* A handler's commit enters its event in the ledger: a payment's only if that is
\* invoiced by now, or not what was asked for.
LEMMA ConcludeBooks ==
  ASSUME IInv, BookInv, \A k \in Keys : MoneyStays(k), NEW h \in Handlers,
         NEW status \in {"PROCESSED", "FAILED"}, Conclude(h, status),
         UNCHANGED charged,
         \A k \in Keys :
           Status(k)' = "SUCCEEDED" => Status(k) = "SUCCEEDED" \/ invoices'[k] # Nothing,
         \A k \in Keys : handler[h].event = Charged(k) =>
           /\ charged[k] # Nothing
           /\ \/ status = "PROCESSED" /\ invoices'[k] # Nothing
              \/ status = "FAILED" /\ charged[k] # asked[k]
  PROVE  BookInv'
<1>1. Leave(h)
  BY DEF Conclude
<1>2. \A g \in Handlers : Deals(g)'
  BY <1>1, LeaveAlone, OthersDeal DEF BookInv
<1>3. ASSUME NEW k \in Keys
      PROVE  Booked(k)'
  <2>1. Booked(k) /\ MoneyStays(k) /\ Charged(k) \in Events
    BY EventsDiffer DEF BookInv
  <2>2. ledger \in [Events -> {"NONE", "PROCESSED", "FAILED"}]
    BY DEF IInv, TypeOK
  <2>3. CASE handler[h].event = Nothing
    BY <2>1, <2>3, BookedStays DEF Conclude
  <2>4. CASE handler[h].event # Nothing
    <3>1. PICK e \in Events : e = handler[h].event
      BY <2>4, Typed DEF TypeOK, HandlerState
    <3>2. /\ ledger' = [ledger EXCEPT ![e] = status]
          /\ unanswered' = unanswered \/ unanswered' = unanswered \ {e}
      BY <2>4, <3>1 DEF Conclude
    <3>3. CASE e = Charged(k)
      <4>1. ledger'[Charged(k)] = status
        BY <2>1, <2>2, <3>2, <3>3
      <4> QED
        BY <2>1, <3>1, <3>2, <3>3, <4>1, BookedStays
    <3>4. CASE e # Charged(k)
      <4>1. ledger'[Charged(k)] = ledger[Charged(k)]
        BY <2>1, <2>2, <3>2, <3>4
      <4> QED
        BY <2>1, <3>2, <3>4, <4>1, BookedStays
    <3> QED
      BY <3>3, <3>4
  <2> QED
    BY <2>3, <2>4
<1> QED
  BY <1>2, <1>3 DEF BookInv

\* The handler that finds a checkout settled, or paid with another amount.
LEMMA FindingBooks ==
  ASSUME IInv, BookInv, \A k \in Keys : MoneyStays(k), NEW h \in Handlers,
         Settled(h) \/ Mismatch(h)
  PROVE  BookInv'
<1>1. UNCHANGED <<intents, charged, asked, invoices>>
  BY DEF Settled, Mismatch, intentVars, accountVars
<1>2. PICK j \in Keys : j = Key(h)
  BY DEF IInv, Knows, Settled, Mismatch, At
<1>3. charged[j] # Nothing /\ handler[h].event \in {Nothing, Charged(j)}
  BY <1>2 DEF BookInv, Deals, Settled, Mismatch, At, Dealing, Locking
<1>4. CASE handler[h].event = Nothing
  <2>1. UNCHANGED <<ledger, unanswered>> /\ Leave(h)
    BY <1>4 DEF Settled, Mismatch, Conclude
  <2> QED
    BY <1>1, <2>1, LeaveAlone, QuietStep DEF Status
<1>5. CASE handler[h].event # Nothing
  <2>1. \A k \in Keys : handler[h].event = Charged(k) => k = j
    BY <1>3, <1>5, EventsDiffer
  <2>2. CASE Settled(h)
    <3>1. invoices'[j] # Nothing
      BY <1>1, <1>2, <2>2 DEF BookInv, Deals, Settled
    <3> QED
      BY <1>1, <1>3, <2>1, <2>2, <3>1, ConcludeBooks DEF Settled, Status
  <2>3. CASE Mismatch(h)
    <3>1. charged[j] # asked[j]
      BY <1>2, <2>3 DEF BookInv, Deals, Mismatch
    <3> QED
      BY <1>1, <1>3, <2>1, <2>3, <3>1, ConcludeBooks DEF Mismatch, Status
  <2> QED
    BY <2>2, <2>3
<1> QED
  BY <1>4, <1>5

LEMMA ApplyBooks ==
  ASSUME IInv, BookInv, \A k \in Keys : MoneyStays(k), NEW h \in Handlers, Apply(h)
  PROVE  BookInv'
<1>1. UNCHANGED <<intents, charged, asked, invoices>> /\ Conclude(h, "PROCESSED")
  BY DEF Apply, intentVars
<1>2. \A k \in Keys : handler[h].event # Charged(k)
  BY EventsDiffer DEF IInv, Knows, Apply
<1> QED
  BY <1>1, <1>2, ConcludeBooks DEF Status

\* Activation settles the checkout with its invoice.
LEMMA ActivateBooks ==
  ASSUME IInv, BookInv, \A k \in Keys : MoneyStays(k), NEW h \in Handlers, Activate(h)
  PROVE  BookInv'
<1>1. PICK j \in Keys : j = Key(h)
  BY DEF IInv, Knows, Activate, At
<1>2. /\ UNCHANGED <<charged, asked>> /\ Conclude(h, "PROCESSED")
      /\ SetStatus(j, "SUCCEEDED")
      /\ invoices' = [invoices EXCEPT ![j] = IF @ = Nothing THEN intents[j].amount ELSE @]
  BY <1>1 DEF Activate
<1>3. charged[j] # Nothing /\ handler[h].event \in {Nothing, Charged(j)}
  BY <1>1 DEF BookInv, Deals, Activate, At, Dealing, Locking
<1>4. invoices'[j] # Nothing
  <2>1. intents[j].amount # Nothing
    BY <1>3 DEF IInv, RowsAgree
  <2> QED
    BY <1>2, <2>1, Typed DEF TypeOK
<1>5. \A k \in Keys \ {j} : intents'[k] = intents[k]
  BY <1>2, Typed, StatusMoves
<1>6. \A k \in Keys :
        Status(k)' = "SUCCEEDED" => Status(k) = "SUCCEEDED" \/ invoices'[k] # Nothing
  BY <1>4, <1>5 DEF Status
<1>7. \A k \in Keys : Charged(k) = Charged(j) => k = j
  BY EventsDiffer
<1>8. \A k \in Keys : handler[h].event = Charged(k) => k = j \/ handler[h].event = Nothing
  BY <1>3, <1>7
<1>9. CASE handler[h].event # Nothing
  BY <1>2, <1>3, <1>4, <1>6, <1>8, <1>9, ConcludeBooks
<1>10. CASE handler[h].event = Nothing
  <2>1. UNCHANGED <<ledger, unanswered>> /\ Leave(h)
    BY <1>2, <1>10 DEF Conclude
  <2>2. \A g \in Handlers : Deals(g)'
    BY <2>1, LeaveAlone, OthersDeal DEF BookInv
  <2>3. \A k \in Keys : Booked(k)'
    BY <1>2, <1>6, <2>1, BookedStays DEF BookInv
  <2> QED
    BY <2>2, <2>3 DEF BookInv
<1> QED
  BY <1>9, <1>10

LEMMA NextBooks == IInv /\ BookInv /\ [Next]_vars => BookInv'
<1> SUFFICES ASSUME IInv, BookInv, [Next]_vars
             PROVE  BookInv'
  OBVIOUS
<1>1. \A k \in Keys : MoneyStays(k)
  BY StepKeepsMoney DEF MoneyStays, vars, paystackVars, accountVars
<1>2. ASSUME NEW h \in Handlers, NEW k \in Keys,
             Return(h, k) \/ \E p \in Plans : Request(h, k, p)
      PROVE  BookInv'
  BY <1>1, <1>2, RequestBooks
<1>3. ASSUME NEW h \in Handlers, Initializing(h)
      PROVE  BookInv'
  BY <1>1, <1>3, InitializingBooks
<1>4. ASSUME NEW h \in Handlers, Activating(h)
      PROVE  BookInv'
  BY <1>1, <1>4, VerifyBooks, LockBooks, FindingBooks, ActivateBooks, EndingBooks
     DEF Activating
<1>5. ASSUME NEW h \in Handlers, Apply(h) \/ ApplyClashes(h) \/ Crash(h)
      PROVE  BookInv'
  BY <1>1, <1>5, ApplyBooks, EndingBooks
<1>6. ASSUME NEW h \in Handlers, NEW e \in Events, Deliver(h, e)
      PROVE  BookInv'
  BY <1>1, <1>6, DeliverBooks
<1>7. ASSUME NEW k \in Keys, Pay(k) \/ EndSubscription(k)
      PROVE  BookInv'
  BY <1>1, <1>7, PaystackBooks
<1>8. CASE \/ UNCHANGED vars \/ Provision
           \/ \E k \in Keys : Lapse(k)
           \/ \E s \in subscriptions : PeriodEnds(s)
  BY <1>1, <1>8, AloneBooks
<1> QED
  BY <1>2, <1>3, <1>4, <1>5, <1>6, <1>7, <1>8, Zenon DEF Next, Continue

\* A payment of the amount asked for is invoiced, or its event is still repeated:
\* no webhook answered with success, no returning browser, no later request for
\* the key and no failed transaction writes it off.
THEOREM PaymentsAreAccountedFor == Spec => []PaymentsAccountedFor
<1>1. Init => BookInv
  BY EventsDiffer
     DEF Init, BookInv, Deals, Booked, At, Idle, Dealing, Locking, Status
<1>2. BookInv => PaymentsAccountedFor
  BY DEF BookInv, Booked, PaymentsAccountedFor
<1> QED
  BY <1>1, <1>2, NextBooks, Invariance, PTL DEF Spec

(***************************************************************************)
(* One grant while the quote is good                                       *)
(***************************************************************************)

\* A handler asks Paystack for a key from its PENDING row to the row's next status.
Asking == {"ask", "failed", "initialized"}
Asks(h, k) == handler[h].at \in Asking /\ Key(h) = k

\* While a quote is good its row is never EXPIRED, one handler at most asks for it,
\* and a row with a URL or an invoice is past every request.
Fresh(k) ==
  k \notin lapsed =>
    /\ Status(k) # "EXPIRED"
    /\ intents[k].url => Status(k) \in {"INITIALIZED", "SUCCEEDED"}
    /\ invoices[k] # Nothing => Status(k) = "SUCCEEDED"
    /\ \A h \in Handlers : Key(h) = k => ~At(h, "expire")
    /\ \A h \in Handlers : Asks(h, k) => Status(k) = "PENDING"
    /\ \A g, h \in Handlers : Asks(g, k) /\ Asks(h, k) => g = h

\* What is paid for was paid at its URL.
PaidAtUrl(k) == charged[k] # Nothing => intents[k].url

FreshInv == \A k \in Keys : Fresh(k) /\ PaidAtUrl(k)

\* How a handler may move without asking for k, or about to go on with it.
Harmless(g, k) ==
  \/ handler'[g] = handler[g]
  \/ handler'[g].at \notin Asking \cup {"expire"}
  \/ handler'[g].key # k
  \/ handler'[g].at = "expire" /\ k \in lapsed
  \/ handler'[g].at \in Asking /\ Asks(g, k)

LEMMA FreshStays ==
  ASSUME NEW k \in Keys, Fresh(k), lapsed \subseteq lapsed',
         intents'[k] = intents[k], invoices'[k] = invoices[k],
         \A g \in Handlers : Harmless(g, k)
  PROVE  Fresh(k)'
<1> SUFFICES ASSUME k \notin lapsed'
             PROVE  Fresh(k)'
  BY DEF Fresh
<1>1. k \notin lapsed
  OBVIOUS
<1>2. \A g \in Handlers : Asks(g, k)' => Asks(g, k)
  BY <1>1 DEF Harmless, Asks, Key, Asking
<1>3. ASSUME NEW g \in Handlers, Key(g)' = k
      PROVE  ~At(g, "expire")'
  BY <1>1, <1>3 DEF Fresh, Harmless, Asks, At, Key, Asking
<1>4. Status(k)' = Status(k)
  BY DEF Status
<1>5. /\ Status(k)' # "EXPIRED"
      /\ intents'[k].url => Status(k)' \in {"INITIALIZED", "SUCCEEDED"}
      /\ invoices'[k] # Nothing => Status(k)' = "SUCCEEDED"
  BY <1>1, <1>4 DEF Fresh
<1>6. \A g \in Handlers : Asks(g, k)' => Status(k)' = "PENDING"
  BY <1>1, <1>2, <1>4 DEF Fresh
<1>7. \A g, h \in Handlers : Asks(g, k)' /\ Asks(h, k)' => g = h
  BY <1>1, <1>2 DEF Fresh
<1> QED
  BY <1>3, <1>5, <1>6, <1>7 DEF Fresh

\* A handler that writes the row of k, where no other asks for it.
LEMMA FreshRow ==
  ASSUME NEW k \in Keys, NEW h \in Handlers, Fresh(k), UNCHANGED lapsed,
         \A g \in Handlers \ {h} : handler'[g] = handler[g],
         handler'[h].at # "expire",
         k \notin lapsed =>
           /\ Asks(h, k) \/ Status(k) # "PENDING"
           /\ Status(k)' # "EXPIRED"
           /\ intents'[k].url => Status(k)' \in {"INITIALIZED", "SUCCEEDED"}
           /\ invoices'[k] # Nothing => Status(k)' = "SUCCEEDED"
           /\ handler'[h].at \in Asking => Status(k)' = "PENDING"
  PROVE  Fresh(k)'
<1> SUFFICES ASSUME k \notin lapsed
             PROVE  Fresh(k)'
  BY DEF Fresh
<1>1. \A g \in Handlers \ {h} : ~Asks(g, k)
  BY DEF Fresh
<1>2. \A g \in Handlers : Asks(g, k)' => g = h
  BY <1>1 DEF Asks, Key
<1>3. \A g \in Handlers : Asks(g, k)' => Status(k)' = "PENDING"
  BY <1>2 DEF Asks
<1>4. \A g \in Handlers : Key(g)' = k => ~At(g, "expire")'
  BY DEF Fresh, Key, At
<1>5. \A f, g \in Handlers : Asks(f, k)' /\ Asks(g, k)' => f = g
  BY <1>2
<1> QED
  BY <1>3, <1>4, <1>5 DEF Fresh

\* The handler that moves, alone, to a place where it asks for nothing.
LEMMA HarmlessMove ==
  ASSUME IInv, NEW k \in Keys, NEW h \in Handlers, NEW state, Become(h, state),
         \/ state.at \notin Asking \cup {"expire"}
         \/ state.key # k
         \/ state.at = "expire" /\ k \in lapsed
         \/ state.at \in Asking /\ Asks(h, k)
  PROVE  \A g \in Handlers : Harmless(g, k)
BY MoveOn DEF Harmless

\* The steps that write no row of checkout_intents and no invoice.
LEMMA FreshRests ==
  ASSUME IInv, FreshInv, lapsed \subseteq lapsed', UNCHANGED <<intents, charged, invoices>>,
         \A k \in Keys, g \in Handlers : Harmless(g, k)
  PROVE  FreshInv'
<1>1. \A k \in Keys : Fresh(k)'
  BY FreshStays DEF FreshInv
<1> QED
  BY <1>1 DEF FreshInv, PaidAtUrl

LEMMA BeginsFresh ==
  ASSUME IInv, FreshInv, NEW h \in Handlers, NEW k \in Keys,
         Return(h, k) \/ \E p \in Plans : Request(h, k, p)
  PROVE  FreshInv'
<1>1. UNCHANGED <<intents, lapsed, charged, invoices>>
  BY DEF Return, Request, intentVars, paystackVars, accountVars
<1>2. PICK place, p : /\ Begin(h, place, k, p, Nothing)
                      /\ \/ place \in {"quote", "reopen", "verify"}
                         \/ place = "expire" /\ k \in lapsed
  BY DEF Return, Request
<1> DEFINE begun == [at |-> place, key |-> k, plan |-> p, amount |-> Nothing,
                     event |-> Nothing]
<1>3. Become(h, begun) /\ begun.at = place /\ begun.key = k
  BY <1>2 DEF Begin
<1> HIDE DEF begun
<1>4. \A j \in Keys, g \in Handlers : Harmless(g, j)
  BY <1>2, <1>3, HarmlessMove DEF Asking
<1> QED
  BY <1>1, <1>4, FreshRests

\* A handler that ends, or deals with a charge, asks for nothing.
LEMMA EndsHarmless ==
  ASSUME IInv, NEW h \in Handlers,
         Leave(h) \/ \E place \in Dealing : Proceed(h, place)
  PROVE  \A k \in Keys, g \in Handlers : Harmless(g, k)
<1>1. CASE Leave(h)
  BY <1>1, HarmlessMove, MoveOn DEF Leave, Asking
<1>2. ASSUME NEW place \in Dealing, Proceed(h, place)
      PROVE  \A k \in Keys, g \in Handlers : Harmless(g, k)
  <2> DEFINE state == [handler[h] EXCEPT !.at = place]
  <2>1. Become(h, state) /\ state.at = place
    BY <1>2, MoveOn DEF Proceed
  <2> HIDE DEF state
  <2>2. place \notin Asking \cup {"expire"}
    BY DEF Dealing, Locking, Asking
  <2> QED
    BY <2>1, <2>2, HarmlessMove
<1> QED
  BY <1>1, <1>2

LEMMA DealsFresh ==
  ASSUME IInv, FreshInv, NEW h \in Handlers,
         \/ QuoteFails(h) \/ Verify(h) \/ Lock(h) \/ Settled(h) \/ Mismatch(h)
         \/ ActivateClashes(h) \/ Apply(h) \/ ApplyClashes(h) \/ Crash(h)
  PROVE  FreshInv'
<1>1. UNCHANGED <<intents, lapsed, charged, invoices>>
  BY DEF QuoteFails, Verify, Lock, Settled, Mismatch, ActivateClashes, Apply,
         ApplyClashes, Crash, RollBack, intentVars, paystackVars, accountVars
<1>2. Leave(h) \/ \E place \in Dealing : Proceed(h, place)
  <2>1. CASE Lock(h)
    <3>1. AfterLock(Key(h)) \in Dealing /\ Proceed(h, AfterLock(Key(h)))
      BY <2>1 DEF Lock, AfterLock, Dealing, Locking
    <3> QED
      BY <3>1
  <2>2. CASE ~Lock(h)
    BY <2>2 DEF QuoteFails, Verify, Settled, Mismatch, ActivateClashes, Apply,
                ApplyClashes, Crash, RollBack, Conclude, Dealing
  <2> QED
    BY <2>1, <2>2
<1> QED
  BY <1>1, <1>2, EndsHarmless, FreshRests

LEMMA AskFresh ==
  ASSUME IInv, FreshInv, NEW h \in Handlers, Ask(h)
  PROVE  FreshInv'
<1>1. UNCHANGED <<intents, lapsed, charged, invoices>>
  BY DEF Ask, intentVars, accountVars
<1>2. PICK place \in {"initialized", "failed"} : Proceed(h, place)
  BY DEF Ask
<1> DEFINE state == [handler[h] EXCEPT !.at = place]
<1>3. Become(h, state) /\ state.at = place /\ state.key = Key(h)
  BY <1>2, Typed DEF Proceed, TypeOK, HandlerState, Key
<1> HIDE DEF state
<1>4. handler[h].at \in Asking
  BY DEF Ask, At, Asking
<1>5. \A k \in Keys, g \in Handlers : Harmless(g, k)
  BY <1>3, <1>4, HarmlessMove DEF Asks, Asking
<1> QED
  BY <1>1, <1>5, FreshRests

LEMMA DeliverFresh ==
  ASSUME IInv, FreshInv, NEW h \in Handlers, NEW e \in Events, Deliver(h, e)
  PROVE  FreshInv'
<1>1. UNCHANGED <<intents, lapsed, charged, invoices>>
  BY DEF Deliver, intentVars, accountVars
<1>2. CASE UNCHANGED handler
  BY <1>1, <1>2, FreshRests DEF Harmless
<1>3. CASE Begin(h, Handling(e), e.of, Nothing, e)
  <2> DEFINE state == [at |-> Handling(e), key |-> e.of, plan |-> Nothing,
                       amount |-> Nothing, event |-> e]
  <2>1. Become(h, state) /\ state.at \in {"lock", "apply"}
    BY <1>3 DEF Begin, Handling
  <2> HIDE DEF state
  <2>2. \A k \in Keys, g \in Handlers : Harmless(g, k)
    BY <2>1, HarmlessMove DEF Asking
  <2> QED
    BY <1>1, <2>2, FreshRests
<1> QED
  BY <1>2, <1>3 DEF Deliver

LEMMA PayFresh ==
  ASSUME IInv, FreshInv, NEW j \in Keys, Pay(j)
  PROVE  FreshInv'
<1>1. UNCHANGED <<intents, lapsed, handler, invoices>>
  BY DEF Pay, intentVars, accountVars
<1>2. \A k \in Keys : Fresh(k)'
  BY <1>1, FreshStays DEF FreshInv, Harmless
<1>3. PICK a \in Amounts : charged' = [charged EXCEPT ![j] = a]
  BY DEF Pay
<1>4. \A k \in Keys \ {j} : charged'[k] = charged[k]
  BY <1>3 DEF IInv, TypeOK
<1>5. \A k \in Keys : PaidAtUrl(k)'
  BY <1>1, <1>4 DEF FreshInv, PaidAtUrl, Pay
<1> QED
  BY <1>2, <1>5 DEF FreshInv

LEMMA AloneFresh ==
  ASSUME IInv, FreshInv,
         \/ UNCHANGED vars \/ Provision
         \/ \E k \in Keys : Lapse(k) \/ EndSubscription(k)
         \/ \E s \in subscriptions : PeriodEnds(s)
  PROVE  FreshInv'
<1>1. UNCHANGED <<intents, handler, charged, invoices>> /\ lapsed \subseteq lapsed'
  BY DEF vars, Provision, Lapse, EndSubscription, PeriodEnds, intentVars, paystackVars,
         accountVars
<1> QED
  BY <1>1, FreshRests DEF Harmless

\* A handler that writes its row, and is done or goes on to ask for it.
LEMMA WriterFresh ==
  ASSUME IInv, FreshInv, NEW h \in Handlers, NEW j \in Keys, j = Key(h),
         UNCHANGED <<lapsed, charged>>,
         \A k \in Keys \ {j} : intents'[k] = intents[k] /\ invoices'[k] = invoices[k],
         Leave(h) \/ \E a : AskFor(h, a),
         charged[j] # Nothing /\ intents[j].url => intents'[j].url,
         j \notin lapsed =>
           /\ Asks(h, j) \/ Status(j) # "PENDING"
           /\ Status(j)' # "EXPIRED"
           /\ intents'[j].url => Status(j)' \in {"INITIALIZED", "SUCCEEDED"}
           /\ invoices'[j] # Nothing => Status(j)' = "SUCCEEDED"
           /\ Leave(h) \/ Status(j)' = "PENDING"
  PROVE  FreshInv'
<1>1. PICK state : /\ Become(h, state)
                   /\ \/ state = Idle
                      \/ state.at = "ask" /\ state.key = j
  <2>1. CASE Leave(h)
    BY <2>1 DEF Leave
  <2>2. ASSUME NEW a, AskFor(h, a)
        PROVE  \E state : Become(h, state) /\ state.at = "ask" /\ state.key = j
    <3>1. handler[h] \in HandlerState
      BY Typed DEF TypeOK
    <3> DEFINE state == [handler[h] EXCEPT !.at = "ask", !.amount = a]
    <3>2. Become(h, state) /\ state.at = "ask" /\ state.key = j
      BY <2>2, <3>1, MoveOn DEF AskFor, HandlerState, Key
    <3> HIDE DEF state
    <3> QED
      BY <3>2
  <2> QED
    BY <2>1, <2>2
<1>2. handler'[h] = state /\ \A g \in Handlers \ {h} : handler'[g] = handler[g]
  BY <1>1, MoveOn
<1>3. Leave(h) => handler'[h] = Idle
  BY MoveOn DEF Leave
<1>4. state.at \in {"idle", "ask"}
  BY <1>1, MoveOn
<1>5. ASSUME NEW k \in Keys \ {j}
      PROVE  Fresh(k)'
  <2>1. \A g \in Handlers : Harmless(g, k)
    BY <1>1, <1>4, HarmlessMove, MoveOn DEF Asking
  <2> QED
    BY <1>5, <2>1, FreshStays DEF FreshInv
<1>6. Fresh(j)'
  <2>1. handler'[h].at \in Asking /\ j \notin lapsed => Status(j)' = "PENDING"
    BY <1>3, MoveOn DEF Asking
  <2> QED
    BY <1>2, <1>4, <2>1, FreshRow DEF FreshInv
<1>7. \A k \in Keys : PaidAtUrl(k)'
  BY DEF FreshInv, PaidAtUrl
<1> QED
  BY <1>5, <1>6, <1>7 DEF FreshInv

\* EXPIRED is written to a row whose quote is over.
LEMMA ExpireFresh ==
  ASSUME IInv, FreshInv, NEW h \in Handlers, Expire(h)
  PROVE  FreshInv'
<1>1. PICK j \in Keys : j = Key(h)
  BY DEF IInv, Knows, At, Expire
<1>2. j \in lapsed
  BY <1>1 DEF FreshInv, Fresh, Expire
<1>3. UNCHANGED <<lapsed, charged, invoices>> /\ SetStatus(j, "EXPIRED") /\ Leave(h)
  BY <1>1 DEF Expire, paystackVars, accountVars
<1>4. intents'[j].url = intents[j].url /\ \A k \in Keys \ {j} : intents'[k] = intents[k]
  BY <1>3, Typed, StatusMoves
<1> QED
  BY <1>1, <1>2, <1>3, <1>4, WriterFresh

\* A FAILED row has nobody asking for it, and no URL yet.
LEMMA ReopenFresh ==
  ASSUME IInv, FreshInv, NEW h \in Handlers, Reopen(h)
  PROVE  FreshInv'
<1>1. PICK j \in Keys : j = Key(h)
  BY DEF IInv, Knows, At, Reopen
<1>2. UNCHANGED <<lapsed, charged, invoices>>
  BY DEF Reopen, paystackVars, accountVars
<1>3. CASE Status(j) \in {"FAILED", "EXPIRED"}
  <2>1. SetStatus(j, "PENDING") /\ \E a : AskFor(h, a)
    BY <1>1, <1>3 DEF Reopen
  <2>2. /\ Status(j)' = "PENDING" /\ intents'[j].url = intents[j].url
        /\ \A k \in Keys \ {j} : intents'[k] = intents[k]
    BY <2>1, Typed, StatusMoves DEF Status
  <2>3. j \notin lapsed => ~intents[j].url /\ invoices[j] = Nothing
    BY <1>3 DEF FreshInv, Fresh
  <2> QED
    BY <1>1, <1>2, <1>3, <2>1, <2>2, <2>3, WriterFresh
<1>4. CASE Status(j) \notin {"FAILED", "EXPIRED"}
  BY <1>1, <1>2, <1>4, EndsHarmless, FreshRests DEF Reopen
<1> QED
  BY <1>3, <1>4

LEMMA InsertFresh ==
  ASSUME IInv, FreshInv, NEW h \in Handlers, Insert(h)
  PROVE  FreshInv'
<1>1. PICK j \in Keys : j = Key(h)
  BY DEF IInv, Knows, At, Insert
<1>2. UNCHANGED <<lapsed, charged, invoices>>
  BY DEF Insert, paystackVars, accountVars
<1>3. CASE Status(j) = "ABSENT"
  <2>1. PICK a \in Amounts : SetIntent(j, Pending(h, a)) /\ AskFor(h, a)
    BY <1>1, <1>3 DEF Insert
  <2>2. /\ intents'[j] = Pending(h, a)
        /\ \A k \in Keys \ {j} : intents'[k] = intents[k]
    BY <2>1, Typed DEF SetIntent, TypeOK
  <2>3. Status(j)' = "PENDING" /\ ~intents'[j].url
    BY <2>2 DEF Status, Pending
  <2>4. charged[j] = Nothing /\ invoices[j] = Nothing
    BY <1>3 DEF IInv, RowsAgree
  <2> QED
    BY <1>1, <1>2, <1>3, <2>1, <2>2, <2>3, <2>4, WriterFresh
<1>4. CASE Status(j) # "ABSENT"
  BY <1>1, <1>2, <1>4, EndsHarmless, FreshRests DEF Insert
<1> QED
  BY <1>3, <1>4

\* The handler that asked ends its asking: nobody else does.
LEMMA AnsweredFresh ==
  ASSUME IInv, FreshInv, NEW h \in Handlers, Fail(h) \/ Initialize(h)
  PROVE  FreshInv'
<1>1. PICK j \in Keys : j = Key(h)
  BY DEF IInv, Knows, At, Fail, Initialize
<1>2. UNCHANGED <<lapsed, charged, invoices>> /\ Leave(h)
  BY DEF Fail, Initialize, paystackVars, accountVars
<1>3. Asks(h, j)
  BY <1>1 DEF Asks, Asking, Fail, Initialize, At
<1>4. j \notin lapsed => ~intents[j].url /\ invoices[j] = Nothing
  BY <1>3 DEF FreshInv, Fresh
<1>5. CASE Fail(h)
  <2>1. /\ Status(j)' = "FAILED" /\ intents'[j].url = intents[j].url
        /\ \A k \in Keys \ {j} : intents'[k] = intents[k]
    BY <1>1, <1>5, Typed, StatusMoves DEF Status, Fail
  <2> QED
    BY <1>1, <1>2, <1>3, <1>4, <2>1, WriterFresh
<1>6. CASE Initialize(h)
  <2> DEFINE intent == [intents[j] EXCEPT !.status = "INITIALIZED", !.url = TRUE]
  <2>1. intent \in Intent
    BY Typed, IntentRecords
  <2>2. intent.status = "INITIALIZED" /\ intent.url
    BY Typed DEF TypeOK, Intent
  <2>3. SetIntent(j, intent)
    BY <1>1, <1>6 DEF Initialize
  <2> HIDE DEF intent
  <2>4. intents'[j] = intent /\ \A k \in Keys \ {j} : intents'[k] = intents[k]
    BY <2>1, <2>3, Typed, OneIntentMoves
  <2> QED
    BY <1>1, <1>2, <1>3, <1>4, <2>2, <2>4, WriterFresh DEF Status
<1> QED
  BY <1>5, <1>6

\* What is activated was paid at its URL: no request is left in flight for it.
LEMMA ActivateFresh ==
  ASSUME IInv, FreshInv, NEW h \in Handlers, Activate(h)
  PROVE  FreshInv'
<1>1. PICK j \in Keys : j = Key(h)
  BY DEF IInv, Knows, At, Activate
<1>2. /\ UNCHANGED <<lapsed, charged>> /\ Leave(h) /\ SetStatus(j, "SUCCEEDED")
      /\ invoices' = [invoices EXCEPT ![j] = IF @ = Nothing THEN intents[j].amount ELSE @]
  BY <1>1 DEF Activate, Conclude
<1>3. Status(j) # "ABSENT" /\ charged[j] = intents[j].amount
  BY <1>1 DEF IInv, Knows, Activate
<1>4. intents[j].url
  BY <1>3 DEF IInv, RowsAgree, FreshInv, PaidAtUrl
<1>5. j \notin lapsed => Status(j) # "PENDING"
  BY <1>4 DEF FreshInv, Fresh
<1>6. /\ Status(j)' = "SUCCEEDED" /\ intents'[j].url = intents[j].url
      /\ \A k \in Keys \ {j} : intents'[k] = intents[k]
  BY <1>2, Typed, StatusMoves DEF Status
<1>7. \A k \in Keys \ {j} : invoices'[k] = invoices[k]
  BY <1>2 DEF IInv, TypeOK
<1> QED
  BY <1>1, <1>2, <1>5, <1>6, <1>7, WriterFresh

LEMMA NextFresh == IInv /\ FreshInv /\ [Next]_vars => FreshInv'
<1> SUFFICES ASSUME IInv, FreshInv, [Next]_vars
             PROVE  FreshInv'
  OBVIOUS
<1>1. ASSUME NEW h \in Handlers, NEW k \in Keys,
             Return(h, k) \/ \E p \in Plans : Request(h, k, p)
      PROVE  FreshInv'
  BY <1>1, BeginsFresh
<1>2. ASSUME NEW h \in Handlers, Continue(h) \/ Crash(h)
      PROVE  FreshInv'
  BY <1>2, ExpireFresh, ReopenFresh, InsertFresh, AskFresh, AnsweredFresh,
     ActivateFresh, DealsFresh
     DEF Continue, Initializing, Activating
<1>3. ASSUME NEW h \in Handlers, NEW e \in Events, Deliver(h, e)
      PROVE  FreshInv'
  BY <1>3, DeliverFresh
<1>4. ASSUME NEW k \in Keys, Pay(k)
      PROVE  FreshInv'
  BY <1>4, PayFresh
<1>5. CASE \/ UNCHANGED vars \/ Provision
           \/ \E k \in Keys : Lapse(k) \/ EndSubscription(k)
           \/ \E s \in subscriptions : PeriodEnds(s)
  BY <1>5, AloneFresh
<1> QED
  BY <1>1, <1>2, <1>3, <1>4, <1>5, Zenon DEF Next

\* Of the webhook, the returning browsers and every request for a checkout's key,
\* whatever their order and their crashes, one grants its month and no other does
\* again before the quote's hour is over; after it, none grants what it finds settled.
THEOREM GrantedOncePerQuote == Spec => []OneGrantPerQuote
<1>1. Init => FreshInv
  <2> SUFFICES ASSUME Init, NEW k \in Keys
               PROVE  Fresh(k) /\ PaidAtUrl(k)
    BY DEF FreshInv
  <2>1. /\ intents[k].status = "ABSENT" /\ ~intents[k].url
        /\ charged[k] = Nothing /\ invoices[k] = Nothing
    BY DEF Init
  <2>2. \A h \in Handlers : handler[h].at = "idle"
    BY DEF Init, Idle
  <2> QED
    BY <2>1, <2>2 DEF Fresh, PaidAtUrl, Asks, Asking, At, Status
<1>2. IInv /\ FreshInv => OneGrantPerQuote
  <2> SUFFICES ASSUME IInv, FreshInv, NEW h \in Handlers, At(h, "activate")
               PROVE  /\ Status(Key(h)) # "SUCCEEDED"
                      /\ Key(h) \notin lapsed => invoices[Key(h)] = Nothing
    BY DEF OneGrantPerQuote
  <2>1. Key(h) \in Keys /\ Status(Key(h)) # "SUCCEEDED"
    BY DEF IInv, Knows, At
  <2> QED
    BY <2>1 DEF FreshInv, Fresh
<1> QED
  BY <1>1, <1>2, NextFresh, Invariance, PTL DEF Spec
=============================================================================
