------------------------------ MODULE Checkout ------------------------------
(***************************************************************************)
(* Paid plans of one workspace: the checkout request, the browser's return *)
(* from Paystack and Paystack's webhook, all over the rows of              *)
(* billing.checkout_intents, webhook_events, subscriptions and invoices.   *)
(* A handler runs until the statement or the call that can be overtaken,   *)
(* and holds its row lock from SELECT .. FOR UPDATE to its commit.         *)
(***************************************************************************)
EXTENDS Naturals

CONSTANTS
  Keys,        \* idempotency keys: each is one provider reference
  Plans,
  Amounts,     \* kobo amounts that a plan's price may convert to
  Subscribed,  \* the keys whose charge carries a subscription code
  Handlers, MaxFaults, Nothing

ASSUME CheckoutAssumption ==
  /\ Subscribed \subseteq Keys
  /\ MaxFaults \in Nat
  /\ Nothing \notin Keys \cup Plans \cup Amounts

Charged(k) == [type |-> "charge.success", of |-> k]
Disabled(k) == [type |-> "subscription.disable", of |-> k]
NotRenewed(k) == [type |-> "subscription.not_renew", of |-> k]

\* The code a charge carries names the subscription: it is told by its key.
Events ==
  {Charged(k) : k \in Keys}
    \cup UNION {{Disabled(k), NotRenewed(k)} : k \in Subscribed}

VARIABLES
  intents,        \* rows of checkout_intents: status, plan, amount, url
  lapsed,         \* the keys whose expires_at is over
  handler,        \* what each request handler is about to do
  asked,          \* Paystack: the amount a reference was initialized with
  charged,        \* Paystack: what the customer paid for it
  unanswered,     \* Paystack: events it still repeats
  ledger,         \* rows of webhook_events
  subscriptions, tenant, invoices,
  faults

intentVars == <<intents, lapsed>>
paystackVars == <<asked, charged, unanswered>>
accountVars == <<subscriptions, tenant, invoices>>
vars == <<intentVars, handler, paystackVars, ledger, accountVars, faults>>

Idle == [at |-> "idle", key |-> Nothing, plan |-> Nothing,
         amount |-> Nothing, event |-> Nothing]

Trial == [status |-> "TRIALING", plan |-> "TRIAL", code |-> Nothing, running |-> TRUE]

Init ==
  /\ intents = [k \in Keys |-> [status |-> "ABSENT", plan |-> Nothing,
                                amount |-> Nothing, url |-> FALSE]]
  /\ lapsed = {}
  /\ handler = [h \in Handlers |-> Idle]
  /\ asked = [k \in Keys |-> Nothing]
  /\ charged = [k \in Keys |-> Nothing]
  /\ unanswered = {}
  /\ ledger = [e \in Events |-> "NONE"]
  /\ subscriptions = {Trial}
  /\ tenant = "TRIAL"
  /\ invoices = [k \in Keys |-> Nothing]
  /\ faults = 0

Fault == faults < MaxFaults /\ faults' = faults + 1

At(h, place) == handler[h].at = place
Key(h) == handler[h].key
Status(k) == intents[k].status

Become(h, state) == handler' = [handler EXCEPT ![h] = state]
Begin(h, place, k, p, e) ==
  Become(h, [at |-> place, key |-> k, plan |-> p, amount |-> Nothing, event |-> e])
Proceed(h, place) == Become(h, [handler[h] EXCEPT !.at = place])
AskFor(h, a) == Become(h, [handler[h] EXCEPT !.at = "ask", !.amount = a])
Leave(h) == Become(h, Idle)

SetIntent(k, intent) == intents' = [intents EXCEPT ![k] = intent]
SetStatus(k, status) == SetIntent(k, [intents[k] EXCEPT !.status = status])

\* Places between SELECT .. FOR UPDATE on an intent and the commit after it.
Locking == {"activate", "settled", "mismatch"}
Free(k) == \A h \in Handlers : Key(h) = k => handler[h].at \notin Locking

(***************************************************************************)
(* initialize_checkout: a request reads the row of its key.  One that is   *)
(* refused right away, or answered from that row, changes nothing.         *)
(***************************************************************************)
Request(h, k, p) ==
  /\ At(h, "idle")
  /\ intents[k].plan \in {p, Nothing}
  /\ \/ Status(k) = "ABSENT" /\ Begin(h, "quote", k, p, Nothing)
     \/ /\ Status(k) \in {"FAILED", "EXPIRED"}
        /\ Begin(h, IF k \in lapsed THEN "expire" ELSE "reopen", k, p, Nothing)
  /\ UNCHANGED <<intentVars, paystackVars, ledger, accountVars, faults>>

\* The status this UPDATE overwrites need not be the one that was read.
Expire(h) ==
  /\ At(h, "expire")
  /\ Free(Key(h))
  /\ SetStatus(Key(h), "EXPIRED")
  /\ Leave(h)
  /\ UNCHANGED <<lapsed, paystackVars, ledger, accountVars, faults>>

\* Another try at Paystack keeps the amount of the first.
Reopen(h) ==
  /\ At(h, "reopen")
  /\ Free(Key(h))
  /\ IF Status(Key(h)) \in {"FAILED", "EXPIRED"}
       THEN SetStatus(Key(h), "PENDING") /\ AskFor(h, intents[Key(h)].amount)
       ELSE Leave(h) /\ UNCHANGED intents
  /\ UNCHANGED <<lapsed, paystackVars, ledger, accountVars, faults>>

QuoteFails(h) ==
  /\ At(h, "quote")
  /\ Leave(h)
  /\ UNCHANGED <<intentVars, paystackVars, ledger, accountVars, faults>>

Pending(h, a) ==
  [status |-> "PENDING", plan |-> handler[h].plan, amount |-> a, url |-> FALSE]

\* Mutant: a request that loses the conflict goes on with its own quote.
InsertOwnQuote(h) ==
  /\ At(h, "quote")
  /\ \E a \in Amounts :
       /\ AskFor(h, a)
       /\ IF Status(Key(h)) = "ABSENT" THEN SetIntent(Key(h), Pending(h, a))
                                      ELSE UNCHANGED intents
  /\ UNCHANGED <<lapsed, paystackVars, ledger, accountVars, faults>>

\* Mutant: INSERT .. ON CONFLICT DO UPDATE.
InsertOverwrites(h) ==
  /\ At(h, "quote")
  /\ \E a \in Amounts : SetIntent(Key(h), Pending(h, a)) /\ AskFor(h, a)
  /\ UNCHANGED <<lapsed, paystackVars, ledger, accountVars, faults>>

\* INSERT .. ON CONFLICT DO NOTHING, with the rate of the moment.
Insert(h) ==
  /\ At(h, "quote")
  /\ IF Status(Key(h)) = "ABSENT"
       THEN \E a \in Amounts : SetIntent(Key(h), Pending(h, a)) /\ AskFor(h, a)
       ELSE Leave(h) /\ UNCHANGED intents
  /\ UNCHANGED <<lapsed, paystackVars, ledger, accountVars, faults>>

(***************************************************************************)
(* The call to Paystack, which takes a reference only once.  Its answer    *)
(* may be lost, or the call may not arrive: both are a PaystackError.      *)
(***************************************************************************)
Ask(h) ==
  /\ At(h, "ask")
  /\ \/ /\ asked[Key(h)] = Nothing
        /\ asked' = [asked EXCEPT ![Key(h)] = handler[h].amount]
        /\ \/ Proceed(h, "initialized") /\ UNCHANGED faults
           \/ Proceed(h, "failed") /\ Fault
     \/ /\ Proceed(h, "failed")
        /\ IF asked[Key(h)] = Nothing THEN Fault ELSE UNCHANGED faults
        /\ UNCHANGED asked
  /\ UNCHANGED <<intentVars, charged, unanswered, ledger, accountVars>>

Fail(h) ==
  /\ At(h, "failed")
  /\ Free(Key(h))
  /\ SetStatus(Key(h), "FAILED")
  /\ Leave(h)
  /\ UNCHANGED <<lapsed, paystackVars, ledger, accountVars, faults>>

Initialize(h) ==
  /\ At(h, "initialized")
  /\ Free(Key(h))
  /\ SetIntent(Key(h), [intents[Key(h)] EXCEPT !.status = "INITIALIZED", !.url = TRUE])
  /\ Leave(h)
  /\ UNCHANGED <<lapsed, paystackVars, ledger, accountVars, faults>>

(***************************************************************************)
(* The customer pays at the URL of an initialized checkout, by a fault of  *)
(* the provider another amount than was asked.  Paystack then repeats an   *)
(* event until it is answered with success.                                *)
(***************************************************************************)
Pay(k) ==
  /\ intents[k].url
  /\ charged[k] = Nothing
  /\ \E a \in Amounts :
       /\ charged' = [charged EXCEPT ![k] = a]
       /\ IF a = asked[k] THEN UNCHANGED faults ELSE Fault
  /\ unanswered' = unanswered \cup {Charged(k)}
  /\ UNCHANGED <<intentVars, handler, asked, ledger, accountVars>>

\* A subscription ends, or is marked to end with its period.
EndSubscription(k) ==
  /\ k \in Subscribed
  /\ charged[k] # Nothing
  /\ \E e \in {Disabled(k), NotRenewed(k)} :
       /\ ledger[e] = "NONE"
       /\ unanswered' = unanswered \cup {e}
  /\ UNCHANGED <<intentVars, handler, asked, charged, ledger, accountVars, faults>>

(***************************************************************************)
(* verify_checkout: the browser returns, or polls.                         *)
(***************************************************************************)
Return(h, k) ==
  /\ At(h, "idle")
  /\ Status(k) \notin {"ABSENT", "SUCCEEDED"}
  /\ Begin(h, "verify", k, Nothing, Nothing)
  /\ UNCHANGED <<intentVars, paystackVars, ledger, accountVars, faults>>

Verify(h) ==
  /\ At(h, "verify")
  /\ \/ charged[Key(h)] # Nothing /\ Proceed(h, "lock") /\ UNCHANGED faults
     \/ charged[Key(h)] # Nothing /\ Leave(h) /\ Fault
     \/ charged[Key(h)] = Nothing /\ Leave(h) /\ UNCHANGED faults
  /\ UNCHANGED <<intentVars, paystackVars, ledger, accountVars>>

(***************************************************************************)
(* _paystack_webhook: the ledger row is inserted in the transaction that   *)
(* processes the event.  An insert of the same event waits for it; finding *)
(* it committed, whatever became of it, the event counts as a duplicate.   *)
(***************************************************************************)

Handling(e) == IF e = Charged(e.of) THEN "lock" ELSE "apply"

\* Mutant: the ledger row is committed before its event is processed.
DeliverCommitsFirst(h, e) ==
  /\ At(h, "idle")
  /\ e \in unanswered
  /\ \A g \in Handlers : handler[g].event # e
  /\ IF ledger[e] = "NONE"
       THEN /\ Begin(h, Handling(e), e.of, Nothing, e)
            /\ ledger' = [ledger EXCEPT ![e] = "PROCESSED"]
            /\ UNCHANGED unanswered
       ELSE unanswered' = unanswered \ {e} /\ UNCHANGED <<handler, ledger>>
  /\ UNCHANGED <<intentVars, asked, charged, accountVars, faults>>

Deliver(h, e) ==
  /\ At(h, "idle")
  /\ e \in unanswered
  /\ \A g \in Handlers : handler[g].event # e
  /\ IF ledger[e] = "NONE"
       THEN /\ Begin(h, Handling(e), e.of, Nothing, e)
            /\ UNCHANGED unanswered
       ELSE unanswered' = unanswered \ {e} /\ UNCHANGED handler
  /\ UNCHANGED <<intentVars, asked, charged, ledger, accountVars, faults>>

\* The commit of a handler, with the ledger row of its event if it has one;
\* the answer may be lost on its way to Paystack.
Conclude(h, status) ==
  LET e == handler[h].event IN
  /\ Leave(h)
  /\ IF e = Nothing
       THEN UNCHANGED <<ledger, unanswered, faults>>
       ELSE /\ ledger' = [ledger EXCEPT ![e] = status]
            /\ \/ status = "PROCESSED" /\ unanswered' = unanswered \ {e}
                    /\ UNCHANGED faults
               \/ UNCHANGED unanswered
                    /\ IF status = "PROCESSED" THEN Fault ELSE UNCHANGED faults

\* An exception of the database ends the transaction, and the except branch
\* cannot write to it: nothing remains, and the event is repeated.
RollBack(h) ==
  /\ Leave(h)
  /\ UNCHANGED <<intentVars, paystackVars, ledger, accountVars, faults>>

(***************************************************************************)
(* _activate_checkout: SELECT .. FOR UPDATE, then everything at once.      *)
(***************************************************************************)
AfterLock(k) ==
  IF Status(k) \in {"ABSENT", "SUCCEEDED"} THEN "settled"
  ELSE IF charged[k] # intents[k].amount THEN "mismatch"
  ELSE "activate"

\* Mutant: SELECT without FOR UPDATE.
LockNothing(h) ==
  /\ At(h, "lock")
  /\ Proceed(h, AfterLock(Key(h)))
  /\ UNCHANGED <<intentVars, paystackVars, ledger, accountVars, faults>>

Lock(h) ==
  /\ At(h, "lock")
  /\ Free(Key(h))
  /\ Proceed(h, AfterLock(Key(h)))
  /\ UNCHANGED <<intentVars, paystackVars, ledger, accountVars, faults>>

Settled(h) ==
  /\ At(h, "settled")
  /\ Conclude(h, "PROCESSED")
  /\ UNCHANGED <<intentVars, asked, charged, accountVars>>

Mismatch(h) ==
  /\ At(h, "mismatch")
  /\ Conclude(h, "FAILED")
  /\ UNCHANGED <<intentVars, asked, charged, accountVars>>

Live == {s \in subscriptions : s.status \in {"TRIALING", "ACTIVE", "PAST_DUE"}}

CodeOf(k) == IF k \in Subscribed THEN k ELSE Nothing

\* The row the upsert leaves: of a live row only its code may survive.
Renewed(k) ==
  [status |-> "ACTIVE", plan |-> intents[k].plan, running |-> TRUE,
   code |-> IF k \in Subscribed \/ Live = {} THEN CodeOf(k)
            ELSE (CHOOSE s \in Live : TRUE).code]

CodeIsTaken(k) == \E s \in subscriptions \ Live : s.code # Nothing /\ s.code = CodeOf(k)

Activate(h) ==
  LET k == Key(h) IN
  /\ At(h, "activate")
  /\ ~CodeIsTaken(k)
  /\ subscriptions' = (subscriptions \ Live) \cup {Renewed(k)}
  /\ tenant' = "ACTIVE"
  /\ invoices' = [invoices EXCEPT ![k] = IF @ = Nothing THEN intents[k].amount ELSE @]
  /\ SetStatus(k, "SUCCEEDED")
  /\ Conclude(h, "PROCESSED")
  /\ UNCHANGED <<lapsed, asked, charged>>

ActivateClashes(h) ==
  /\ At(h, "activate")
  /\ CodeIsTaken(Key(h))
  /\ RollBack(h)

(***************************************************************************)
(* apply_provider_subscription_state: rows are found by their code alone,  *)
(* whatever their status.                                                  *)
(***************************************************************************)
StatusAfter(e) == IF e = Disabled(e.of) THEN "CANCELLED" ELSE "ACTIVE"

Named(k) == {s \in subscriptions : s.code = k}

\* Mutant: no unique index on a workspace's live subscriptions.
NoIndex(e) == FALSE

\* A cancelled row may not come back beside another live one.
TwoLive(e) == e = NotRenewed(e.of) /\ Live \ Named(e.of) # {} /\ Named(e.of) # {}

Apply(h) ==
  LET e == handler[h].event IN
  /\ At(h, "apply")
  /\ ~TwoLive(e)
  /\ subscriptions' = (subscriptions \ Named(e.of))
       \cup {[s EXCEPT !.status = StatusAfter(e)] : s \in Named(e.of)}
  /\ Conclude(h, "PROCESSED")
  /\ UNCHANGED <<intentVars, asked, charged, tenant, invoices>>

ApplyClashes(h) ==
  /\ At(h, "apply")
  /\ TwoLive(handler[h].event)
  /\ RollBack(h)

(***************************************************************************)
(* provision, run again for a workspace there is: of the subscriptions, a  *)
(* trial is inserted unless one is live.                                   *)
(***************************************************************************)
Provision ==
  /\ Live = {}
  /\ subscriptions' = subscriptions \cup {Trial}
  /\ UNCHANGED <<intentVars, handler, paystackVars, ledger, tenant, invoices, faults>>

(***************************************************************************)
(* The clock, and a handler that dies or raises what nobody handles: its   *)
(* transaction is rolled back, and what it had committed stays.            *)
(***************************************************************************)
Lapse(k) ==
  /\ Status(k) # "ABSENT"
  /\ k \notin lapsed
  /\ lapsed' = lapsed \cup {k}
  /\ UNCHANGED <<intents, handler, paystackVars, ledger, accountVars, faults>>

PeriodEnds(s) ==
  /\ s.running
  /\ subscriptions' = (subscriptions \ {s}) \cup {[s EXCEPT !.running = FALSE]}
  /\ UNCHANGED <<intentVars, handler, paystackVars, ledger, tenant, invoices, faults>>

Crash(h) ==
  /\ ~At(h, "idle")
  /\ Leave(h)
  /\ Fault
  /\ UNCHANGED <<intentVars, paystackVars, ledger, accountVars>>

Initializing(h) ==
  \/ Expire(h) \/ Reopen(h) \/ QuoteFails(h) \/ Insert(h)
  \/ Ask(h) \/ Fail(h) \/ Initialize(h)

Activating(h) ==
  Verify(h) \/ Lock(h) \/ Settled(h) \/ Mismatch(h) \/ Activate(h) \/ ActivateClashes(h)

Continue(h) == Initializing(h) \/ Activating(h) \/ Apply(h) \/ ApplyClashes(h)

Next ==
  \/ \E h \in Handlers, k \in Keys : Return(h, k) \/ \E p \in Plans : Request(h, k, p)
  \/ \E h \in Handlers : Continue(h) \/ Crash(h)
  \/ \E h \in Handlers, e \in Events : Deliver(h, e)
  \/ \E k \in Keys : Pay(k) \/ EndSubscription(k) \/ Lapse(k)
  \/ \E s \in subscriptions : PeriodEnds(s)
  \/ Provision

Spec == Init /\ [][Next]_vars

\* A request is served to its end and PostgreSQL queues the waiters of a row
\* lock.  Paystack repeats an event, and finds a handler whenever it does.
Fairness ==
  /\ \A h \in Handlers : WF_vars(Continue(h))
  /\ \A e \in Events : SF_vars(\E h \in Handlers : Deliver(h, e))

FairSpec == Spec /\ Fairness

(***************************************************************************)
(* get_request_context: what the workspace may do now.                     *)
(***************************************************************************)
BillingStatus ==
  IF Live # {}
    THEN LET s == CHOOSE s \in Live : TRUE IN
         IF s.running THEN s.status
         ELSE IF s.status = "TRIALING" THEN "EXPIRED"
         ELSE "PAST_DUE"
    ELSE IF tenant = "TRIAL" THEN "TRIALING" ELSE tenant

HasAccess == BillingStatus \in {"TRIALING", "ACTIVE"}

-----------------------------------------------------------------------------
Intent ==
  [status : {"ABSENT", "PENDING", "INITIALIZED", "SUCCEEDED", "FAILED", "EXPIRED"},
   plan : Plans \cup {Nothing}, amount : Amounts \cup {Nothing}, url : BOOLEAN]

Place == {"idle", "quote", "expire", "reopen", "ask", "failed", "initialized",
          "verify", "lock", "apply"} \cup Locking

HandlerState ==
  [at : Place, key : Keys \cup {Nothing}, plan : Plans \cup {Nothing},
   amount : Amounts \cup {Nothing}, event : Events \cup {Nothing}]

Subscription ==
  [status : {"TRIALING", "ACTIVE", "PAST_DUE", "CANCELLED"},
   plan : Plans \cup {"TRIAL"}, code : Keys \cup {Nothing}, running : BOOLEAN]

\* Types, and what the tables' unique indexes promise: the workspace has one
\* live subscription at most, and no code names two.
TypeOK ==
  /\ intents \in [Keys -> Intent]
  /\ \A k \in Keys : Status(k) = "ABSENT" <=> intents[k].plan = Nothing
  /\ lapsed \subseteq Keys
  /\ handler \in [Handlers -> HandlerState]
  /\ asked \in [Keys -> Amounts \cup {Nothing}]
  /\ charged \in [Keys -> Amounts \cup {Nothing}]
  /\ unanswered \subseteq Events
  /\ ledger \in [Events -> {"NONE", "PROCESSED", "FAILED"}]
  /\ subscriptions \subseteq Subscription
  /\ \A s, t \in Live : s = t
  /\ \A s, t \in subscriptions : s.code = t.code /\ s.code # Nothing => s = t
  /\ tenant \in {"TRIAL", "ACTIVE"}
  /\ invoices \in [Keys -> Amounts \cup {Nothing}]
  /\ faults \in 0..MaxFaults

\* A checkout is granted once while its quote is good: of the webhook and the
\* returning browser, which learn of a payment at the same time, the one that
\* gets the row's lock second finds it settled, and no request for the key takes
\* that back.  After the quote's hour only the former is true: a request may
\* write EXPIRED over the settled row.
OneGrantPerQuote ==
  \A h \in Handlers : At(h, "activate") =>
    /\ Status(Key(h)) # "SUCCEEDED"
    /\ Key(h) \notin lapsed => invoices[Key(h)] = Nothing

\* Paystack is asked for the amount of the first quote, however often the
\* request is repeated, overtaken or retried; and a payment is invoiced, at
\* that amount, only if it is what the customer was charged.
Promise == INSTANCE Sale WITH
  price <- [k \in Keys |-> intents[k].amount], asked <- asked,
  charged <- charged, invoiced <- invoices

ImplementsSale == Promise!SaleSpec

\* Every payment of the amount asked for is written to the invoice ledger in
\* the end, whatever handlers crash and whatever answers are lost.
PaidIsInvoiced ==
  \A k \in Keys :
    charged[k] # Nothing /\ charged[k] = asked[k] ~> invoices[k] # Nothing

\* Meanwhile it is not forgotten: a payment of the amount asked for is invoiced, or
\* Paystack still repeats its event, whatever the webhooks, returning browsers and
\* later requests for its key have made of the checkout.
PaymentsAccountedFor ==
  \A k \in Keys :
    charged[k] # Nothing /\ charged[k] = asked[k] =>
      invoices[k] # Nothing \/ Charged(k) \in unanswered

\* A live subscription to a paid plan rests on the invoice of a checkout for
\* that plan, whichever requests, payments and endings came in between.
PlanIsPaidFor ==
  \A s \in Live : s.plan # "TRIAL" =>
    \E k \in Keys : invoices[k] # Nothing /\ intents[k].plan = s.plan

\* Paid access lasts one month: without a running period there is none.
PaidAccessEnds == HasAccess => \E s \in subscriptions : s.running
=============================================================================
