--------------------------------- MODULE Desk ---------------------------------
(***************************************************************************)
(* Review cases, which users submit and administrators resolve, and the    *)
(* guided pilot of the company: its engagement, its checkpoints and the    *)
(* events counted for it.                                                  *)
(***************************************************************************)
EXTENDS WorkspaceApi

CONSTANTS
  Cases,       \* review cases, each with its submitter and idempotency key
  EventKeys,   \* idempotency keys of pilot events
  Instants,    \* bound: when a pilot may be started
  Resolvers    \* users with CONFIGURE_COMPANY_CONTEXT

Final == {"RESOLVED", "REJECTED"}
Verdict == Final \cup {"IN_REVIEW"}
Days == {7, 14, 21}

ASSUME DeskAssumption ==
  /\ None \notin Instants
  /\ None \notin Final
  /\ Resolvers \subseteq Members

VARIABLES
  case,         \* status of every review case, None before it is submitted
  resolver,     \* resolved_by
  recorded,     \* audit.events of a case: submissions ("OPEN") and verdicts
  engagement,   \* started_at of the engagement, None while there is none
  checkpoint,   \* from which instant each due_at was counted
  completed,    \* checkpoints COMPLETED
  pilotEvents   \* keys of pilot.events

deskVars ==
  <<case, resolver, recorded, engagement, checkpoint, completed, pilotEvents>>
reviewVars == <<case, resolver, recorded>>
pilotVars == <<engagement, checkpoint, completed, pilotEvents>>

DeskRequests ==
  [at : {"SUBMIT"}, case : Cases]
    \cup [at : {"RESOLVE"}, user : Users, case : Cases, verdict : Verdict]
    \cup [at : {"START"}, instant : Instants]

DeskTypeOK ==
  /\ case \in [Cases -> Verdict \cup {"OPEN", None}]
  /\ resolver \in [Cases -> Users \cup {None}]
  /\ recorded \in [Cases -> [Verdict \cup {"OPEN"} -> Nat]]
  /\ engagement \in Instants \cup {None}
  /\ checkpoint \in [Days -> Instants \cup {None}]
  /\ completed \subseteq Days
  /\ pilotEvents \subseteq EventKeys

DeskInit ==
  /\ case = [c \in Cases |-> None]
  /\ resolver = [c \in Cases |-> None]
  /\ recorded = [c \in Cases |-> [v \in Verdict \cup {"OPEN"} |-> 0]]
  /\ engagement = None
  /\ checkpoint = [d \in Days |-> None]
  /\ completed = {}
  /\ pilotEvents = {}

-------------------------------------------------------------------------------
BeginSubmit(h, u, c) ==
  /\ AtWork(u)
  /\ Begin(h, "desk", [at |-> "SUBMIT", case |-> c])
  /\ UNCHANGED <<faults, deskVars>>

\* A repeated key meets its row and leaves it as it is, but is audited too.
Submit(h) ==
  LET c == request[h].case
  IN  /\ request[h].at = "SUBMIT"
      /\ case' = [case EXCEPT ![c] = IF @ = None THEN "OPEN" ELSE @]
      /\ recorded' = [recorded EXCEPT ![c]["OPEN"] = @ + 1]
      /\ End(h)
      /\ UNCHANGED <<faults, resolver, pilotVars>>

BeginResolve(h, u, c, v) ==
  /\ AtWork(u) /\ u \in Resolvers
  /\ Begin(h, "desk", [at |-> "RESOLVE", user |-> u, case |-> c, verdict |-> v])
  /\ UNCHANGED <<faults, deskVars>>

IsOpen(c) == case[c] \in {"OPEN", "IN_REVIEW"}

\* Mutant: WHERE id = :case_id alone.
ResolveAnyway(h) ==
  LET r == request[h]
  IN  /\ r.at = "RESOLVE"
      /\ case[r.case] # None
      /\ case' = [case EXCEPT ![r.case] = r.verdict]
      /\ resolver' = [resolver EXCEPT ![r.case] =
                        IF r.verdict \in Final THEN r.user ELSE None]
      /\ recorded' = [recorded EXCEPT ![r.case][r.verdict] = @ + 1]
      /\ End(h)
      /\ UNCHANGED <<faults, pilotVars>>

\* The UPDATE waits for the row and evaluates its WHERE again; the audit
\* event is part of the transaction.
Resolve(h) ==
  LET r == request[h]
  IN  /\ r.at = "RESOLVE"
      /\ IsOpen(r.case)
      /\ case' = [case EXCEPT ![r.case] = r.verdict]
      /\ resolver' = [resolver EXCEPT ![r.case] =
                        IF r.verdict \in Final THEN r.user ELSE None]
      /\ recorded' = [recorded EXCEPT ![r.case][r.verdict] = @ + 1]
      /\ End(h)
      /\ UNCHANGED <<faults, pilotVars>>

ResolveRefused(h) ==
  /\ request[h].at = "RESOLVE"
  /\ ~IsOpen(request[h].case)
  /\ End(h)
  /\ UNCHANGED <<faults, deskVars>>

-------------------------------------------------------------------------------
\* started, taken before the statements
BeginStart(h, u, t) ==
  /\ AtWork(u) /\ u \in Resolvers
  /\ Begin(h, "desk", [at |-> "START", instant |-> t])
  /\ UNCHANGED <<faults, deskVars>>

\* Mutant: ON CONFLICT DO UPDATE SET due_at.
OpenEngagementAnew(t) ==
  /\ engagement' = IF engagement = None THEN t ELSE engagement
  /\ checkpoint' = [d \in Days |-> t]
  /\ UNCHANGED <<completed, pilotEvents>>

\* The upserts of start_pilot, and of provision_pilot, at instant t: what is
\* there keeps its dates.  The engagement's row orders the transactions.
OpenEngagement(t) ==
  /\ engagement' = IF engagement = None THEN t ELSE engagement
  /\ checkpoint' = [d \in Days |->
                      IF checkpoint[d] = None THEN t ELSE checkpoint[d]]
  /\ UNCHANGED <<completed, pilotEvents>>

Start(h) ==
  /\ request[h].at = "START"
  /\ OpenEngagement(request[h].instant)
  /\ End(h)
  /\ UNCHANGED <<faults, reviewVars>>

\* Single statements: an event counts once, and only during an engagement.
RecordEvent(u, k) ==
  /\ AtWork(u)
  /\ engagement # None
  /\ Spend("desk")
  /\ pilotEvents' = pilotEvents \cup {k}
  /\ UNCHANGED <<request, faults, reviewVars, engagement, checkpoint, completed>>

CompleteCheckpoint(u, d) ==
  /\ AtWork(u) /\ u \in Resolvers
  /\ checkpoint[d] # None
  /\ Spend("desk")
  /\ completed' = completed \cup {d}
  /\ UNCHANGED <<request, faults, reviewVars, engagement, checkpoint,
                 pilotEvents>>

DeskNext ==
  \/ \E h \in Handlers :
       \/ \E u \in Users, c \in Cases :
            BeginSubmit(h, u, c) \/ \E v \in Verdict : BeginResolve(h, u, c, v)
       \/ \E u \in Users, t \in Instants : BeginStart(h, u, t)
       \/ Submit(h) \/ Resolve(h) \/ ResolveRefused(h) \/ Start(h)
  \/ \E u \in Users :
       \/ \E k \in EventKeys : RecordEvent(u, k)
       \/ \E d \in Days : CompleteCheckpoint(u, d)
===============================================================================
