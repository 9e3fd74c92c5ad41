----------------------------- MODULE WorkspaceApi -----------------------------
(***************************************************************************)
(* What the endpoints of a workspace share: who is signed in, the requests *)
(* being served, and the faults.  A request is one transaction: it begins  *)
(* with the SELECT of get_request_context, which fixes the principal, and  *)
(* its writes are seen by others when it commits.                          *)
(***************************************************************************)
EXTENDS Naturals

CONSTANTS
  Users,       \* rows of auth.users, there or still to come
  Members,     \* those of the workspace modelled; others have their own
  Handlers,    \* requests the server can have in progress
  Sessions,    \* rows of auth.sessions, there or still to come
  Allotments,  \* bound: how many requests each part of the API may get
  MaxFaults,
  None

Areas == {"accounts", "context", "desk"}

ASSUME ApiAssumption ==
  /\ None \notin Users
  /\ Members \subseteq Users
  /\ Allotments \subseteq [Areas -> Nat]
  /\ MaxFaults \in Nat

VARIABLES
  request,  \* what each handler is doing, a record with a field "at"
  visits,   \* what is left of the allotment
  faults,
  owner,    \* user_id of every session, None while there is no row
  ended,    \* sessions revoked or past expires_at
  tokens    \* sessions with an access token that has not expired

apiVars == <<request, visits, faults>>
sessionVars == <<owner, ended, tokens>>

Idle == [at |-> "IDLE"]

Spend(area) ==
  /\ visits[area] > 0
  /\ visits' = [visits EXCEPT ![area] = @ - 1]

Begin(h, area, r) ==
  /\ request[h] = Idle
  /\ Spend(area)
  /\ request' = [request EXCEPT ![h] = r]

Continue(h, r) ==
  /\ request' = [request EXCEPT ![h] = r]
  /\ UNCHANGED visits

End(h) == Continue(h, Idle)

\* A bearer token is checked by itself; the session behind it is not read.
SignedIn(u) == \E s \in tokens : owner[s] = u

AtWork(u) == u \in Members /\ SignedIn(u)

\* The server is lost, or Redis or the database fails the handler: what was
\* not committed is rolled back, what was committed stays.
Crash(h) ==
  /\ request[h] # Idle
  /\ faults > 0
  /\ faults' = faults - 1
  /\ End(h)
===============================================================================
