---------------------------- MODULE WorkspaceProofs ----------------------------
(***************************************************************************)
(* The safety of a workspace's endpoints, for any number of users,         *)
(* handlers, sessions, keys, releases, cases and faults.                   *)
(***************************************************************************)
EXTENDS Workspace, TLAPS

USE ApiAssumption, AccountsAssumption, ConsentAssumption, ContextAssumption,
    DeskAssumption

ApiTypeOK ==
  /\ request \in [Handlers -> Requests]
  /\ visits \in [Areas -> Nat]
  /\ faults \in 0 .. MaxFaults

(***************************************************************************)
(* Requests                                                                *)
(***************************************************************************)

\* What a handler holds, told by what it is doing.
LEMMA RequestFields ==
  ASSUME NEW r \in Requests
  PROVE  /\ r.at = "CREATE" => r.email \in Emails /\ r.sso \in Subjects \cup {None}
         /\ r.at = "LINK" => r.user \in Users /\ r.sso \in Subjects
         /\ r.at = "ENTER" => r.user \in Users
         /\ r.at = "REFRESH" => r.session \in Sessions
         /\ r.at = "ACCEPT" =>
              r.user \in Users /\ r.key \in Keys /\ r.release \in Versions
         /\ r.at = "READ" => r.key \in CacheKeys /\ r.copy \in Copies
         /\ r.at = "EDIT" =>
              r.user \in Users /\ r.part \in Parts /\ r.release \in Versions
         /\ r.at = "INVALIDATE" => r.part \in Parts
         /\ r.at = "SUBMIT" => r.case \in Cases
         /\ r.at = "RESOLVE" =>
              r.user \in Users /\ r.case \in Cases /\ r.verdict \in Verdict
         /\ r.at = "START" => r.instant \in Instants
<1>1. CASE r = Idle
  BY <1>1 DEF Idle
<1>2. CASE r \in AccountRequests
  BY <1>2 DEF AccountRequests
<1>3. CASE r \in ConsentRequests
  BY <1>3 DEF ConsentRequests
<1>4. CASE r \in ContextRequests
  BY <1>4 DEF ContextRequests
<1>5. CASE r \in DeskRequests
  BY <1>5 DEF DeskRequests
<1> QED
  BY <1>1, <1>2, <1>3, <1>4, <1>5 DEF Requests

LEMMA Spending ==
  ASSUME ApiTypeOK, NEW area \in Areas, Spend(area)
  PROVE  visits' \in [Areas -> Nat]
BY DEF ApiTypeOK, Spend

\* One handler moves and the others stay.
LEMMA HandlerMoves ==
  ASSUME ApiTypeOK, NEW h \in Handlers, NEW r \in Requests,
         request' = [request EXCEPT ![h] = r]
  PROVE  /\ request' \in [Handlers -> Requests]
         /\ request'[h] = r
         /\ \A g \in Handlers \ {h} : request'[g] = request[g]
BY DEF ApiTypeOK

LEMMA Beginning ==
  ASSUME ApiTypeOK, NEW h \in Handlers, NEW area \in Areas, NEW r \in Requests,
         Begin(h, area, r), faults' \in 0 .. MaxFaults
  PROVE  /\ ApiTypeOK'
         /\ request[h] = Idle
         /\ request'[h] = r
         /\ \A g \in Handlers \ {h} : request'[g] = request[g]
BY HandlerMoves, Spending DEF Begin, ApiTypeOK

LEMMA Ending ==
  ASSUME ApiTypeOK, NEW h \in Handlers, End(h), faults' \in 0 .. MaxFaults
  PROVE  /\ ApiTypeOK'
         /\ request'[h] = Idle
         /\ \A g \in Handlers \ {h} : request'[g] = request[g]
BY HandlerMoves DEF End, Continue, ApiTypeOK, Requests

\* A step that spends a visit and moves no handler.
LEMMA Visiting ==
  ASSUME ApiTypeOK, NEW area \in Areas, Spend(area), UNCHANGED <<request, faults>>
  PROVE  ApiTypeOK'
BY Spending DEF ApiTypeOK

(***************************************************************************)
(* Accounts and sessions                                                   *)
(***************************************************************************)

\* An identity leads to a user who has that e-mail; only users that exist are
\* linked or about to be; a session that ever gave access exists.
AccountsInv ==
  /\ AccountsAreReachable
  /\ \A e \in Emails : identity[e] # None => account[identity[e]] = e
  /\ \A u \in Users : account[u] = None => sso[u] = None
  /\ account[Pilot] \in {None, PilotEmail}
  /\ \A h \in Handlers :
       /\ request[h].at = "LINK" => account[request[h].user] # None
       /\ request[h].at = "REFRESH" => owner[request[h].session] # None
  /\ \A s \in ended \cup tokens : owner[s] # None

AccountsSafe == AccountsTypeOK /\ AccountsInv

\* What one step does to accounts and sessions.
AccountsKept ==
  /\ \A e \in Emails : identity[e] # None => identity'[e] = identity[e]
  /\ \A u \in Users :
       /\ account[u] # None => account'[u] = account[u]
       /\ sso[u] # None => sso'[u] = sso[u]
  /\ password \subseteq password'

SessionsKept == \A s \in Sessions : IsOver(s) => IsOver(s)'

Kept == ApiTypeOK' /\ AccountsSafe' /\ AccountsKept /\ SessionsKept

\* A step that leaves the tables alone and takes nobody into LINK or REFRESH.
LEMMA TurnsElsewhere ==
  ASSUME ApiTypeOK', AccountsSafe, UNCHANGED <<sessionVars, accountVars>>,
         \A g \in Handlers :
           request'[g].at \in {"LINK", "REFRESH"} => request'[g] = request[g]
  PROVE  Kept
<1>1. AccountsTypeOK'
  BY DEF AccountsSafe, AccountsTypeOK, sessionVars, accountVars
<1>2. AccountsAreReachable'
  BY DEF AccountsSafe, AccountsInv, AccountsAreReachable, accountVars
<1>3. AccountsInv'
  BY <1>2 DEF AccountsSafe, AccountsInv, accountVars, sessionVars
<1>4. AccountsKept
  BY DEF AccountsKept, accountVars
<1>5. SessionsKept
  BY DEF SessionsKept, IsOver, sessionVars
<1> QED
  BY <1>1, <1>3, <1>4, <1>5 DEF Kept, AccountsSafe

\* Idle is no LINK and no REFRESH.
LEMMA EndsElsewhere ==
  ASSUME ApiTypeOK, AccountsSafe, NEW h \in Handlers, End(h),
         faults' \in 0 .. MaxFaults, UNCHANGED <<sessionVars, accountVars>>
  PROVE  Kept
<1>1. /\ ApiTypeOK'
      /\ request'[h].at \notin {"LINK", "REFRESH"}
      /\ \A g \in Handlers \ {h} : request'[g] = request[g]
  BY Ending DEF Idle
<1> QED
  BY <1>1, TurnsElsewhere

\* A fresh session is nobody's until now.
LEMMA Issuing ==
  ASSUME AccountsSafe, NEW u \in Users, IssueSession(u),
         \A h \in Handlers :
           request'[h].at = "REFRESH" => request'[h] = request[h]
  PROVE  /\ owner' \in [Sessions -> Users \cup {None}]
         /\ ended' \subseteq Sessions
         /\ tokens' \subseteq Sessions
         /\ \A s \in ended' \cup tokens' : owner'[s] # None
         /\ \A h \in Handlers :
              request'[h].at = "REFRESH" => owner'[request'[h].session] # None
         /\ SessionsKept
<1>1. PICK s \in Sessions : /\ owner[s] = None
                            /\ owner' = [owner EXCEPT ![s] = u]
                            /\ tokens' = tokens \cup {s}
                            /\ ended' = ended
  <2> DEFINE fresh == {s \in Sessions : owner[s] = None}
  <2>1. fresh # {} => (CHOOSE s \in fresh : TRUE) \in fresh
    OBVIOUS
  <2> QED
    BY <2>1 DEF IssueSession
<1>2. s \notin ended /\ u # None
  BY <1>1 DEF AccountsSafe, AccountsInv
<1>3. SessionsKept
  BY <1>1, <1>2 DEF SessionsKept, IsOver
<1>4. \A h \in Handlers :
        request'[h].at = "REFRESH" => owner'[request'[h].session] # None
  BY <1>1, <1>2 DEF AccountsSafe, AccountsTypeOK, AccountsInv
<1> QED
  BY <1>1, <1>2, <1>3, <1>4 DEF AccountsSafe, AccountsTypeOK, AccountsInv

LEMMA CreateKeeps ==
  ASSUME ApiTypeOK, AccountsSafe, NEW h \in Handlers, Create(h)
  PROVE  Kept
<1> DEFINE r == request[h]
<1>1. r.at = "CREATE" /\ r.email \in Emails /\ r.sso \in Subjects \cup {None}
  BY RequestFields DEF ApiTypeOK, Create
<1>2. /\ ApiTypeOK'
      /\ request'[h] = Idle
      /\ \A g \in Handlers \ {h} : request'[g] = request[g]
  BY Ending DEF Create, ApiTypeOK
<1>3. PICK u \in Users \ Members :
        /\ account[u] = None
        /\ account' = [account EXCEPT ![u] = r.email]
        /\ identity' = [identity EXCEPT ![r.email] = u]
        /\ password' = IF r.sso = None THEN password \cup {u} ELSE password
        /\ sso' = [sso EXCEPT ![u] = r.sso]
        /\ IssueSession(u)
  BY DEF Create
<1>4. /\ identity[r.email] = None
      /\ r.sso # None => \A v \in Users : sso[v] # r.sso
  BY DEF Create, IsTaken
<1>5. \A g \in Handlers : request'[g].at \in {"LINK", "REFRESH"} => request'[g] = request[g]
  BY <1>2 DEF Idle
<1>6. /\ owner' \in [Sessions -> Users \cup {None}]
      /\ ended' \subseteq Sessions /\ tokens' \subseteq Sessions
      /\ \A s \in ended' \cup tokens' : owner'[s] # None
      /\ \A g \in Handlers :
           request'[g].at = "REFRESH" => owner'[request'[g].session] # None
      /\ SessionsKept
  BY <1>3, <1>5, Issuing
<1>7. AccountsTypeOK'
  BY <1>1, <1>3, <1>6 DEF AccountsSafe, AccountsTypeOK
<1>8. \A v \in Users : account[v] # r.email
  BY <1>1, <1>4 DEF AccountsSafe, AccountsInv, AccountsAreReachable
<1>9. sso[u] = None
  BY <1>3 DEF AccountsSafe, AccountsInv
<1>10. AccountsAreReachable'
  <2>1. \A v \in Users : account'[v] # None => identity'[account'[v]] # None
    BY <1>1, <1>3, <1>8 DEF AccountsSafe, AccountsInv, AccountsAreReachable, AccountsTypeOK
  <2>2. \A v \in Users \ {Pilot} : account'[v] # None => identity'[account'[v]] = v
    BY <1>1, <1>3, <1>8 DEF AccountsSafe, AccountsInv, AccountsAreReachable, AccountsTypeOK
  <2>3. \A v, w \in Users : sso'[v] # None /\ sso'[v] = sso'[w] => v = w
    BY <1>1, <1>3, <1>4 DEF AccountsSafe, AccountsInv, AccountsAreReachable, AccountsTypeOK
  <2> QED
    BY <2>1, <2>2, <2>3 DEF AccountsAreReachable
<1>11. \A e \in Emails : identity'[e] # None => account'[identity'[e]] = e
  BY <1>1, <1>3, <1>4 DEF AccountsSafe, AccountsInv, AccountsTypeOK
<1>12. /\ \A v \in Users : account'[v] = None => sso'[v] = None
       /\ account'[Pilot] \in {None, PilotEmail}
  BY <1>1, <1>3 DEF AccountsSafe, AccountsInv, AccountsTypeOK
<1>13. \A g \in Handlers :
         request'[g].at = "LINK" => account'[request'[g].user] # None
  BY <1>1, <1>3, <1>5, RequestFields DEF AccountsSafe, AccountsInv, AccountsTypeOK, ApiTypeOK
<1>14. AccountsKept
  BY <1>1, <1>3, <1>4, <1>9 DEF AccountsKept, AccountsSafe, AccountsTypeOK
<1> QED
  BY <1>2, <1>6, <1>7, <1>10, <1>11, <1>12, <1>13, <1>14
     DEF Kept, AccountsSafe, AccountsInv

LEMMA LinkKeeps ==
  ASSUME ApiTypeOK, AccountsSafe, NEW h \in Handlers, Link(h)
  PROVE  Kept
<1> DEFINE r == request[h]
<1>1. r.at = "LINK" /\ r.user \in Users /\ r.sso \in Subjects
  BY RequestFields DEF ApiTypeOK, Link
<1>2. /\ ApiTypeOK'
      /\ request'[h] = Idle
      /\ \A g \in Handlers \ {h} : request'[g] = request[g]
  BY Ending DEF Link, ApiTypeOK
<1>3. /\ sso' = [sso EXCEPT ![r.user] = r.sso]
      /\ UNCHANGED <<account, password, identity>>
      /\ IssueSession(r.user)
  BY DEF Link
<1>4. /\ sso[r.user] \in {None, r.sso}
      /\ \A v \in Users \ {r.user} : sso[v] # r.sso
      /\ account[r.user] # None
  BY <1>1 DEF Link, MayLink, AccountsSafe, AccountsInv
<1>5. \A g \in Handlers : request'[g].at \in {"LINK", "REFRESH"} => request'[g] = request[g]
  BY <1>2 DEF Idle
<1>6. /\ owner' \in [Sessions -> Users \cup {None}]
      /\ ended' \subseteq Sessions /\ tokens' \subseteq Sessions
      /\ \A s \in ended' \cup tokens' : owner'[s] # None
      /\ \A g \in Handlers :
           request'[g].at = "REFRESH" => owner'[request'[g].session] # None
      /\ SessionsKept
  BY <1>1, <1>3, <1>5, Issuing
<1>7. AccountsTypeOK'
  BY <1>1, <1>3, <1>6 DEF AccountsSafe, AccountsTypeOK
<1>8. AccountsAreReachable'
  BY <1>1, <1>3, <1>4 DEF AccountsSafe, AccountsInv, AccountsAreReachable, AccountsTypeOK
<1>9. AccountsInv'
  BY <1>1, <1>3, <1>4, <1>5, <1>6, <1>8 DEF AccountsSafe, AccountsInv, AccountsTypeOK
<1>10. AccountsKept
  BY <1>1, <1>3, <1>4 DEF AccountsKept, AccountsSafe, AccountsTypeOK
<1> QED
  BY <1>2, <1>6, <1>7, <1>9, <1>10 DEF Kept, AccountsSafe

LEMMA EnterKeeps ==
  ASSUME ApiTypeOK, AccountsSafe, NEW h \in Handlers, Enter(h)
  PROVE  Kept
<1>1. request[h].user \in Users
  BY RequestFields DEF ApiTypeOK, Enter
<1>2. /\ ApiTypeOK'
      /\ request'[h] = Idle
      /\ \A g \in Handlers \ {h} : request'[g] = request[g]
  BY Ending DEF Enter, ApiTypeOK
<1>3. \A g \in Handlers : request'[g].at \in {"LINK", "REFRESH"} => request'[g] = request[g]
  BY <1>2 DEF Idle
<1>4. /\ owner' \in [Sessions -> Users \cup {None}]
      /\ ended' \subseteq Sessions /\ tokens' \subseteq Sessions
      /\ \A s \in ended' \cup tokens' : owner'[s] # None
      /\ \A g \in Handlers :
           request'[g].at = "REFRESH" => owner'[request'[g].session] # None
      /\ SessionsKept
  BY <1>1, <1>3, Issuing DEF Enter
<1>5. AccountsTypeOK'
  BY <1>4 DEF Enter, accountVars, AccountsSafe, AccountsTypeOK
<1>6. AccountsAreReachable'
  BY DEF Enter, accountVars, AccountsSafe, AccountsInv, AccountsAreReachable
<1>7. AccountsInv'
  BY <1>3, <1>4, <1>6 DEF Enter, accountVars, AccountsSafe, AccountsInv
<1>8. AccountsKept
  BY DEF AccountsKept, Enter, accountVars
<1> QED
  BY <1>2, <1>4, <1>5, <1>7, <1>8 DEF Kept, AccountsSafe

LEMMA RefreshKeeps ==
  ASSUME ApiTypeOK, AccountsSafe, NEW h \in Handlers, Refresh(h)
  PROVE  Kept
<1> DEFINE s == request[h].session
<1>1. s \in Sessions /\ tokens' = tokens \cup {s}
  BY RequestFields DEF ApiTypeOK, Refresh
<1>2. /\ ApiTypeOK'
      /\ request'[h] = Idle
      /\ \A g \in Handlers \ {h} : request'[g] = request[g]
  BY Ending DEF Refresh, ApiTypeOK
<1>3. AccountsTypeOK'
  BY <1>1 DEF Refresh, accountVars, AccountsSafe, AccountsTypeOK
<1>4. AccountsAreReachable'
  BY DEF Refresh, accountVars, AccountsSafe, AccountsInv, AccountsAreReachable
<1>5. owner[s] # None
  BY DEF Refresh, AccountsSafe, AccountsInv
<1>6. AccountsInv'
  BY <1>1, <1>2, <1>4, <1>5 DEF Refresh, accountVars, AccountsSafe, AccountsInv, Idle
<1>7. AccountsKept
  BY DEF AccountsKept, Refresh, accountVars
<1>8. SessionsKept
  BY <1>1, <1>2 DEF SessionsKept, IsOver, Refresh, Idle
<1> QED
  BY <1>2, <1>3, <1>6, <1>7, <1>8 DEF Kept, AccountsSafe

LEMMA LinkBegins ==
  ASSUME ApiTypeOK, AccountsSafe, NEW h \in Handlers, NEW e \in Emails,
         NEW s \in Subjects, BeginCallback(h, e, s)
  PROVE  Kept
<1>1. CASE identity[e] = None
  <2> DEFINE r == [at |-> "CREATE", email |-> e, sso |-> s]
  <2>1. r \in Requests
    BY DEF Requests, AccountRequests
  <2>2. ApiTypeOK' /\ request'[h] = r
          /\ \A g \in Handlers \ {h} : request'[g] = request[g]
    BY <1>1, <2>1, Beginning DEF BeginCallback, Areas, ApiTypeOK
  <2> QED
    BY <2>2, TurnsElsewhere DEF BeginCallback
<1>2. CASE identity[e] # None
  <2> DEFINE r == [at |-> "LINK", user |-> identity[e], sso |-> s]
  <2>1. r \in Requests
    BY <1>2 DEF Requests, AccountRequests, AccountsSafe, AccountsTypeOK
  <2>2. ApiTypeOK' /\ request'[h] = r
          /\ \A g \in Handlers \ {h} : request'[g] = request[g]
    BY <1>2, <2>1, Beginning DEF BeginCallback, Areas, ApiTypeOK
  <2>3. e # None /\ account[identity[e]] # None
    BY <1>2 DEF AccountsSafe, AccountsInv
  <2>4. UNCHANGED <<sessionVars, accountVars>>
    BY DEF BeginCallback
  <2>5. AccountsTypeOK' /\ AccountsAreReachable'
    BY <2>4 DEF AccountsSafe, AccountsTypeOK, AccountsInv, AccountsAreReachable,
                sessionVars, accountVars
  <2>6. AccountsInv'
    BY <2>2, <2>3, <2>4, <2>5 DEF AccountsSafe, AccountsInv, sessionVars, accountVars
  <2>7. AccountsKept /\ SessionsKept
    BY <2>2, <2>4 DEF AccountsKept, SessionsKept, IsOver, sessionVars, accountVars
  <2> QED
    BY <2>2, <2>5, <2>6, <2>7 DEF Kept, AccountsSafe
<1> QED
  BY <1>1, <1>2

LEMMA RefreshBegins ==
  ASSUME ApiTypeOK, AccountsSafe, NEW h \in Handlers, NEW s \in Sessions,
         BeginRefresh(h, s)
  PROVE  Kept
<1> DEFINE r == [at |-> "REFRESH", session |-> s]
<1>1. r \in Requests
  BY DEF Requests, AccountRequests
<1>2. ApiTypeOK' /\ request'[h] = r
        /\ \A g \in Handlers \ {h} : request'[g] = request[g]
  BY <1>1, Beginning DEF BeginRefresh, Areas, ApiTypeOK
<1>3. owner[s] # None /\ s \notin ended /\ UNCHANGED <<sessionVars, accountVars>>
  BY DEF BeginRefresh
<1>4. AccountsTypeOK' /\ AccountsAreReachable'
  BY <1>3 DEF AccountsSafe, AccountsTypeOK, AccountsInv, AccountsAreReachable,
              sessionVars, accountVars
<1>5. AccountsInv'
  BY <1>2, <1>3, <1>4 DEF AccountsSafe, AccountsInv, sessionVars, accountVars
<1>6. AccountsKept
  BY <1>3 DEF AccountsKept, accountVars
<1>7. SessionsKept
  BY <1>2, <1>3 DEF SessionsKept, IsOver, sessionVars
<1> QED
  BY <1>2, <1>4, <1>5, <1>6, <1>7 DEF Kept, AccountsSafe

\* Sessions end and access tokens expire; no handler is involved.
LEMMA SessionEnds ==
  ASSUME ApiTypeOK, AccountsSafe, NEW s \in Sessions, Spend("accounts"),
         UNCHANGED <<request, faults, accountVars, owner>>,
         owner[s] # None,
         \/ ended' = ended \cup {s} /\ tokens' = tokens
         \/ ended' = ended /\ tokens' = tokens \ {s}
  PROVE  Kept
<1>1. ApiTypeOK'
  BY Visiting DEF Areas
<1>2. AccountsTypeOK' /\ AccountsAreReachable'
  BY DEF AccountsSafe, AccountsTypeOK, AccountsInv, AccountsAreReachable, accountVars
<1>3. AccountsInv'
  BY <1>2 DEF AccountsSafe, AccountsInv, accountVars
<1>4. AccountsKept /\ SessionsKept
  BY DEF AccountsKept, SessionsKept, IsOver, accountVars
<1> QED
  BY <1>1, <1>2, <1>3, <1>4 DEF Kept, AccountsSafe

LEMMA ProvisionKeeps ==
  ASSUME ApiTypeOK, AccountsSafe, ProvisionUser, Spend("desk"),
         UNCHANGED <<request, faults, sessionVars>>
  PROVE  Kept
<1>1. ApiTypeOK'
  BY Visiting DEF Areas
<1>2. Pilot \in Users /\ PilotEmail \in Emails /\ PilotEmail # None
  OBVIOUS
<1>3. /\ account' = [account EXCEPT ![Pilot] = PilotEmail]
      /\ password' = password \cup {Pilot}
      /\ identity' = [identity EXCEPT ![PilotEmail] = IF @ = None THEN Pilot ELSE @]
      /\ sso' = sso
  BY DEF ProvisionUser
<1>4. AccountsTypeOK'
  BY <1>2, <1>3 DEF AccountsSafe, AccountsTypeOK, sessionVars
<1>5. AccountsAreReachable'
  <2>1. \A v \in Users \ {Pilot} :
          account[v] = PilotEmail => identity[PilotEmail] = v
    BY <1>2 DEF AccountsSafe, AccountsInv, AccountsAreReachable
  <2> QED
    BY <1>2, <1>3, <2>1 DEF AccountsSafe, AccountsInv, AccountsAreReachable, AccountsTypeOK
<1>6. \A e \in Emails : identity'[e] # None => account'[identity'[e]] = e
  BY <1>2, <1>3 DEF AccountsSafe, AccountsInv, AccountsTypeOK
<1>7. AccountsInv'
  BY <1>2, <1>3, <1>5, <1>6, RequestFields
     DEF AccountsSafe, AccountsInv, AccountsTypeOK, ApiTypeOK, sessionVars
<1>8. AccountsKept
  BY <1>2, <1>3 DEF AccountsKept, AccountsSafe, AccountsInv, AccountsTypeOK
<1>9. SessionsKept
  BY DEF SessionsKept, IsOver, sessionVars
<1> QED
  BY <1>1, <1>4, <1>7, <1>8, <1>9 DEF Kept, AccountsSafe

\* Every step of the module Accounts.
LEMMA AccountsStep ==
  ASSUME ApiTypeOK, AccountsSafe, AccountsNext
  PROVE  Kept
<1>1. ASSUME NEW h \in Handlers, NEW e \in Emails, BeginRegister(h, e)
      PROVE  Kept
  <2> DEFINE r == [at |-> "CREATE", email |-> e, sso |-> None]
  <2>1. r \in Requests
    BY DEF Requests, AccountRequests
  <2>2. ApiTypeOK' /\ request'[h] = r
          /\ \A g \in Handlers \ {h} : request'[g] = request[g]
    BY <1>1, <2>1, Beginning DEF BeginRegister, Areas, ApiTypeOK
  <2> QED
    BY <1>1, <2>2, TurnsElsewhere DEF BeginRegister
<1>2. ASSUME NEW h \in Handlers, NEW u \in Users, BeginLogin(h, u)
      PROVE  Kept
  <2> DEFINE r == [at |-> "ENTER", user |-> u]
  <2>1. r \in Requests
    BY DEF Requests, AccountRequests
  <2>2. ApiTypeOK' /\ request'[h] = r
          /\ \A g \in Handlers \ {h} : request'[g] = request[g]
    BY <1>2, <2>1, Beginning DEF BeginLogin, Areas, ApiTypeOK
  <2> QED
    BY <1>2, <2>2, TurnsElsewhere DEF BeginLogin
<1>3. ASSUME NEW h \in Handlers, CreateRefused(h) \/ LinkRefused(h)
      PROVE  Kept
  BY <1>3, EndsElsewhere DEF CreateRefused, LinkRefused, ApiTypeOK
<1>4. ASSUME NEW s \in Sessions, Logout(s) \/ SessionLapses(s) \/ TokenLapses(s)
      PROVE  Kept
  <2>1. CASE Logout(s) \/ SessionLapses(s)
    BY <2>1, SessionEnds DEF Logout, SessionLapses
  <2>2. CASE TokenLapses(s)
    <3>1. owner[s] # None
      BY <2>2 DEF TokenLapses, AccountsSafe, AccountsInv
    <3> QED
      BY <2>2, <3>1, SessionEnds DEF TokenLapses
  <2> QED
    BY <1>4, <2>1, <2>2
<1> QED
  BY <1>1, <1>2, <1>3, <1>4, LinkBegins, RefreshBegins, CreateKeeps, LinkKeeps,
     EnterKeeps, RefreshKeeps DEF AccountsNext

(***************************************************************************)
(* What a step of each part does to the requests                           *)
(***************************************************************************)

\* A handler goes on, or turns from nothing or one of these to another.
Turns(names) ==
  \A g \in Handlers :
    \/ request'[g] = request[g]
    \/ {request[g].at, request'[g].at} \subseteq names \cup {"IDLE"}

LEMMA BeginTurns ==
  ASSUME ApiTypeOK, NEW h \in Handlers, NEW area \in Areas, NEW r \in Requests,
         Begin(h, area, r), faults' \in 0 .. MaxFaults, NEW names, r.at \in names
  PROVE  ApiTypeOK' /\ Turns(names)
BY Beginning DEF Turns, Idle

LEMMA EndTurns ==
  ASSUME ApiTypeOK, NEW h \in Handlers, End(h), faults' \in 0 .. MaxFaults,
         NEW names, request[h].at \in names
  PROVE  ApiTypeOK' /\ Turns(names)
BY Ending DEF Turns, Idle

LEMMA AccountsTurn ==
  ASSUME ApiTypeOK, AccountsSafe, AccountsNext
  PROVE  Turns({"CREATE", "LINK", "ENTER", "REFRESH"}) /\ UNCHANGED faults
<1> DEFINE names == {"CREATE", "LINK", "ENTER", "REFRESH"}
<1>1. ASSUME NEW h \in Handlers, NEW e \in Emails, BeginRegister(h, e)
      PROVE  Turns(names)
  <2>1. [at |-> "CREATE", email |-> e, sso |-> None] \in Requests
    BY DEF Requests, AccountRequests
  <2> QED
    BY <1>1, <2>1, BeginTurns DEF BeginRegister, Areas, ApiTypeOK
<1>2. ASSUME NEW h \in Handlers, NEW e \in Emails, NEW s \in Subjects,
             BeginCallback(h, e, s)
      PROVE  Turns(names)
  <2>1. CASE identity[e] = None
    <3>1. [at |-> "CREATE", email |-> e, sso |-> s] \in Requests
      BY DEF Requests, AccountRequests
    <3> QED
      BY <1>2, <2>1, <3>1, BeginTurns DEF BeginCallback, Areas, ApiTypeOK
  <2>2. CASE identity[e] # None
    <3>1. [at |-> "LINK", user |-> identity[e], sso |-> s] \in Requests
      BY <2>2 DEF Requests, AccountRequests, AccountsSafe, AccountsTypeOK
    <3> QED
      BY <1>2, <2>2, <3>1, BeginTurns DEF BeginCallback, Areas, ApiTypeOK
  <2> QED
    BY <2>1, <2>2
<1>3. ASSUME NEW h \in Handlers, NEW u \in Users, BeginLogin(h, u)
      PROVE  Turns(names)
  <2>1. [at |-> "ENTER", user |-> u] \in Requests
    BY DEF Requests, AccountRequests
  <2> QED
    BY <1>3, <2>1, BeginTurns DEF BeginLogin, Areas, ApiTypeOK
<1>4. ASSUME NEW h \in Handlers, NEW s \in Sessions, BeginRefresh(h, s)
      PROVE  Turns(names)
  <2>1. [at |-> "REFRESH", session |-> s] \in Requests
    BY DEF Requests, AccountRequests
  <2> QED
    BY <1>4, <2>1, BeginTurns DEF BeginRefresh, Areas, ApiTypeOK
<1>5. ASSUME NEW h \in Handlers,
             \/ Create(h) \/ CreateRefused(h) \/ Link(h) \/ LinkRefused(h)
             \/ Enter(h) \/ Refresh(h)
      PROVE  Turns(names)
  BY <1>5, EndTurns
     DEF Create, CreateRefused, Link, LinkRefused, Enter, Refresh, ApiTypeOK
<1>6. ASSUME NEW s \in Sessions, Logout(s) \/ SessionLapses(s) \/ TokenLapses(s)
      PROVE  Turns(names)
  BY <1>6 DEF Logout, SessionLapses, TokenLapses, Turns
<1>7. UNCHANGED faults
  BY DEF AccountsNext, BeginRegister, BeginCallback, BeginLogin, BeginRefresh,
         Create, CreateRefused, Link, LinkRefused, Enter, Refresh, Logout,
         SessionLapses, TokenLapses
<1> QED
  BY <1>1, <1>2, <1>3, <1>4, <1>5, <1>6, <1>7 DEF AccountsNext

(***************************************************************************)
(* Consent                                                                 *)
(***************************************************************************)

\* An edit of the company's parts was let in on an entry of the ledger.
ConsentSafe ==
  /\ ConsentTypeOK
  /\ ConsentIsEvidenced
  /\ \A h \in Handlers :
       request[h].at = "EDIT" /\ request[h].part \in {"profile", "objects"} =>
         \E k \in Keys : ledger[request[h].user][k] = request[h].release

LEMMA ConsentStays ==
  ASSUME ConsentSafe, UNCHANGED consentVars,
         \A g \in Handlers : request'[g].at = "EDIT" => request'[g] = request[g]
  PROVE  ConsentSafe'
<1>1. UNCHANGED <<deployed, ledger, accepted, pointer, audited>>
  BY DEF consentVars
<1>2. ConsentTypeOK' /\ ConsentIsEvidenced'
  BY <1>1 DEF ConsentSafe, ConsentTypeOK, ConsentIsEvidenced
<1>3. ASSUME NEW g \in Handlers, request'[g].at = "EDIT",
             request'[g].part \in {"profile", "objects"}
      PROVE  \E k \in Keys : ledger'[request'[g].user][k] = request'[g].release
  BY <1>1, <1>3 DEF ConsentSafe
<1> QED
  BY <1>2, <1>3 DEF ConsentSafe

\* The ledger is append-only: what it evidences it evidences for ever.
LEMMA AcceptKeeps ==
  ASSUME ApiTypeOK, ConsentSafe, NEW h \in Handlers, Accept(h)
  PROVE  ConsentSafe'
<1> DEFINE r == request[h]
<1>1. /\ r.at = "ACCEPT"
      /\ r.user \in Users /\ r.key \in Keys /\ r.release \in Versions
      /\ r.key # None /\ r.release # None
  BY RequestFields DEF ApiTypeOK, Accept, Versions
<1>2. /\ ledger[r.user][r.key] \in {None, r.release}
      /\ ledger' = [ledger EXCEPT ![r.user][r.key] = r.release]
      /\ audited' = IF ledger[r.user][r.key] = None
                    THEN [audited EXCEPT ![r.user][r.key] = @ + 1]
                    ELSE audited
      /\ accepted' = [accepted EXCEPT ![r.user] = r.release]
      /\ pointer' = [pointer EXCEPT ![r.user] = r.key]
      /\ deployed' = deployed
  BY DEF Accept
<1>3. ConsentTypeOK'
  BY <1>1, <1>2 DEF ConsentSafe, ConsentTypeOK
<1>4. \A u \in Users, k \in Keys :
        /\ ledger'[u][k] = IF u = r.user /\ k = r.key THEN r.release ELSE ledger[u][k]
        /\ audited'[u][k] = IF u = r.user /\ k = r.key /\ ledger[u][k] = None
                            THEN audited[u][k] + 1 ELSE audited[u][k]
  BY <1>1, <1>2 DEF ConsentSafe, ConsentTypeOK
<1>5. \A u \in Users, k \in Keys :
        audited'[u][k] = IF ledger'[u][k] = None THEN 0 ELSE 1
  BY <1>1, <1>2, <1>4 DEF ConsentSafe, ConsentIsEvidenced
<1>6. \A u \in Users :
        IF pointer'[u] = None
        THEN accepted'[u] = None
        ELSE accepted'[u] # None /\ ledger'[u][pointer'[u]] = accepted'[u]
  <2> SUFFICES ASSUME NEW u \in Users
               PROVE  IF pointer'[u] = None
                      THEN accepted'[u] = None
                      ELSE accepted'[u] # None /\ ledger'[u][pointer'[u]] = accepted'[u]
    OBVIOUS
  <2>1. CASE u = r.user
    BY <1>1, <1>2, <1>4, <2>1 DEF ConsentSafe, ConsentTypeOK
  <2>2. CASE u # r.user
    <3>1. pointer'[u] = pointer[u] /\ accepted'[u] = accepted[u]
      BY <1>2, <2>2 DEF ConsentSafe, ConsentTypeOK
    <3>2. pointer[u] # None => ledger'[u][pointer[u]] = ledger[u][pointer[u]]
      BY <1>4, <2>2 DEF ConsentSafe, ConsentTypeOK
    <3> QED
      BY <3>1, <3>2 DEF ConsentSafe, ConsentIsEvidenced
  <2> QED
    BY <2>1, <2>2
<1>7. ConsentIsEvidenced'
  BY <1>5, <1>6 DEF ConsentIsEvidenced
<1>8. /\ request'[h] = Idle
      /\ \A g \in Handlers \ {h} : request'[g] = request[g]
  BY Ending DEF Accept, ApiTypeOK
<1>9. ASSUME NEW g \in Handlers, request'[g].at = "EDIT",
             request'[g].part \in {"profile", "objects"}
      PROVE  \E k \in Keys : ledger'[request'[g].user][k] = request'[g].release
  <2>1. request'[g] = request[g]
    BY <1>8, <1>9 DEF Idle
  <2>2. PICK k \in Keys : ledger[request[g].user][k] = request[g].release
    BY <1>9, <2>1 DEF ConsentSafe
  <2>3. request[g].user \in Users /\ request[g].release \in Versions
    BY <1>9, <2>1, RequestFields DEF ApiTypeOK
  <2>4. ledger[request[g].user][k] # None
    BY <2>2, <2>3 DEF Versions
  <2> QED
    BY <1>2, <1>4, <2>1, <2>2, <2>3, <2>4
<1> QED
  BY <1>3, <1>7, <1>9 DEF ConsentSafe

\* Every step of the module Consent.
LEMMA ConsentStep ==
  ASSUME ApiTypeOK, ConsentSafe, ConsentNext
  PROVE  ApiTypeOK' /\ ConsentSafe' /\ Turns({"ACCEPT"}) /\ UNCHANGED faults
<1>1. ASSUME StartRollout \/ FinishRollout
      PROVE  ApiTypeOK' /\ ConsentSafe' /\ Turns({"ACCEPT"}) /\ UNCHANGED faults
  <2>1. ApiTypeOK' /\ UNCHANGED <<request, faults>>
    <3>1. CASE StartRollout
      BY <3>1, Visiting DEF StartRollout, Areas
    <3>2. CASE FinishRollout
      BY <3>2 DEF FinishRollout, apiVars, ApiTypeOK
    <3> QED
      BY <1>1, <3>1, <3>2
  <2>2. deployed' \in SUBSET Versions
    BY <1>1 DEF StartRollout, FinishRollout, ConsentSafe, ConsentTypeOK
  <2>3. UNCHANGED <<ledger, accepted, pointer, audited>>
    BY <1>1 DEF StartRollout, FinishRollout
  <2> QED
    BY <2>1, <2>2, <2>3 DEF ConsentSafe, ConsentTypeOK, ConsentIsEvidenced, Turns
<1>2. ASSUME NEW h \in Handlers, NEW u \in Users, NEW k \in Keys,
             NEW v \in Versions, BeginAccept(h, u, k, v)
      PROVE  ApiTypeOK' /\ ConsentSafe' /\ Turns({"ACCEPT"}) /\ UNCHANGED faults
  <2> DEFINE r == [at |-> "ACCEPT", user |-> u, key |-> k, release |-> v]
  <2>1. r \in Requests
    BY DEF Requests, ConsentRequests
  <2>2. Begin(h, "context", r) /\ UNCHANGED <<faults, consentVars>>
    BY <1>2 DEF BeginAccept
  <2>3. ApiTypeOK' /\ Turns({"ACCEPT"})
    BY <2>1, <2>2, BeginTurns DEF Areas, ApiTypeOK
  <2>4. \A g \in Handlers : request'[g].at = "EDIT" => request'[g] = request[g]
    BY <2>3 DEF Turns
  <2> QED
    BY <2>2, <2>3, <2>4, ConsentStays
<1>3. ASSUME NEW h \in Handlers, Accept(h) \/ AcceptRefused(h)
      PROVE  ApiTypeOK' /\ ConsentSafe' /\ Turns({"ACCEPT"}) /\ UNCHANGED faults
  <2>1. /\ End(h) /\ UNCHANGED faults
        /\ request[h].at = "ACCEPT"
    BY <1>3 DEF Accept, AcceptRefused
  <2>2. ApiTypeOK' /\ Turns({"ACCEPT"})
    BY <2>1, EndTurns DEF ApiTypeOK
  <2>3. CASE Accept(h)
    BY <2>1, <2>2, <2>3, AcceptKeeps
  <2>4. CASE AcceptRefused(h)
    <3>1. \A g \in Handlers : request'[g].at = "EDIT" => request'[g] = request[g]
      BY <2>2 DEF Turns
    <3> QED
      BY <2>1, <2>2, <2>4, <3>1, ConsentStays DEF AcceptRefused
  <2> QED
    BY <1>3, <2>3, <2>4
<1> QED
  BY <1>1, <1>2, <1>3 DEF ConsentNext

(***************************************************************************)
(* Company context and its cache                                           *)
(***************************************************************************)

\* A reader at work whose copy already misses an edit was overtaken by it.
ReadersKnow ==
  \A h \in Handlers, p \in Parts :
    /\ request[h].at = "READ"
    /\ request[h].copy.content[p] \notin {None, stored[p]}
    => request[h].copy.overtaken

CacheSafe == ContextTypeOK /\ StaleIsExplained /\ ReadersKnow

\* Only the holder of a request of this kind has edited the company's parts.
EditedOnConsent ==
  stored'["profile"] # stored["profile"] \/ stored'["objects"] # stored["objects"]
    => \E h \in Handlers, k \in Keys :
         /\ request[h].at = "EDIT"
         /\ ledger[request[h].user][k] = request[h].release

\* A step that leaves tables and copies alone and interrupts no invalidation
\* unless something fails.
LEMMA CacheStays ==
  ASSUME CacheSafe, UNCHANGED contextVars,
         \A g \in Handlers : request'[g].at = "READ" => request'[g] = request[g],
         faults' = MaxFaults =>
           /\ faults = MaxFaults
           /\ \A g \in Handlers :
                request[g].at = "INVALIDATE" => request'[g] = request[g]
  PROVE  CacheSafe'
<1>1. UNCHANGED <<stored, cache>>
  BY DEF contextVars
<1>2. ContextTypeOK' /\ ReadersKnow'
  BY <1>1 DEF CacheSafe, ContextTypeOK, ReadersKnow
<1>3. ASSUME faults' = MaxFaults, NEW k \in CacheKeys, IsStale(k)'
      PROVE  \/ cache'[k].overtaken
             \/ \E h \in Handlers : /\ request'[h].at = "INVALIDATE"
                                    /\ k \in Invalidated(request'[h].part)
  <2>1. IsStale(k) /\ faults = MaxFaults
    BY <1>1, <1>3 DEF IsStale
  <2>2. \/ cache[k].overtaken
        \/ \E h \in Handlers : /\ request[h].at = "INVALIDATE"
                               /\ k \in Invalidated(request[h].part)
    BY <2>1 DEF CacheSafe, StaleIsExplained
  <2> QED
    BY <1>1, <1>3, <2>2
<1>4. StaleIsExplained'
  BY <1>3 DEF StaleIsExplained
<1> QED
  BY <1>2, <1>4 DEF CacheSafe

LEMMA ReadRequests ==
  ASSUME NEW r \in Requests, r.at = "READ"
  PROVE  r \in [at : {"READ"}, key : CacheKeys, copy : Copies]
<1>1. r \in ContextRequests
  BY DEF Requests, Idle, AccountRequests, ConsentRequests, DeskRequests
<1> QED
  BY <1>1 DEF ContextRequests

LEMMA BeginReadKeeps ==
  ASSUME ApiTypeOK, CacheSafe, NEW h \in Handlers, NEW u \in Users,
         NEW k \in CacheKeys, BeginRead(h, u, k)
  PROVE  ApiTypeOK' /\ CacheSafe' /\ Turns({"READ"})
<1> DEFINE r == [at |-> "READ", key |-> k,
                 copy |-> [content |-> [p \in Parts |-> None], overtaken |-> FALSE]]
<1>1. r \in Requests
  BY DEF Requests, ContextRequests, Copies
<1>2. /\ Begin(h, "context", r)
      /\ faults' \in 0 .. MaxFaults
      /\ faults' = MaxFaults => faults = MaxFaults
      /\ UNCHANGED <<stored, cache>>
  BY DEF BeginRead, ApiTypeOK, contextVars
<1>3. /\ ApiTypeOK' /\ Turns({"READ"})
      /\ request[h] = Idle
      /\ request'[h] = r
      /\ \A g \in Handlers \ {h} : request'[g] = request[g]
  BY <1>1, <1>2, Beginning, BeginTurns DEF Areas
<1>4. ContextTypeOK'
  BY <1>2 DEF CacheSafe, ContextTypeOK
<1>5. ReadersKnow'
  BY <1>2, <1>3 DEF CacheSafe, ReadersKnow
<1>6. ASSUME faults' = MaxFaults, NEW j \in CacheKeys, IsStale(j)'
      PROVE  \/ cache'[j].overtaken
             \/ \E g \in Handlers : /\ request'[g].at = "INVALIDATE"
                                    /\ j \in Invalidated(request'[g].part)
  <2>1. IsStale(j) /\ faults = MaxFaults
    BY <1>2, <1>6 DEF IsStale
  <2>2. \/ cache[j].overtaken
        \/ \E g \in Handlers : /\ request[g].at = "INVALIDATE"
                               /\ j \in Invalidated(request[g].part)
    BY <2>1 DEF CacheSafe, StaleIsExplained
  <2> QED
    BY <1>2, <1>3, <2>2 DEF Idle
<1>7. StaleIsExplained'
  BY <1>6 DEF StaleIsExplained
<1> QED
  BY <1>3, <1>4, <1>5, <1>7 DEF CacheSafe

LEMMA ReadPartKeeps ==
  ASSUME ApiTypeOK, CacheSafe, NEW h \in Handlers, NEW p \in Parts, ReadPart(h, p)
  PROVE  ApiTypeOK' /\ CacheSafe' /\ Turns({"READ"})
<1> DEFINE r == request[h]
           c == [r.copy.content EXCEPT ![p] = stored[p]]
           new == [r EXCEPT !.copy.content[p] = stored[p]]
<1>1. r \in [at : {"READ"}, key : CacheKeys, copy : Copies]
  BY ReadRequests DEF ApiTypeOK, ReadPart
<1>2. /\ new = [at |-> "READ", key |-> r.key,
                copy |-> [content |-> c, overtaken |-> r.copy.overtaken]]
      /\ c \in [Parts -> Nat \cup {None}]
  BY <1>1 DEF Copies, CacheSafe, ContextTypeOK
<1>3. new \in Requests
  BY <1>1, <1>2 DEF Requests, ContextRequests, Copies
<1>4. request' = [request EXCEPT ![h] = new] /\ UNCHANGED <<visits, faults, stored, cache>>
  BY DEF ReadPart, Continue, contextVars
<1>5. /\ ApiTypeOK'
      /\ request'[h] = new
      /\ \A g \in Handlers \ {h} : request'[g] = request[g]
  BY <1>3, <1>4, HandlerMoves DEF ApiTypeOK
<1>6. Turns({"READ"})
  BY <1>1, <1>2, <1>5 DEF Turns
<1>7. ContextTypeOK'
  BY <1>4 DEF CacheSafe, ContextTypeOK
<1>8. ReadersKnow'
  <2>1. ASSUME NEW q \in Parts, request'[h].copy.content[q] \notin {None, stored'[q]}
        PROVE  request'[h].copy.overtaken
    <3>1. q # p /\ r.copy.content[q] \notin {None, stored[q]}
      BY <1>1, <1>2, <1>4, <1>5, <2>1 DEF Copies
    <3> QED
      BY <1>1, <1>2, <1>5, <3>1 DEF CacheSafe, ReadersKnow
  <2> QED
    BY <1>4, <1>5, <2>1 DEF CacheSafe, ReadersKnow
<1>9. ASSUME faults' = MaxFaults, NEW k \in CacheKeys, IsStale(k)'
      PROVE  \/ cache'[k].overtaken
             \/ \E g \in Handlers : /\ request'[g].at = "INVALIDATE"
                                    /\ k \in Invalidated(request'[g].part)
  <2>1. IsStale(k) /\ faults = MaxFaults
    BY <1>4, <1>9 DEF IsStale
  <2>2. \/ cache[k].overtaken
        \/ \E g \in Handlers : /\ request[g].at = "INVALIDATE"
                               /\ k \in Invalidated(request[g].part)
    BY <2>1 DEF CacheSafe, StaleIsExplained
  <2> QED
    BY <1>1, <1>4, <1>5, <2>2
<1>10. StaleIsExplained'
  BY <1>9 DEF StaleIsExplained
<1> QED
  BY <1>5, <1>6, <1>7, <1>8, <1>10 DEF CacheSafe

\* What is filled in is complete: it misses only what overtook its reader.
LEMMA StoreCopyKeeps ==
  ASSUME ApiTypeOK, CacheSafe, NEW h \in Handlers, StoreCopy(h)
  PROVE  ApiTypeOK' /\ CacheSafe' /\ Turns({"READ"})
<1> DEFINE r == request[h]
<1>1. r \in [at : {"READ"}, key : CacheKeys, copy : Copies]
  BY ReadRequests DEF ApiTypeOK, StoreCopy
<1>2. /\ cache' = [cache EXCEPT ![r.key] = r.copy]
      /\ IsComplete(r)
      /\ End(h) /\ UNCHANGED <<faults, stored>>
  BY DEF StoreCopy
<1>3. /\ ApiTypeOK' /\ Turns({"READ"})
      /\ request'[h] = Idle
      /\ \A g \in Handlers \ {h} : request'[g] = request[g]
  BY <1>1, <1>2, Ending, EndTurns DEF ApiTypeOK
<1>4. ContextTypeOK'
  BY <1>1, <1>2 DEF CacheSafe, ContextTypeOK
<1>5. ReadersKnow'
  BY <1>2, <1>3 DEF CacheSafe, ReadersKnow, Idle
<1>6. ASSUME faults' = MaxFaults, NEW k \in CacheKeys, IsStale(k)'
      PROVE  \/ cache'[k].overtaken
             \/ \E g \in Handlers : /\ request'[g].at = "INVALIDATE"
                                    /\ k \in Invalidated(request'[g].part)
  <2>1. CASE k = r.key
    <3>1. cache'[k] = r.copy
      BY <1>1, <1>2, <2>1 DEF CacheSafe, ContextTypeOK
    <3>2. PICK p \in PartsOf(k) : r.copy.content[p] # stored[p]
      BY <1>2, <1>6, <3>1 DEF IsStale
    <3>3. p \in Parts /\ r.copy.content[p] # None
      BY <1>2, <2>1, <3>2 DEF IsComplete, PartsOf, Parts, CacheKeys
    <3> QED
      BY <1>1, <3>1, <3>2, <3>3 DEF CacheSafe, ReadersKnow
  <2>2. CASE k # r.key
    <3>1. cache'[k] = cache[k]
      BY <1>2, <2>2 DEF CacheSafe, ContextTypeOK
    <3>2. IsStale(k) /\ faults = MaxFaults
      BY <1>2, <1>6, <3>1 DEF IsStale
    <3>3. \/ cache[k].overtaken
          \/ \E g \in Handlers : /\ request[g].at = "INVALIDATE"
                                 /\ k \in Invalidated(request[g].part)
      BY <3>2 DEF CacheSafe, StaleIsExplained
    <3> QED
      BY <1>1, <1>3, <3>1, <3>3
  <2> QED
    BY <2>1, <2>2
<1>7. StaleIsExplained'
  BY <1>6 DEF StaleIsExplained
<1> QED
  BY <1>3, <1>4, <1>5, <1>7 DEF CacheSafe

LEMMA Noting ==
  ASSUME NEW Key, NEW Content,
         NEW r \in [at : {"READ"}, key : Key,
                    copy : [content : Content, overtaken : BOOLEAN]]
  PROVE  LET over == [r EXCEPT !.copy.overtaken = TRUE]
         IN  /\ over \in [at : {"READ"}, key : Key,
                          copy : [content : Content, overtaken : BOOLEAN]]
             /\ over.copy.content = r.copy.content
             /\ over.copy.overtaken
OBVIOUS

\* The readers a commit overtakes go on reading, with that noted.
LEMMA Overtaking ==
  ASSUME NEW req \in [Handlers -> Requests], NEW p \in Parts
  PROVE  /\ Overtake(req, p) \in [Handlers -> Requests]
         /\ \A g \in Handlers :
              LET new == Overtake(req, p)[g]
              IN  IF req[g].at = "READ"
                  THEN /\ new.at = "READ"
                       /\ new.copy.content = req[g].copy.content
                       /\ req[g].copy.overtaken => new.copy.overtaken
                       /\ req[g].copy.content[p] # None => new.copy.overtaken
                  ELSE new = req[g]
<1>1. ASSUME NEW g \in Handlers
      PROVE  LET new == Overtake(req, p)[g]
             IN  /\ new \in Requests
                 /\ IF req[g].at = "READ"
                    THEN /\ new.at = "READ"
                         /\ new.copy.content = req[g].copy.content
                         /\ req[g].copy.overtaken => new.copy.overtaken
                         /\ req[g].copy.content[p] # None => new.copy.overtaken
                    ELSE new = req[g]
  <2> DEFINE r == req[g]
             over == [r EXCEPT !.copy.overtaken = TRUE]
  <2>1. CASE r.at = "READ" /\ r.copy.content[p] # None
    <3>1. r \in [at : {"READ"}, key : CacheKeys, copy : Copies]
      BY <2>1, ReadRequests
    <3>2. /\ over \in [at : {"READ"}, key : CacheKeys, copy : Copies]
          /\ over.copy.content = r.copy.content
          /\ over.copy.overtaken
      BY <3>1, Noting DEF Copies
    <3>3. over \in Requests
      BY <3>2 DEF Requests, ContextRequests
    <3>4. Overtake(req, p)[g] = over
      BY <2>1 DEF Overtake
    <3> QED
      BY <2>1, <3>2, <3>3, <3>4
  <2>2. CASE ~(r.at = "READ" /\ r.copy.content[p] # None)
    BY <2>2 DEF Overtake
  <2> QED
    BY <2>1, <2>2
<1>2. Overtake(req, p) = [g \in Handlers |-> Overtake(req, p)[g]]
  BY DEF Overtake
<1> QED
  BY <1>1, <1>2

\* The commit makes copies stale, and its own handler is to delete them.
LEMMA CommitEditKeeps ==
  ASSUME ApiTypeOK, CacheSafe, NEW h \in Handlers, CommitEdit(h)
  PROVE  /\ ApiTypeOK' /\ CacheSafe' /\ Turns({"READ", "EDIT", "INVALIDATE"})
         /\ \A g \in Handlers : request'[g].at # "EDIT" \/ request'[g] = request[g]
<1> DEFINE p == request[h].part
           new == [at |-> "INVALIDATE", part |-> p]
           req == [request EXCEPT ![h] = new]
<1>1. p \in Parts /\ request[h].at = "EDIT"
  BY RequestFields DEF ApiTypeOK, CommitEdit
<1>2. new \in Requests
  BY <1>1 DEF Requests, ContextRequests
<1>3. req \in [Handlers -> Requests]
  BY <1>2 DEF ApiTypeOK
<1>4. /\ stored' = [stored EXCEPT ![p] = @ + 1]
      /\ request' = Overtake(req, p)
      /\ UNCHANGED <<visits, faults, cache>>
  BY DEF CommitEdit
<1>5. /\ request' \in [Handlers -> Requests]
      /\ request'[h] = new
      /\ \A g \in Handlers \ {h} :
           IF request[g].at = "READ"
           THEN /\ request'[g].at = "READ"
                /\ request'[g].copy.content = request[g].copy.content
                /\ request[g].copy.overtaken => request'[g].copy.overtaken
                /\ request[g].copy.content[p] # None => request'[g].copy.overtaken
           ELSE request'[g] = request[g]
  <2>1. req[h] = new /\ \A g \in Handlers \ {h} : req[g] = request[g]
    BY DEF ApiTypeOK
  <2>2. Overtake(req, p)[h] = req[h]
    BY <1>1, <1>3, <2>1, Overtaking
  <2> QED
    BY <1>1, <1>3, <1>4, <2>1, <2>2, Overtaking
<1>6. ApiTypeOK'
  BY <1>4, <1>5 DEF ApiTypeOK
<1>7. Turns({"READ", "EDIT", "INVALIDATE"})
  <2>1. {request[h].at, request'[h].at} \subseteq {"READ", "EDIT", "INVALIDATE"}
    BY <1>1, <1>5
  <2>2. ASSUME NEW g \in Handlers \ {h}
        PROVE  \/ request'[g] = request[g]
               \/ {request[g].at, request'[g].at} \subseteq {"READ", "EDIT", "INVALIDATE"}
    BY <1>5
  <2> QED
    BY <2>1, <2>2 DEF Turns
<1>8. ContextTypeOK'
  BY <1>1, <1>4 DEF CacheSafe, ContextTypeOK
<1>9. \A q \in Parts \ {p} : stored'[q] = stored[q]
  BY <1>1, <1>4 DEF CacheSafe, ContextTypeOK
<1>10. ReadersKnow'
  <2>1. ASSUME NEW g \in Handlers, NEW q \in Parts, request'[g].at = "READ",
               request'[g].copy.content[q] \notin {None, stored'[q]}
        PROVE  request'[g].copy.overtaken
    <3>1. g # h
      BY <1>5, <2>1
    <3>2. /\ request[g].at = "READ"
          /\ request'[g].copy.content = request[g].copy.content
          /\ request[g].copy.overtaken => request'[g].copy.overtaken
          /\ request[g].copy.content[p] # None => request'[g].copy.overtaken
      BY <1>5, <2>1, <3>1
    <3>3. CASE q = p
      BY <2>1, <3>2, <3>3
    <3>4. CASE q # p
      BY <1>9, <2>1, <3>2, <3>4 DEF CacheSafe, ReadersKnow
    <3> QED
      BY <3>3, <3>4
  <2> QED
    BY <2>1 DEF ReadersKnow
<1>11. ASSUME faults' = MaxFaults, NEW k \in CacheKeys, IsStale(k)'
       PROVE  \/ cache'[k].overtaken
              \/ \E g \in Handlers : /\ request'[g].at = "INVALIDATE"
                                     /\ k \in Invalidated(request'[g].part)
  <2>1. CASE p \in PartsOf(k)
    <3>1. k \in Invalidated(p)
      BY <1>1, <2>1 DEF PartsOf, Invalidated, CacheKeys, Parts
    <3> QED
      BY <1>5, <3>1
  <2>2. CASE p \notin PartsOf(k)
    <3>1. PartsOf(k) \subseteq Parts \ {p}
      BY <2>2 DEF PartsOf, Parts, CacheKeys
    <3>2. IsStale(k) /\ faults = MaxFaults
      BY <1>4, <1>9, <1>11, <3>1 DEF IsStale
    <3>3. \/ cache[k].overtaken
          \/ \E g \in Handlers : /\ request[g].at = "INVALIDATE"
                                 /\ k \in Invalidated(request[g].part)
      BY <3>2 DEF CacheSafe, StaleIsExplained
    <3>4. \A g \in Handlers :
            request[g].at = "INVALIDATE" => request'[g] = request[g]
      BY <1>1, <1>5
    <3> QED
      BY <1>4, <3>3, <3>4
  <2> QED
    BY <2>1, <2>2
<1>12. StaleIsExplained'
  BY <1>11 DEF StaleIsExplained
<1>13. \A g \in Handlers : request'[g].at # "EDIT" \/ request'[g] = request[g]
  BY <1>5
<1> QED
  BY <1>6, <1>7, <1>8, <1>10, <1>12, <1>13 DEF CacheSafe

\* Copies go away, and with them what there was to explain.
LEMMA DroppingKeeps ==
  ASSUME CacheSafe, NEW dropped \in SUBSET CacheKeys,
         cache' = [k \in CacheKeys |-> IF k \in dropped THEN None ELSE cache[k]],
         UNCHANGED <<faults, stored>>,
         \A g \in Handlers : request'[g].at = "READ" => request'[g] = request[g],
         \A g \in Handlers :
           \/ request[g].at # "INVALIDATE"
           \/ request'[g] = request[g]
           \/ Invalidated(request[g].part) \subseteq dropped
  PROVE  CacheSafe'
<1>1. ContextTypeOK' /\ ReadersKnow'
  BY DEF CacheSafe, ContextTypeOK, ReadersKnow
<1>2. ASSUME faults' = MaxFaults, NEW k \in CacheKeys, IsStale(k)'
      PROVE  \/ cache'[k].overtaken
             \/ \E g \in Handlers : /\ request'[g].at = "INVALIDATE"
                                    /\ k \in Invalidated(request'[g].part)
  <2>1. k \notin dropped /\ cache'[k] = cache[k]
    BY <1>2 DEF IsStale
  <2>2. IsStale(k) /\ faults = MaxFaults
    BY <1>2, <2>1 DEF IsStale
  <2>3. \/ cache[k].overtaken
        \/ \E g \in Handlers : /\ request[g].at = "INVALIDATE"
                               /\ k \in Invalidated(request[g].part)
    BY <2>2 DEF CacheSafe, StaleIsExplained
  <2> QED
    BY <2>1, <2>3
<1>3. StaleIsExplained'
  BY <1>2 DEF StaleIsExplained
<1> QED
  BY <1>1, <1>3 DEF CacheSafe

\* An edit is let in on the entry the columns point to.
LEMMA BeginEditKeeps ==
  ASSUME ApiTypeOK, ConsentSafe, CacheSafe, UNCHANGED consentVars,
         NEW h \in Handlers, NEW u \in Users, NEW p \in Parts, NEW v \in Versions,
         BeginEdit(h, u, p, v)
  PROVE  ApiTypeOK' /\ ConsentSafe' /\ CacheSafe' /\ Turns({"EDIT"})
<1> DEFINE r == [at |-> "EDIT", user |-> u, part |-> p, release |-> v]
<1>1. r \in Requests
  BY DEF Requests, ContextRequests
<1>2. Begin(h, "context", r) /\ UNCHANGED <<faults, contextVars>>
  BY DEF BeginEdit
<1>3. /\ ApiTypeOK' /\ Turns({"EDIT"})
      /\ request[h] = Idle
      /\ request'[h] = r
      /\ \A g \in Handlers \ {h} : request'[g] = request[g]
  BY <1>1, <1>2, Beginning, BeginTurns DEF Areas, ApiTypeOK
<1>4. CacheSafe'
  <2>1. \A g \in Handlers : request'[g].at = "READ" => request'[g] = request[g]
    BY <1>3
  <2>2. \A g \in Handlers : request[g].at = "INVALIDATE" => request'[g] = request[g]
    BY <1>3 DEF Idle
  <2> QED
    BY <1>2, <2>1, <2>2, CacheStays
<1>5. p \in {"profile", "objects"} => \E k \in Keys : ledger[u][k] = v
  <2> SUFFICES ASSUME p \in {"profile", "objects"}
               PROVE  \E k \in Keys : ledger[u][k] = v
    OBVIOUS
  <2>1. pointer[u] # None /\ accepted[u] = v
    BY DEF BeginEdit, MayEdit, AcceptanceIsCurrent
  <2>2. pointer[u] \in Keys /\ ledger[u][pointer[u]] = v
    BY <2>1 DEF ConsentSafe, ConsentTypeOK, ConsentIsEvidenced
  <2> QED
    BY <2>2
<1>6. UNCHANGED <<deployed, ledger, accepted, pointer, audited>>
  BY DEF consentVars
<1>7. ConsentTypeOK' /\ ConsentIsEvidenced'
  BY <1>6 DEF ConsentSafe, ConsentTypeOK, ConsentIsEvidenced
<1>8. ASSUME NEW g \in Handlers, request'[g].at = "EDIT",
             request'[g].part \in {"profile", "objects"}
      PROVE  \E k \in Keys : ledger'[request'[g].user][k] = request'[g].release
  <2>1. CASE g = h
    BY <1>3, <1>5, <1>6, <1>8, <2>1
  <2>2. CASE g # h
    BY <1>3, <1>6, <1>8, <2>2 DEF ConsentSafe
  <2> QED
    BY <2>1, <2>2
<1> QED
  BY <1>3, <1>4, <1>7, <1>8 DEF ConsentSafe

\* Every step of the module CompanyContext.
LEMMA ContextStep ==
  ASSUME ApiTypeOK, ConsentSafe, CacheSafe, ContextNext, UNCHANGED consentVars
  PROVE  /\ ApiTypeOK' /\ ConsentSafe' /\ CacheSafe' /\ EditedOnConsent
         /\ Turns({"READ", "EDIT", "INVALIDATE"})
<1> DEFINE names == {"READ", "EDIT", "INVALIDATE"}
           Goal == /\ ApiTypeOK' /\ ConsentSafe' /\ CacheSafe' /\ EditedOnConsent
                   /\ Turns(names)
<1>1. ASSUME NEW h \in Handlers,
             \/ \E u \in Users, k \in CacheKeys : BeginRead(h, u, k)
             \/ \E p \in Parts : ReadPart(h, p)
             \/ StoreCopy(h)
      PROVE  Goal
  <2>1. ApiTypeOK' /\ CacheSafe' /\ Turns({"READ"})
    BY <1>1, BeginReadKeeps, ReadPartKeeps, StoreCopyKeeps
  <2>2. ConsentSafe'
    BY <2>1, ConsentStays DEF Turns
  <2>3. stored' = stored
    BY <1>1 DEF BeginRead, ReadPart, StoreCopy, contextVars
  <2> QED
    BY <2>1, <2>2, <2>3 DEF EditedOnConsent, Turns
<1>2. ASSUME NEW h \in Handlers, NEW u \in Users, NEW p \in Parts,
             NEW v \in Versions, BeginEdit(h, u, p, v)
      PROVE  Goal
  BY <1>2, BeginEditKeeps DEF EditedOnConsent, Turns, BeginEdit, contextVars
<1>3. ASSUME NEW h \in Handlers, ReadNothing(h)
      PROVE  Goal
  <2>1. End(h) /\ request[h].at = "READ" /\ UNCHANGED <<faults, contextVars>>
    BY <1>3 DEF ReadNothing
  <2>2. /\ ApiTypeOK' /\ Turns(names)
        /\ request'[h] = Idle
        /\ \A g \in Handlers \ {h} : request'[g] = request[g]
    BY <2>1, Ending, EndTurns DEF ApiTypeOK
  <2>3. CacheSafe' /\ ConsentSafe'
    BY <2>1, <2>2, CacheStays, ConsentStays DEF Idle
  <2> QED
    BY <2>1, <2>2, <2>3 DEF EditedOnConsent, contextVars
<1>4. ASSUME NEW h \in Handlers, CommitEdit(h)
      PROVE  Goal
  <2>1. /\ ApiTypeOK' /\ CacheSafe' /\ Turns(names)
        /\ \A g \in Handlers : request'[g].at = "EDIT" => request'[g] = request[g]
    BY <1>4, CommitEditKeeps
  <2>2. ConsentSafe'
    BY <2>1, ConsentStays
  <2>3. EditedOnConsent
    <3> DEFINE p == request[h].part
    <3>1. request[h].at = "EDIT" /\ p \in Parts
      BY <1>4, RequestFields DEF CommitEdit, ApiTypeOK
    <3>2. \A q \in Parts \ {p} : stored'[q] = stored[q]
      BY <1>4 DEF CommitEdit, CacheSafe, ContextTypeOK
    <3>3. p \in {"profile", "objects"} =>
            \E k \in Keys : ledger[request[h].user][k] = request[h].release
      BY <3>1 DEF ConsentSafe
    <3> QED
      BY <3>1, <3>2, <3>3 DEF EditedOnConsent, Parts
  <2> QED
    BY <2>1, <2>2, <2>3
<1>5. ASSUME NEW h \in Handlers, Invalidate(h)
      PROVE  Goal
  <2>1. End(h) /\ request[h].at = "INVALIDATE" /\ UNCHANGED <<faults, stored>>
    BY <1>5 DEF Invalidate
  <2>2. /\ ApiTypeOK' /\ Turns(names)
        /\ request'[h] = Idle
        /\ \A g \in Handlers \ {h} : request'[g] = request[g]
    BY <2>1, Ending, EndTurns DEF ApiTypeOK
  <2>3. Invalidated(request[h].part) \subseteq CacheKeys
    BY DEF Invalidated, CacheKeys
  <2>4. CacheSafe'
    BY <1>5, <2>1, <2>2, <2>3, DroppingKeeps DEF Invalidate, Idle
  <2>5. ConsentSafe'
    BY <2>2, ConsentStays DEF Idle
  <2> QED
    BY <2>1, <2>2, <2>4, <2>5 DEF EditedOnConsent
<1>6. ASSUME NEW j \in CacheKeys, CopyLapses(j)
      PROVE  Goal
  <2>1. UNCHANGED <<request, visits, faults, stored>>
    BY <1>6 DEF CopyLapses, apiVars
  <2>2. PICK dropped \in SUBSET CacheKeys : dropped = {j}
    OBVIOUS
  <2>3. CacheSafe'
    <3>1. cache' = [k \in CacheKeys |-> IF k \in dropped THEN None ELSE cache[k]]
      BY <1>6, <2>2 DEF CopyLapses, CacheSafe, ContextTypeOK
    <3> QED
      BY <2>1, <3>1, DroppingKeeps
  <2>4. ConsentSafe'
    BY <2>1, ConsentStays
  <2> QED
    BY <2>1, <2>3, <2>4 DEF EditedOnConsent, Turns, ApiTypeOK
<1> QED
  BY <1>1, <1>2, <1>3, <1>4, <1>5, <1>6 DEF ContextNext

(***************************************************************************)
(* Review cases and the pilot                                              *)
(***************************************************************************)

\* A closed case has a resolver and one closing verdict in the audit trail;
\* any other has none.
DeskSafe ==
  /\ DeskTypeOK
  /\ CheckpointsFitEngagement
  /\ \A c \in Cases :
       /\ case[c] \in Final => resolver[c] # None
       /\ \A v \in Final : recorded[c][v] = IF v = case[c] THEN 1 ELSE 0

\* What one step does to the cases.
DecisionsKept ==
  \A c \in Cases :
    /\ case[c] \in Final => UNCHANGED <<case[c], resolver[c]>>
    /\ case'[c] \in Final =>
         /\ resolver'[c] # None
         /\ \A v \in Final : recorded'[c][v] = IF v = case'[c] THEN 1 ELSE 0

LEMMA DeskStays ==
  ASSUME DeskSafe, UNCHANGED deskVars
  PROVE  DeskSafe' /\ DecisionsKept
<1>1. UNCHANGED <<case, resolver, recorded, engagement, checkpoint, completed,
                  pilotEvents>>
  BY DEF deskVars
<1>2. DeskTypeOK' /\ CheckpointsFitEngagement'
  BY <1>1 DEF DeskSafe, DeskTypeOK, CheckpointsFitEngagement
<1> QED
  BY <1>1, <1>2 DEF DeskSafe, DecisionsKept

LEMMA Counting ==
  ASSUME NEW S, NEW T, NEW f \in [S -> [T -> Nat]], NEW s \in S, NEW t \in T
  PROVE  [f EXCEPT ![s][t] = @ + 1] \in [S -> [T -> Nat]]
OBVIOUS

\* A verdict is written while the case is open, so it is the first that closes.
LEMMA ResolveKeeps ==
  ASSUME ApiTypeOK, DeskSafe, NEW h \in Handlers, Resolve(h)
  PROVE  DeskSafe' /\ DecisionsKept
<1> DEFINE r == request[h]
<1>1. /\ r.user \in Users /\ r.case \in Cases /\ r.verdict \in Verdict
      /\ r.user # None
  BY RequestFields DEF ApiTypeOK, Resolve
<1>2. /\ case[r.case] \in {"OPEN", "IN_REVIEW"}
      /\ case' = [case EXCEPT ![r.case] = r.verdict]
      /\ resolver' = [resolver EXCEPT ![r.case] =
                        IF r.verdict \in Final THEN r.user ELSE None]
      /\ recorded' = [recorded EXCEPT ![r.case][r.verdict] = @ + 1]
      /\ UNCHANGED <<engagement, checkpoint, completed, pilotEvents>>
  BY DEF Resolve, IsOpen, pilotVars
<1>3. DeskTypeOK'
  <2>1. /\ case' \in [Cases -> Verdict \cup {"OPEN", None}]
        /\ resolver' \in [Cases -> Users \cup {None}]
    BY <1>1, <1>2 DEF DeskSafe, DeskTypeOK
  <2>2. recorded' \in [Cases -> [Verdict \cup {"OPEN"} -> Nat]]
    <3>1. r.verdict \in Verdict \cup {"OPEN"}
      BY <1>1
    <3>2. recorded \in [Cases -> [Verdict \cup {"OPEN"} -> Nat]]
      BY DEF DeskSafe, DeskTypeOK
    <3> HIDE DEF r
    <3> QED
      BY ONLY <1>1, <1>2, <3>1, <3>2, Counting
  <2> QED
    BY <1>2, <2>1, <2>2 DEF DeskSafe, DeskTypeOK
<1>4. CheckpointsFitEngagement'
  BY <1>2 DEF DeskSafe, CheckpointsFitEngagement
<1>5. \A c \in Cases \ {r.case} : UNCHANGED <<case[c], resolver[c], recorded[c]>>
  BY <1>1, <1>2 DEF DeskSafe, DeskTypeOK
<1>6. /\ case'[r.case] = r.verdict
      /\ r.verdict \in Final => resolver'[r.case] # None
      /\ \A v \in Final : recorded'[r.case][v] = IF v = r.verdict THEN 1 ELSE 0
  <2>1. \A v \in Final : recorded[r.case][v] = 0
    BY <1>1, <1>2 DEF DeskSafe, Final
  <2>2. \A v \in Verdict \cup {"OPEN"} :
          recorded'[r.case][v] = IF v = r.verdict THEN recorded[r.case][v] + 1
                                 ELSE recorded[r.case][v]
    BY <1>1, <1>2 DEF DeskSafe, DeskTypeOK
  <2> QED
    BY <1>1, <1>2, <2>1, <2>2 DEF DeskSafe, DeskTypeOK, Verdict
<1>7. DecisionsKept
  BY <1>1, <1>2, <1>5, <1>6 DEF DecisionsKept, DeskSafe, Final
<1> QED
  BY <1>1, <1>3, <1>4, <1>5, <1>6, <1>7 DEF DeskSafe

LEMMA SubmitKeeps ==
  ASSUME ApiTypeOK, DeskSafe, NEW h \in Handlers, Submit(h)
  PROVE  DeskSafe' /\ DecisionsKept
<1> DEFINE d == request[h].case
<1>1. d \in Cases
  BY RequestFields DEF ApiTypeOK, Submit
<1>2. /\ case' = [case EXCEPT ![d] = IF @ = None THEN "OPEN" ELSE @]
      /\ recorded' = [recorded EXCEPT ![d]["OPEN"] = @ + 1]
      /\ UNCHANGED <<resolver, engagement, checkpoint, completed, pilotEvents>>
  BY DEF Submit, pilotVars
<1>3. DeskTypeOK'
  <2>1. case' \in [Cases -> Verdict \cup {"OPEN", None}]
    BY <1>1, <1>2 DEF DeskSafe, DeskTypeOK
  <2>2. recorded' \in [Cases -> [Verdict \cup {"OPEN"} -> Nat]]
    <3>1. "OPEN" \in Verdict \cup {"OPEN"}
      OBVIOUS
    <3>2. recorded \in [Cases -> [Verdict \cup {"OPEN"} -> Nat]]
      BY DEF DeskSafe, DeskTypeOK
    <3> HIDE DEF d
    <3> QED
      BY ONLY <1>1, <1>2, <3>1, <3>2, Counting
  <2> QED
    BY <1>2, <2>1, <2>2 DEF DeskSafe, DeskTypeOK
<1>4. CheckpointsFitEngagement'
  BY <1>2 DEF DeskSafe, CheckpointsFitEngagement
<1>5. ASSUME NEW c \in Cases
      PROVE  /\ case[c] \in Final => case'[c] = case[c]
             /\ case'[c] \in Final => case'[c] = case[c]
             /\ \A v \in Final : v = case'[c] <=> v = case[c]
  <2>1. CASE c = d /\ case[c] = None
    <3>1. case'[c] = "OPEN"
      BY <1>1, <1>2, <2>1 DEF DeskSafe, DeskTypeOK
    <3> QED
      BY <2>1, <3>1 DEF Final
  <2>2. CASE ~(c = d /\ case[c] = None)
    BY <1>1, <1>2, <2>2 DEF DeskSafe, DeskTypeOK
  <2> QED
    BY <2>1, <2>2
<1>6. \A c \in Cases, v \in Final : recorded'[c][v] = recorded[c][v]
  BY <1>1, <1>2 DEF DeskSafe, DeskTypeOK, Final, Verdict
<1>7. DecisionsKept
  BY <1>2, <1>5, <1>6 DEF DecisionsKept, DeskSafe
<1> QED
  BY <1>2, <1>3, <1>4, <1>5, <1>6, <1>7 DEF DeskSafe

\* The cases are not the pilot's business.
LEMMA PilotKeeps ==
  ASSUME DeskSafe, UNCHANGED reviewVars,
         engagement' \in Instants \cup {None},
         checkpoint' \in [Days -> Instants \cup {None}],
         completed' \subseteq Days, pilotEvents' \subseteq EventKeys,
         CheckpointsFitEngagement'
  PROVE  DeskSafe' /\ DecisionsKept
<1>1. UNCHANGED <<case, resolver, recorded>>
  BY DEF reviewVars
<1>2. DeskTypeOK'
  BY <1>1 DEF DeskSafe, DeskTypeOK
<1> QED
  BY <1>1, <1>2 DEF DeskSafe, DecisionsKept

LEMMA Opening ==
  ASSUME DeskSafe, NEW t \in Instants, OpenEngagement(t), UNCHANGED reviewVars
  PROVE  DeskSafe' /\ DecisionsKept
<1>1. /\ engagement' \in Instants \cup {None}
      /\ checkpoint' \in [Days -> Instants \cup {None}]
      /\ UNCHANGED <<completed, pilotEvents>>
  BY DEF DeskSafe, DeskTypeOK, OpenEngagement
<1>2. CheckpointsFitEngagement'
  BY DEF DeskSafe, CheckpointsFitEngagement, OpenEngagement
<1> QED
  BY <1>1, <1>2, PilotKeeps DEF DeskSafe, DeskTypeOK

\* Every step of the module Desk.
LEMMA DeskStep ==
  ASSUME ApiTypeOK, DeskSafe, DeskNext
  PROVE  /\ ApiTypeOK' /\ DeskSafe' /\ DecisionsKept
         /\ Turns({"SUBMIT", "RESOLVE", "START"}) /\ UNCHANGED faults
<1> DEFINE names == {"SUBMIT", "RESOLVE", "START"}
           Goal == /\ ApiTypeOK' /\ DeskSafe' /\ DecisionsKept
                   /\ Turns(names) /\ UNCHANGED faults
<1>1. ASSUME NEW h \in Handlers, NEW r \in Requests, Begin(h, "desk", r),
             r.at \in names, UNCHANGED <<faults, deskVars>>
      PROVE  Goal
  BY <1>1, BeginTurns, DeskStays DEF Areas, ApiTypeOK
<1>2. ASSUME NEW h \in Handlers, NEW u \in Users, NEW c \in Cases,
             BeginSubmit(h, u, c)
      PROVE  Goal
  <2>1. [at |-> "SUBMIT", case |-> c] \in Requests
    BY DEF Requests, DeskRequests
  <2> QED
    BY <1>1, <1>2, <2>1 DEF BeginSubmit
<1>3. ASSUME NEW h \in Handlers, NEW u \in Users, NEW c \in Cases,
             NEW v \in Verdict, BeginResolve(h, u, c, v)
      PROVE  Goal
  <2>1. [at |-> "RESOLVE", user |-> u, case |-> c, verdict |-> v] \in Requests
    BY DEF Requests, DeskRequests
  <2> QED
    BY <1>1, <1>3, <2>1 DEF BeginResolve
<1>4. ASSUME NEW h \in Handlers, NEW u \in Users, NEW t \in Instants,
             BeginStart(h, u, t)
      PROVE  Goal
  <2>1. [at |-> "START", instant |-> t] \in Requests
    BY DEF Requests, DeskRequests
  <2> QED
    BY <1>1, <1>4, <2>1 DEF BeginStart
<1>5. ASSUME NEW h \in Handlers,
             Submit(h) \/ Resolve(h) \/ ResolveRefused(h) \/ Start(h)
      PROVE  Goal
  <2>1. ApiTypeOK' /\ Turns(names) /\ UNCHANGED faults
    BY <1>5, EndTurns DEF Submit, Resolve, ResolveRefused, Start, ApiTypeOK
  <2>2. CASE Submit(h)
    BY <2>1, <2>2, SubmitKeeps
  <2>3. CASE Resolve(h)
    BY <2>1, <2>3, ResolveKeeps
  <2>4. CASE ResolveRefused(h)
    BY <2>1, <2>4, DeskStays DEF ResolveRefused
  <2>5. CASE Start(h)
    <3>1. request[h].instant \in Instants
      BY <2>5, RequestFields DEF ApiTypeOK, Start
    <3> QED
      BY <2>1, <2>5, <3>1, Opening DEF Start
  <2> QED
    BY <1>5, <2>2, <2>3, <2>4, <2>5
<1>6. ASSUME NEW u \in Users, NEW k \in EventKeys, RecordEvent(u, k)
      PROVE  Goal
  <2>1. ApiTypeOK' /\ Turns(names) /\ UNCHANGED faults
    BY <1>6, Visiting DEF RecordEvent, Areas, Turns
  <2>2. CheckpointsFitEngagement'
    BY <1>6 DEF RecordEvent, DeskSafe, CheckpointsFitEngagement
  <2>3. /\ UNCHANGED <<reviewVars, engagement, checkpoint, completed>>
        /\ pilotEvents' = pilotEvents \cup {k}
    BY <1>6 DEF RecordEvent
  <2>4. DeskSafe' /\ DecisionsKept
    BY <2>2, <2>3, PilotKeeps DEF DeskSafe, DeskTypeOK
  <2> QED
    BY <2>1, <2>4
<1>7. ASSUME NEW u \in Users, NEW d \in Days, CompleteCheckpoint(u, d)
      PROVE  Goal
  <2>1. ApiTypeOK' /\ Turns(names) /\ UNCHANGED faults
    BY <1>7, Visiting DEF CompleteCheckpoint, Areas, Turns
  <2>2. CheckpointsFitEngagement'
    BY <1>7 DEF CompleteCheckpoint, DeskSafe, CheckpointsFitEngagement
  <2>3. /\ UNCHANGED <<reviewVars, engagement, checkpoint, pilotEvents>>
        /\ completed' = completed \cup {d}
    BY <1>7 DEF CompleteCheckpoint
  <2>4. DeskSafe' /\ DecisionsKept
    BY <2>2, <2>3, PilotKeeps DEF DeskSafe, DeskTypeOK
  <2> QED
    BY <2>1, <2>4
<1> QED
  BY <1>2, <1>3, <1>4, <1>5, <1>6, <1>7 DEF DeskNext

(***************************************************************************)
(* The workspace                                                           *)
(***************************************************************************)

\* The inductive invariant: each part's own.
Safe == ApiTypeOK /\ AccountsSafe /\ ConsentSafe /\ CacheSafe /\ DeskSafe

\* What a step may do.
StepKept == AccountsKept /\ SessionsKept /\ EditedOnConsent /\ DecisionsKept

LEMMA SafeAtFirst == Init => Safe
<1> SUFFICES ASSUME Init PROVE Safe
  OBVIOUS
<1>1. ApiTypeOK
  <2>1. Idle \in Requests
    BY DEF Requests
  <2> QED
    BY <2>1 DEF Init, ApiTypeOK
<1>2. \A h \in Handlers : request[h] = Idle
  BY DEF Init
<1>3. AccountsSafe
  <2> DEFINE IsOwner(u, s) == u \in Staff /\ SessionOf[u] = s
             OwnerOf(s) == CHOOSE u \in Staff : SessionOf[u] = s
             UserOf(e) == CHOOSE u \in Staff : EmailOf[u] = e
  <2>1. Staff \subseteq Users /\ Pilot \in Users
    OBVIOUS
  <2>2. \A s \in Sessions : (\E u \in Staff : SessionOf[u] = s) =>
          OwnerOf(s) \in Staff /\ SessionOf[OwnerOf(s)] = s
    OBVIOUS
  <2>3. \A e \in Emails : (\E u \in Staff : EmailOf[u] = e) =>
          UserOf(e) \in Staff /\ EmailOf[UserOf(e)] = e
    OBVIOUS
  <2>4. AccountsInit
    BY DEF Init
  <2>5. /\ owner \in [Sessions -> Users \cup {None}]
        /\ identity \in [Emails -> Users \cup {None}]
    BY <2>1, <2>2, <2>3, <2>4 DEF AccountsInit
  <2>6. account \in [Users -> Emails \cup {None}]
    BY <2>1, <2>4 DEF AccountsInit
  <2>7. AccountsTypeOK
    BY <2>1, <2>4, <2>5, <2>6 DEF AccountsInit, AccountsTypeOK
  <2>8. \A u \in Staff : identity[EmailOf[u]] = u
    <3> SUFFICES ASSUME NEW u \in Staff PROVE identity[EmailOf[u]] = u
      OBVIOUS
    <3>1. identity[EmailOf[u]] = UserOf(EmailOf[u])
      BY <2>4 DEF AccountsInit
    <3>2. UserOf(EmailOf[u]) = u
      BY <2>3
    <3> QED
      BY <3>1, <3>2
  <2>9. \A u \in Users : IF u \in Staff THEN account[u] = EmailOf[u] ELSE account[u] = None
    BY <2>4 DEF AccountsInit
  <2>10. \A u \in Staff : u # None
    BY <2>1
  <2>11. AccountsAreReachable
    <3>1. \A u \in Users : account[u] # None =>
            /\ u \in Staff
            /\ account[u] = EmailOf[u]
            /\ identity[account[u]] = u
      BY <2>8, <2>9
    <3>2. \A u \in Users : sso[u] = None
      BY <2>4 DEF AccountsInit
    <3> QED
      BY <2>10, <3>1, <3>2 DEF AccountsAreReachable
  <2>12. \A e \in Emails : identity[e] # None => account[identity[e]] = e
    BY <2>1, <2>3, <2>4 DEF AccountsInit
  <2>13. \A s \in ended \cup tokens : owner[s] # None
    <3> SUFFICES ASSUME NEW s \in tokens PROVE owner[s] # None
      BY <2>4 DEF AccountsInit
    <3>1. PICK u \in Staff : SessionOf[u] = s
      BY <2>4 DEF AccountsInit
    <3>2. s \in Sessions /\ owner[s] = OwnerOf(s)
      BY <2>4, <3>1 DEF AccountsInit
    <3>3. OwnerOf(s) \in Staff
      BY <2>2, <3>1, <3>2
    <3> QED
      BY <2>10, <3>2, <3>3
  <2>14. /\ \A u \in Users : account[u] = None => sso[u] = None
         /\ account[Pilot] \in {None, PilotEmail}
    BY <2>1, <2>4 DEF AccountsInit
  <2> QED
    BY <1>2, <2>7, <2>11, <2>12, <2>13, <2>14 DEF AccountsSafe, AccountsInv, Idle
<1>4. ConsentSafe
  <2>1. ConsentTypeOK
    BY DEF Init, ConsentInit, ConsentTypeOK, Versions
  <2>2. ConsentIsEvidenced
    BY DEF Init, ConsentInit, ConsentIsEvidenced
  <2> QED
    BY <1>2, <2>1, <2>2 DEF ConsentSafe, Idle
<1>5. CacheSafe
  <2>1. ContextTypeOK
    BY DEF Init, ContextInit, ContextTypeOK
  <2>2. \A k \in CacheKeys : ~IsStale(k)
    BY DEF Init, ContextInit, IsStale
  <2> QED
    BY <1>2, <2>1, <2>2 DEF CacheSafe, StaleIsExplained, ReadersKnow, Idle
<1>6. DeskSafe
  BY DEF Init, DeskInit, DeskSafe, DeskTypeOK, CheckpointsFitEngagement, Final, Verdict
<1> QED
  BY <1>1, <1>3, <1>4, <1>5, <1>6 DEF Safe

LEMMA SafeSteps == Safe /\ [Next]_vars => Safe' /\ StepKept
<1> SUFFICES ASSUME Safe, [Next]_vars
             PROVE  Safe' /\ StepKept
  OBVIOUS
<1> USE DEF Safe
<1>1. CASE AccountsNext /\ UNCHANGED <<consentVars, contextVars, deskVars>>
  <2>1. Kept
    BY <1>1, AccountsStep
  <2>2. Turns({"CREATE", "LINK", "ENTER", "REFRESH"}) /\ UNCHANGED faults
    BY <1>1, AccountsTurn
  <2>3. \A g \in Handlers :
          /\ request'[g].at \in {"READ", "EDIT"} => request'[g] = request[g]
          /\ request[g].at = "INVALIDATE" => request'[g] = request[g]
    BY <2>2 DEF Turns
  <2>4. ConsentSafe'
    BY <1>1, <2>3, ConsentStays
  <2>5. CacheSafe'
    BY <1>1, <2>2, <2>3, CacheStays
  <2>6. DeskSafe' /\ DecisionsKept
    BY <1>1, DeskStays
  <2>7. EditedOnConsent
    BY <1>1 DEF EditedOnConsent, contextVars
  <2> QED
    BY <2>1, <2>4, <2>5, <2>6, <2>7 DEF Kept, StepKept
<1>2. CASE ConsentNext
             /\ UNCHANGED <<sessionVars, accountVars, contextVars, deskVars>>
  <2>1. ApiTypeOK' /\ ConsentSafe' /\ Turns({"ACCEPT"}) /\ UNCHANGED faults
    BY <1>2, ConsentStep
  <2>2. \A g \in Handlers :
          /\ request'[g].at \in {"LINK", "REFRESH", "READ"} => request'[g] = request[g]
          /\ request[g].at = "INVALIDATE" => request'[g] = request[g]
    BY <2>1 DEF Turns
  <2>3. Kept
    BY <1>2, <2>1, <2>2, TurnsElsewhere
  <2>4. CacheSafe'
    BY <1>2, <2>1, <2>2, CacheStays
  <2>5. DeskSafe' /\ DecisionsKept
    BY <1>2, DeskStays
  <2>6. EditedOnConsent
    BY <1>2 DEF EditedOnConsent, contextVars
  <2> QED
    BY <2>1, <2>3, <2>4, <2>5, <2>6 DEF Kept, StepKept
<1>3. CASE ContextNext
             /\ UNCHANGED <<sessionVars, accountVars, consentVars, deskVars>>
  <2>1. /\ ApiTypeOK' /\ ConsentSafe' /\ CacheSafe' /\ EditedOnConsent
        /\ Turns({"READ", "EDIT", "INVALIDATE"})
    BY <1>3, ContextStep
  <2>2. \A g \in Handlers :
          request'[g].at \in {"LINK", "REFRESH"} => request'[g] = request[g]
    BY <2>1 DEF Turns
  <2>3. Kept
    BY <1>3, <2>1, <2>2, TurnsElsewhere
  <2>4. DeskSafe' /\ DecisionsKept
    BY <1>3, DeskStays
  <2> QED
    BY <2>1, <2>3, <2>4 DEF Kept, StepKept
<1>4. CASE DeskNext
             /\ UNCHANGED <<sessionVars, accountVars, consentVars, contextVars>>
  <2>1. /\ ApiTypeOK' /\ DeskSafe' /\ DecisionsKept
        /\ Turns({"SUBMIT", "RESOLVE", "START"}) /\ UNCHANGED faults
    BY <1>4, DeskStep
  <2>2. \A g \in Handlers :
          /\ request'[g].at \in {"LINK", "REFRESH", "READ", "EDIT"} =>
               request'[g] = request[g]
          /\ request[g].at = "INVALIDATE" => request'[g] = request[g]
    BY <2>1 DEF Turns
  <2>3. Kept
    BY <1>4, <2>1, <2>2, TurnsElsewhere
  <2>4. ConsentSafe'
    BY <1>4, <2>2, ConsentStays
  <2>5. CacheSafe'
    BY <1>4, <2>1, <2>2, CacheStays
  <2>6. EditedOnConsent
    BY <1>4 DEF EditedOnConsent, contextVars
  <2> QED
    BY <2>1, <2>3, <2>4, <2>5, <2>6 DEF Kept, StepKept
<1>5. ASSUME NEW t \in Instants, Provision(t)
      PROVE  Safe' /\ StepKept
  <2>1. Kept
    BY <1>5, ProvisionKeeps DEF Provision
  <2>2. DeskSafe' /\ DecisionsKept
    BY <1>5, Opening DEF Provision
  <2>3. ConsentSafe' /\ CacheSafe'
    BY <1>5, ConsentStays, CacheStays DEF Provision
  <2>4. EditedOnConsent
    BY <1>5 DEF Provision, EditedOnConsent, contextVars
  <2> QED
    BY <2>1, <2>2, <2>3, <2>4 DEF Kept, StepKept
<1>6. ASSUME NEW h \in Handlers, Lose(h)
      PROVE  Safe' /\ StepKept
  <2>1. /\ End(h) /\ faults' \in 0 .. MaxFaults /\ faults' # MaxFaults
        /\ UNCHANGED <<sessionVars, accountVars, consentVars, contextVars, deskVars>>
    BY <1>6 DEF Lose, Crash, ApiTypeOK
  <2>2. Kept
    BY <2>1, EndsElsewhere
  <2>3. \A g \in Handlers :
          request'[g].at \in {"READ", "EDIT"} => request'[g] = request[g]
    BY <2>1, Ending DEF Idle
  <2>4. ConsentSafe' /\ CacheSafe'
    BY <2>1, <2>3, ConsentStays, CacheStays
  <2>5. DeskSafe' /\ DecisionsKept
    BY <2>1, DeskStays
  <2>6. EditedOnConsent
    BY <2>1 DEF EditedOnConsent, contextVars
  <2> QED
    BY <2>2, <2>4, <2>5, <2>6 DEF Kept, StepKept
<1>7. CASE UNCHANGED vars
  <2>1. /\ UNCHANGED <<request, visits, faults, sessionVars, accountVars>>
        /\ UNCHANGED <<consentVars, contextVars, deskVars>>
    BY <1>7 DEF vars, apiVars
  <2>2. ApiTypeOK'
    BY <2>1 DEF ApiTypeOK
  <2>3. Kept
    BY <2>1, <2>2, TurnsElsewhere
  <2>4. ConsentSafe' /\ CacheSafe'
    BY <2>1, ConsentStays, CacheStays
  <2>5. DeskSafe' /\ DecisionsKept
    BY <2>1, DeskStays
  <2>6. EditedOnConsent
    BY <2>1 DEF EditedOnConsent, contextVars
  <2> QED
    BY <2>3, <2>4, <2>5, <2>6 DEF Kept, StepKept
<1> QED
  BY <1>1, <1>2, <1>3, <1>4, <1>5, <1>6, <1>7 DEF Next

LEMMA SafeAlways == Spec => []Safe /\ [][StepKept]_vars
BY SafeAtFirst, SafeSteps, PTL DEF Spec

\* Every handler, row and copy of a workspace keeps its domain.
THEOREM TypeCorrectness == Spec => []TypeOK
<1>1. Safe => TypeOK
  BY DEF Safe, ApiTypeOK, AccountsSafe, ConsentSafe, CacheSafe, DeskSafe, TypeOK
<1> QED
  BY <1>1, SafeAlways, PTL

\* register, callback and provision_pilot, however they interleave, leave no
\* account that its e-mail does not find.
THEOREM Reachability == Spec => []AccountsAreReachable
<1>1. Safe => AccountsAreReachable
  BY DEF Safe, AccountsSafe, AccountsInv
<1> QED
  BY <1>1, SafeAlways, PTL

\* No sign-up, sign-in or provisioning rewrites what another rests on.
THEOREM AccountsLast == Spec => KeepsAccounts
<1>1. [StepKept]_vars =>
        [/\ \A e \in Emails : identity[e] # None => identity'[e] = identity[e]
         /\ \A u \in Users :
              /\ account[u] # None => account'[u] = account[u]
              /\ sso[u] # None => sso'[u] = sso[u]
         /\ password \subseteq password']_vars
  BY DEF StepKept, AccountsKept
<1> QED
  BY <1>1, SafeAlways, PTL DEF KeepsAccounts

\* Once session, token and the refreshes that saw it alive are gone, no login
\* and no refresh brings it back.
THEOREM EndedForGood == Spec => OverStaysOver
<1>1. [StepKept]_vars => [\A s \in Sessions : IsOver(s) => IsOver(s)']_vars
  BY DEF StepKept, SessionsKept
<1> QED
  BY <1>1, SafeAlways, PTL DEF OverStaysOver

\* Retried keys and rollouts included, a user's columns agree with the entry
\* they point to and each entry is audited once.
THEOREM Evidence == Spec => []ConsentIsEvidenced
<1>1. Safe => ConsentIsEvidenced
  BY DEF Safe, ConsentSafe
<1> QED
  BY <1>1, SafeAlways, PTL

\* An edit of the company rests on an entry of the ledger for the release that
\* let it in, whatever was accepted meanwhile.
THEOREM ConsentedEdits == Spec => EditRestsOnConsent
<1>1. [StepKept]_vars =>
        [stored'["profile"] # stored["profile"]
           \/ stored'["objects"] # stored["objects"]
         => \E h \in Handlers, k \in Keys :
              /\ request[h].at = "EDIT"
              /\ ledger[request[h].user][k] = request[h].release]_vars
  BY DEF StepKept, EditedOnConsent
<1> QED
  BY <1>1, SafeAlways, PTL DEF EditRestsOnConsent

\* Without faults a stale copy is about to be deleted or was filled in by a
\* reader whom the edit overtook: the cache-aside protocol has no other gap.
THEOREM Staleness == Spec => []StaleIsExplained
<1>1. Safe => StaleIsExplained
  BY DEF Safe, CacheSafe
<1> QED
  BY <1>1, SafeAlways, PTL

\* Any number of reviewers close a case once, and the audit trail says so.
THEOREM OneDecision == Spec => DecisionIsFinal
<1>1. [StepKept]_vars =>
        [\A c \in Cases :
           /\ case[c] \in Final => UNCHANGED <<case[c], resolver[c]>>
           /\ case'[c] \in Final =>
                /\ resolver'[c] # None
                /\ \A v \in Final :
                     recorded'[c][v] = IF v = case'[c] THEN 1 ELSE 0]_vars
  BY DEF StepKept, DecisionsKept
<1> QED
  BY <1>1, SafeAlways, PTL DEF DecisionIsFinal

\* However often and by whomever the pilot is started, its checkpoints are
\* counted from one instant.
THEOREM OnePilot == Spec => []CheckpointsFitEngagement
<1>1. Safe => CheckpointsFitEngagement
  BY DEF Safe, DeskSafe
<1> QED
  BY <1>1, SafeAlways, PTL
===============================================================================
