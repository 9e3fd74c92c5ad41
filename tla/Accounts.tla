------------------------------- MODULE Accounts -------------------------------
(***************************************************************************)
(* Registration, password and single sign-on, refresh and logout over      *)
(* auth.users, auth.login_identities and auth.sessions.  Whoever signs up  *)
(* gets a workspace of his own; a pilot's user is provisioned by a script. *)
(* The attempt limiter may refuse any attempt and is not modelled further. *)
(***************************************************************************)
EXTENDS WorkspaceApi

CONSTANTS
  Emails,
  Subjects,   \* subjects of identity providers, each of one provider
  Staff,      \* users who are there and signed in from the start
  EmailOf,    \* the e-mail of each of them
  SessionOf,  \* the session of each of them
  Pilot,      \* the user provision_pilot upserts ...
  PilotEmail  \* ... under this e-mail

ASSUME AccountsAssumption ==
  /\ None \notin Emails \cup Subjects \cup Sessions
  /\ Members = Staff \cup {Pilot}
  /\ Pilot \notin Staff
  /\ PilotEmail \in Emails
  /\ EmailOf \in [Staff -> Emails]
  /\ SessionOf \in [Staff -> Sessions]
  /\ \A u, v \in Staff :
       EmailOf[u] = EmailOf[v] \/ SessionOf[u] = SessionOf[v] => u = v

VARIABLES
  account,   \* the e-mail of every user that exists
  password,  \* users with a password_hash
  sso,       \* (sso_provider, sso_subject) of every user
  identity   \* auth.login_identities: the user an e-mail leads to

accountVars == <<account, password, sso, identity>>

AccountRequests ==
  [at : {"CREATE"}, email : Emails, sso : Subjects \cup {None}]
    \cup [at : {"LINK"}, user : Users, sso : Subjects]
    \cup [at : {"ENTER"}, user : Users]
    \cup [at : {"REFRESH"}, session : Sessions]

AccountsTypeOK ==
  /\ owner \in [Sessions -> Users \cup {None}]
  /\ ended \subseteq Sessions
  /\ tokens \subseteq Sessions
  /\ account \in [Users -> Emails \cup {None}]
  /\ password \subseteq Users
  /\ sso \in [Users -> Subjects \cup {None}]
  /\ identity \in [Emails -> Users \cup {None}]

AccountsInit ==
  /\ owner = [s \in Sessions |->
                IF \E u \in Staff : SessionOf[u] = s
                THEN CHOOSE u \in Staff : SessionOf[u] = s ELSE None]
  /\ tokens = {SessionOf[u] : u \in Staff}
  /\ ended = {}
  /\ account = [u \in Users |-> IF u \in Staff THEN EmailOf[u] ELSE None]
  /\ password = Staff
  /\ sso = [u \in Users |-> None]
  /\ identity = [e \in Emails |->
                   IF \E u \in Staff : EmailOf[u] = e
                   THEN CHOOSE u \in Staff : EmailOf[u] = e ELSE None]

\* _issue_session: the INSERT and the commit of whatever came before it, and
\* the answer with an access token.  A fresh identifier is any unused one.
IssueSession(u) ==
  LET fresh == {s \in Sessions : owner[s] = None}
      s == CHOOSE s \in fresh : TRUE
  IN
    /\ fresh # {}
    /\ owner' = [owner EXCEPT ![s] = u]
    /\ tokens' = tokens \cup {s}
    /\ UNCHANGED ended

-------------------------------------------------------------------------------
\* register and callback read the identity first; an e-mail that has one is
\* refused by the former.
BeginRegister(h, e) ==
  /\ identity[e] = None
  /\ Begin(h, "accounts", [at |-> "CREATE", email |-> e, sso |-> None])
  /\ UNCHANGED <<faults, accountVars, sessionVars>>

\* The provider vouched for subject s and e-mail e.  Without an identity a
\* mere sign-in is sent away; a sign-up goes on to an account.
BeginCallback(h, e, s) ==
  /\ IF identity[e] = None
     THEN Begin(h, "accounts", [at |-> "CREATE", email |-> e, sso |-> s])
     ELSE Begin(h, "accounts", [at |-> "LINK", user |-> identity[e], sso |-> s])
  /\ UNCHANGED <<faults, accountVars, sessionVars>>

\* uq of login_identities and users: the second INSERT waits for the first
\* transaction and fails when that commits.
IsTaken(e, s) ==
  \/ identity[e] # None
  \/ s # None /\ \E v \in Users : sso[v] = s

\* Mutant: the identity is inserted ON CONFLICT DO NOTHING.
CreateAnyway(h) ==
  LET r == request[h]
  IN  /\ r.at = "CREATE"
      /\ \E u \in Users \ Members :
           /\ account[u] = None
           /\ account' = [account EXCEPT ![u] = r.email]
           /\ identity' = [identity EXCEPT ![r.email] = IF @ = None THEN u ELSE @]
           /\ password' = IF r.sso = None THEN password \cup {u} ELSE password
           /\ sso' = [sso EXCEPT ![u] = r.sso]
           /\ IssueSession(u)
      /\ End(h)
      /\ UNCHANGED faults

\* Tenant, user, identity and session are committed together.
Create(h) ==
  LET r == request[h]
  IN  /\ r.at = "CREATE"
      /\ ~IsTaken(r.email, r.sso)
      /\ \E u \in Users \ Members :
           /\ account[u] = None
           /\ account' = [account EXCEPT ![u] = r.email]
           /\ identity' = [identity EXCEPT ![r.email] = u]
           /\ password' = IF r.sso = None THEN password \cup {u} ELSE password
           /\ sso' = [sso EXCEPT ![u] = r.sso]
           /\ IssueSession(u)
      /\ End(h)
      /\ UNCHANGED faults

CreateRefused(h) ==
  /\ request[h].at = "CREATE"
  /\ IsTaken(request[h].email, request[h].sso)
  /\ End(h)
  /\ UNCHANGED <<faults, accountVars, sessionVars>>

\* Mutant: the UPDATE has no condition on the link that is there.
MayLinkAnyway(u, s) == \A v \in Users \ {u} : sso[v] # s

\* The WHERE of the UPDATE is evaluated on the row as it is by then.
MayLink(u, s) ==
  /\ sso[u] \in {None, s}
  /\ \A v \in Users \ {u} : sso[v] # s

Link(h) ==
  LET r == request[h]
  IN  /\ r.at = "LINK"
      /\ MayLink(r.user, r.sso)
      /\ sso' = [sso EXCEPT ![r.user] = r.sso]
      /\ IssueSession(r.user)
      /\ End(h)
      /\ UNCHANGED <<faults, account, password, identity>>

LinkRefused(h) ==
  /\ request[h].at = "LINK"
  /\ ~MayLink(request[h].user, request[h].sso)
  /\ End(h)
  /\ UNCHANGED <<faults, accountVars, sessionVars>>

\* By the e-mail's identity, or by the workspace's UUID and the e-mail: in
\* both cases a user who is there and whose password is verified.
BeginLogin(h, u) ==
  /\ account[u] # None
  /\ u \in password
  /\ Begin(h, "accounts", [at |-> "ENTER", user |-> u])
  /\ UNCHANGED <<faults, accountVars, sessionVars>>

Enter(h) ==
  /\ request[h].at = "ENTER"
  /\ IssueSession(request[h].user)
  /\ End(h)
  /\ UNCHANGED <<faults, accountVars>>

\* Mutant: revoked_at and expires_at are not looked at.
BeginRefreshOfEnded(h, s) ==
  /\ owner[s] # None
  /\ Begin(h, "accounts", [at |-> "REFRESH", session |-> s])
  /\ UNCHANGED <<faults, accountVars, sessionVars>>

\* refresh reads the session without a lock and answers from what it read.
BeginRefresh(h, s) ==
  /\ owner[s] # None
  /\ s \notin ended
  /\ Begin(h, "accounts", [at |-> "REFRESH", session |-> s])
  /\ UNCHANGED <<faults, accountVars, sessionVars>>

Refresh(h) ==
  /\ request[h].at = "REFRESH"
  /\ tokens' = tokens \cup {request[h].session}
  /\ End(h)
  /\ UNCHANGED <<faults, accountVars, owner, ended>>

Logout(s) ==
  /\ owner[s] # None
  /\ Spend("accounts")
  /\ ended' = ended \cup {s}
  /\ UNCHANGED <<request, faults, accountVars, owner, tokens>>

\* expires_at of the session, thirty days after it was issued.
SessionLapses(s) ==
  /\ owner[s] # None /\ s \notin ended
  /\ Spend("accounts")
  /\ ended' = ended \cup {s}
  /\ UNCHANGED <<request, faults, accountVars, owner, tokens>>

\* The claim exp of the last access token, fifteen minutes after its issue.
TokenLapses(s) ==
  /\ s \in tokens
  /\ Spend("accounts")
  /\ tokens' = tokens \ {s}
  /\ UNCHANGED <<request, faults, accountVars, owner, ended>>

\* provision_pilot on the tables of this module: the pilot's user is created or
\* given the password of this run, the identity is left to whom it leads.
ProvisionUser ==
  /\ account' = [account EXCEPT ![Pilot] = PilotEmail]
  /\ password' = password \cup {Pilot}
  /\ identity' = [identity EXCEPT ![PilotEmail] =
                    IF @ = None THEN Pilot ELSE @]
  /\ UNCHANGED sso

AccountsNext ==
  \/ \E h \in Handlers :
       \/ \E e \in Emails :
            BeginRegister(h, e) \/ \E s \in Subjects : BeginCallback(h, e, s)
       \/ \E u \in Users : BeginLogin(h, u)
       \/ \E s \in Sessions : BeginRefresh(h, s)
       \/ Create(h) \/ CreateRefused(h) \/ Link(h) \/ LinkRefused(h)
       \/ Enter(h) \/ Refresh(h)
  \/ \E s \in Sessions : Logout(s) \/ SessionLapses(s) \/ TokenLapses(s)
===============================================================================
