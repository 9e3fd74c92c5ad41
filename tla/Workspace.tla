------------------------------- MODULE Workspace -------------------------------
(***************************************************************************)
(* The endpoints of one workspace together: accounts and sessions, consent *)
(* and company context, review cases and the pilot.  They share the        *)
(* handlers of the API, its sessions, and the faults.                      *)
(***************************************************************************)
EXTENDS Accounts, CompanyContext, Desk

vars == <<apiVars, sessionVars, accountVars, consentVars, contextVars, deskVars>>

Requests ==
  {Idle} \cup AccountRequests \cup ConsentRequests \cup ContextRequests
    \cup DeskRequests

\* The variables are within their domains.
TypeOK ==
  /\ request \in [Handlers -> Requests]
  /\ visits \in [Areas -> Nat]
  /\ faults \in 0 .. MaxFaults
  /\ AccountsTypeOK /\ ConsentTypeOK /\ ContextTypeOK /\ DeskTypeOK

Init ==
  /\ request = [h \in Handlers |-> Idle]
  /\ visits \in Allotments
  /\ faults = MaxFaults
  /\ AccountsInit /\ ConsentInit /\ ContextInit /\ DeskInit

-------------------------------------------------------------------------------
\* provision_pilot, a script run for a workspace that may exist by then.
Provision(t) ==
  /\ Spend("desk")
  /\ ProvisionUser
  /\ OpenEngagement(t)
  /\ UNCHANGED <<request, faults, sessionVars, consentVars, contextVars,
                 reviewVars>>

Lose(h) ==
  /\ Crash(h)
  /\ UNCHANGED <<sessionVars, accountVars, consentVars, contextVars, deskVars>>

Next ==
  \/ AccountsNext /\ UNCHANGED <<consentVars, contextVars, deskVars>>
  \/ /\ ConsentNext
     /\ UNCHANGED <<sessionVars, accountVars, contextVars, deskVars>>
  \/ /\ ContextNext
     /\ UNCHANGED <<sessionVars, accountVars, consentVars, deskVars>>
  \/ /\ DeskNext
     /\ UNCHANGED <<sessionVars, accountVars, consentVars, contextVars>>
  \/ \E t \in Instants : Provision(t)
  \/ \E h \in Handlers : Lose(h)

Spec == Init /\ [][Next]_vars

-------------------------------------------------------------------------------
\* Whoever has an account can be found by his e-mail, and who signed up by
\* himself is the one found; a provider's subject leads to one user.
\* (register and the callback check first and insert later, the pilot script
\* inserts on its own.)
AccountsAreReachable ==
  /\ \A u \in Users : account[u] # None => identity[account[u]] # None
  /\ \A u \in Users \ {Pilot} : account[u] # None => identity[account[u]] = u
  /\ \A u, v \in Users : sso[u] # None /\ sso[u] = sso[v] => u = v

\* What leads a sign-in to its user is not rewritten by a later or a racing one:
\* an e-mail leads to the same user, and a user keeps his e-mail and his link,
\* and has a password for good once he has one (whichever: the words are left out).
KeepsAccounts ==
  [][/\ \A e \in Emails : identity[e] # None => identity'[e] = identity[e]
     /\ \A u \in Users :
          /\ account[u] # None => account'[u] = account[u]
          /\ sso[u] # None => sso'[u] = sso[u]
     /\ password \subseteq password']_vars

\* The session was ended, its last access token has expired, and no refresh
\* that saw it alive is still to answer.
IsOver(s) ==
  /\ s \in ended \ tokens
  /\ \A h \in Handlers :
       request[h].at = "REFRESH" => request[h].session # s

\* A logout can be outlived by an access token and by a refresh in flight,
\* but once those are gone the session never gives access again.
OverStaysOver == [][\A s \in Sessions : IsOver(s) => IsOver(s)']_vars

\* The columns a user is judged by are those of the ledger entry they point
\* to, and every entry was recorded in the audit trail exactly once, however
\* often its key was sent.
ConsentIsEvidenced ==
  \A u \in Users :
    /\ IF pointer[u] = None
       THEN accepted[u] = None
       ELSE accepted[u] # None /\ ledger[u][pointer[u]] = accepted[u]
    /\ \A k \in Keys : audited[u][k] = IF ledger[u][k] = None THEN 0 ELSE 1

\* The company's context changes only by the hand of someone with evidence of
\* having accepted the documents of the release that served him.
EditRestsOnConsent ==
  [][stored'["profile"] # stored["profile"]
       \/ stored'["objects"] # stored["objects"]
     => \E h \in Handlers, k \in Keys :
          /\ request[h].at = "EDIT"
          /\ ledger[request[h].user][k] = request[h].release]_vars

\* The copy under k misses an edit.
IsStale(k) ==
  /\ cache[k] # None
  /\ \E p \in PartsOf(k) : cache[k].content[p] # stored[p]

\* While nothing fails, a copy misses an edit only for one of two reasons: the
\* edit is about to delete it, or it was read before the edit and filled in
\* after.
StaleIsExplained ==
  faults = MaxFaults =>
    \A k \in CacheKeys :
      IsStale(k) =>
        \/ cache[k].overtaken
        \/ \E h \in Handlers :
             /\ request[h].at = "INVALIDATE"
             /\ k \in Invalidated(request[h].part)

\* Of any number of reviewers one decides: a closed case keeps its status and
\* its resolver, also when it is submitted again, and the audit trail has one
\* closing verdict, the one that holds.
DecisionIsFinal ==
  [][\A c \in Cases :
       /\ case[c] \in Final => UNCHANGED <<case[c], resolver[c]>>
       /\ case'[c] \in Final =>
            /\ resolver'[c] # None
            /\ \A v \in Final :
                 recorded'[c][v] = IF v = case'[c] THEN 1 ELSE 0]_vars

\* The dates of the checkpoints are counted from the engagement's start,
\* whoever opened it and however often; only an open one counts events.
CheckpointsFitEngagement ==
  /\ \A d \in Days : checkpoint[d] = engagement
  /\ engagement = None => completed = {} /\ pilotEvents = {}
===============================================================================
