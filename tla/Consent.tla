------------------------------- MODULE Consent --------------------------------
(***************************************************************************)
(* The legal acceptance of users: an append-only ledger, the columns of    *)
(* auth.users that say which entry counts, and the gate that reads them.   *)
(* While a release is rolled out, two versions of the documents and of the *)
(* application are served side by side.                                    *)
(***************************************************************************)
EXTENDS WorkspaceApi

CONSTANTS
  Keys,     \* idempotency keys of acceptances
  Releases  \* bound: 1 .. Releases are the releases there will be

ASSUME ConsentAssumption ==
  /\ None \notin Keys \cup 1 .. Releases
  /\ Releases \in Nat \ {0}

VARIABLES
  deployed,  \* releases that answer requests: one, or two during a rollout
  ledger,    \* the release an entry of tenant_compliance_ledger accepts
  accepted,  \* tos_version .. binding_app_version of every user
  pointer,   \* current_compliance_ledger_id, here the entry's key
  audited    \* how often LEGAL_CONSENT_ACCEPTED was recorded for an entry

consentVars == <<deployed, ledger, accepted, pointer, audited>>

Versions == 1 .. Releases

ConsentRequests ==
  [at : {"ACCEPT"}, user : Users, key : Keys, release : Versions]

ConsentTypeOK ==
  /\ deployed \in SUBSET Versions
  /\ ledger \in [Users -> [Keys -> Versions \cup {None}]]
  /\ accepted \in [Users -> Versions \cup {None}]
  /\ pointer \in [Users -> Keys \cup {None}]
  /\ audited \in [Users -> [Keys -> Nat]]

ConsentInit ==
  /\ deployed = {1}
  /\ ledger = [u \in Users |-> [k \in Keys |-> None]]
  /\ accepted = [u \in Users |-> None]
  /\ pointer = [u \in Users |-> None]
  /\ audited = [u \in Users |-> [k \in Keys |-> 0]]

\* Mutant: any acceptance will do.
AcceptanceExists(u, v) == pointer[u] # None

\* What require_current_legal_acceptance asks of the principal.
AcceptanceIsCurrent(u, v) ==
  /\ pointer[u] # None
  /\ accepted[u] = v

\* A release is rolled out: its first instance starts, the last one of its
\* predecessor stops.
StartRollout ==
  \E v \in Versions :
    /\ deployed = {v}
    /\ v + 1 \in Versions
    /\ Spend("context")
    /\ deployed' = {v, v + 1}
    /\ UNCHANGED <<request, faults, ledger, accepted, pointer, audited>>

FinishRollout ==
  \E v \in deployed :
    /\ v + 1 \in deployed
    /\ deployed' = {v + 1}
    /\ UNCHANGED <<apiVars, ledger, accepted, pointer, audited>>

\* The versions supplied have to be those of the instance that answers.
BeginAccept(h, u, k, v) ==
  /\ SignedIn(u)
  /\ v \in deployed
  /\ Begin(h, "context",
           [at |-> "ACCEPT", user |-> u, key |-> k, release |-> v])
  /\ UNCHANGED <<faults, consentVars>>

\* Mutant: a repeated key is not compared with the entry it made.
AcceptAnyway(h) ==
  LET r == request[h]
  IN  /\ r.at = "ACCEPT"
      /\ ledger' = [ledger EXCEPT ![r.user][r.key] =
                      IF @ = None THEN r.release ELSE @]
      /\ audited' = IF ledger[r.user][r.key] = None
                    THEN [audited EXCEPT ![r.user][r.key] = @ + 1]
                    ELSE audited
      /\ accepted' = [accepted EXCEPT ![r.user] = r.release]
      /\ pointer' = [pointer EXCEPT ![r.user] = r.key]
      /\ End(h)
      /\ UNCHANGED <<faults, deployed>>

\* The entry is new, or it is there and accepts the same versions: the
\* columns point to it in either case, and only a new one is audited.
Accept(h) ==
  LET r == request[h]
  IN  /\ r.at = "ACCEPT"
      /\ ledger[r.user][r.key] \in {None, r.release}
      /\ ledger' = [ledger EXCEPT ![r.user][r.key] = r.release]
      /\ audited' = IF ledger[r.user][r.key] = None
                    THEN [audited EXCEPT ![r.user][r.key] = @ + 1]
                    ELSE audited
      /\ accepted' = [accepted EXCEPT ![r.user] = r.release]
      /\ pointer' = [pointer EXCEPT ![r.user] = r.key]
      /\ End(h)
      /\ UNCHANGED <<faults, deployed>>

\* LEGAL_CONSENT_IDEMPOTENCY_CONFLICT
AcceptRefused(h) ==
  LET r == request[h]
  IN  /\ r.at = "ACCEPT"
      /\ ledger[r.user][r.key] \notin {None, r.release}
      /\ End(h)
      /\ UNCHANGED <<faults, consentVars>>

ConsentNext ==
  \/ StartRollout \/ FinishRollout
  \/ \E h \in Handlers :
       \/ \E u \in Users, k \in Keys, v \in Versions : BeginAccept(h, u, k, v)
       \/ Accept(h) \/ AcceptRefused(h)
===============================================================================
