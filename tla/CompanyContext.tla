---------------------------- MODULE CompanyContext ----------------------------
(***************************************************************************)
(* What a company and one of its readers told the platform: the profile    *)
(* and the objects of the company, the lens and the focus areas of the     *)
(* reader, and the copies of them in Redis.  Reads look aside: they fill   *)
(* the cache from the tables.  Edits commit and then delete the copies.    *)
(***************************************************************************)
EXTENDS Consent

CONSTANTS Admins, Reader

ASSUME ContextAssumption == Admins \subseteq Members /\ Reader \in Members

Parts == {"profile", "objects", "lens", "focus"}
CacheKeys == {"company", "lens", "focus"}

\* The tables a cache key is read from, in the order of the SELECTs.
PartsOf(k) == IF k = "company" THEN {"profile", "objects"} ELSE {k}

\* Mutant: the focus areas are forgotten when the user's copies are deleted.
InvalidatedLens(p) ==
  IF p \in {"profile", "objects"} THEN {"company"} ELSE {"lens"}

\* invalidate_company and invalidate_user
Invalidated(p) ==
  IF p \in {"profile", "objects"} THEN {"company"} ELSE {"lens", "focus"}

VARIABLES
  stored,  \* how many edits of a part are committed: names its content
  cache    \* the copy under a key, or None

contextVars == <<stored, cache>>

\* A copy may lack what was committed after its SELECTs; "overtaken", kept for
\* the properties only, says that this happened while its reader was at work.
Copies == [content : [Parts -> Nat \cup {None}], overtaken : BOOLEAN]

ContextRequests ==
  [at : {"READ"}, key : CacheKeys, copy : Copies]
    \cup [at : {"EDIT"}, user : Users, part : Parts, release : Versions]
    \cup [at : {"INVALIDATE"}, part : Parts]

ContextTypeOK ==
  /\ stored \in [Parts -> Nat]
  /\ cache \in [CacheKeys -> Copies \cup {None}]

ContextInit ==
  /\ stored = [p \in Parts |-> 0]
  /\ cache = [k \in CacheKeys |-> None]

\* Who may ask for a key: any member for the company's, the reader for his own.
MayRead(u, k) == k = "company" \/ u = Reader

\* A hit answers and changes nothing.  A miss, or a cache_get that fails and
\* is swallowed, goes to the tables.
BeginRead(h, u, k) ==
  /\ AtWork(u) /\ MayRead(u, k)
  /\ Begin(h, "context",
           [at |-> "READ", key |-> k,
            copy |-> [content |-> [p \in Parts |-> None], overtaken |-> FALSE]])
  /\ \/ cache[k] = None /\ UNCHANGED faults
     \/ cache[k] # None /\ faults > 0 /\ faults' = faults - 1
  /\ UNCHANGED contextVars

\* One SELECT; each sees what is committed by then.
ReadPart(h, p) ==
  LET r == request[h]
  IN  /\ r.at = "READ"
      /\ p \in PartsOf(r.key)
      /\ r.copy.content[p] = None
      /\ p = "objects" => r.copy.content["profile"] # None
      /\ Continue(h, [r EXCEPT !.copy.content[p] = stored[p]])
      /\ UNCHANGED <<faults, contextVars>>

IsComplete(r) == \A p \in PartsOf(r.key) : r.copy.content[p] # None

\* A reader without a lens is told so, and that is not cached.
ReadNothing(h) ==
  LET r == request[h]
  IN  /\ r.at = "READ"
      /\ r.key = "lens" /\ r.copy.content["lens"] = 0
      /\ End(h)
      /\ UNCHANGED <<faults, contextVars>>

\* Mutant: what is cached is not the answer but all the handler holds.
StoreRequest(h) ==
  LET r == request[h]
  IN  /\ r.at = "READ"
      /\ IsComplete(r)
      /\ ~(r.key = "lens" /\ r.copy.content["lens"] = 0)
      /\ cache' = [cache EXCEPT ![r.key] = r]
      /\ End(h)
      /\ UNCHANGED <<faults, stored>>

StoreCopy(h) ==
  LET r == request[h]
  IN  /\ r.at = "READ"
      /\ IsComplete(r)
      /\ ~(r.key = "lens" /\ r.copy.content["lens"] = 0)
      /\ cache' = [cache EXCEPT ![r.key] = r.copy]
      /\ End(h)
      /\ UNCHANGED <<faults, stored>>

\* The company's parts ask for the permission and for current consent, both
\* of the principal the request began with.
MayEdit(u, p, v) ==
  IF p \in {"profile", "objects"}
  THEN u \in Admins /\ AcceptanceIsCurrent(u, v)
  ELSE u = Reader

BeginEdit(h, u, p, v) ==
  /\ AtWork(u)
  /\ v \in deployed
  /\ MayEdit(u, p, v)
  /\ Begin(h, "context",
           [at |-> "EDIT", user |-> u, part |-> p, release |-> v])
  /\ UNCHANGED <<faults, contextVars>>

\* Every reader that has selected this part is overtaken by the commit.
Overtake(req, p) ==
  [g \in Handlers |->
     IF req[g].at = "READ" /\ req[g].copy.content[p] # None
     THEN [req[g] EXCEPT !.copy.overtaken = TRUE] ELSE req[g]]

CommitEdit(h) ==
  LET p == request[h].part
  IN  /\ request[h].at = "EDIT"
      /\ stored' = [stored EXCEPT ![p] = @ + 1]
      /\ request' = Overtake([request EXCEPT ![h] =
                                [at |-> "INVALIDATE", part |-> p]], p)
      /\ UNCHANGED <<visits, faults, cache>>

Invalidate(h) ==
  /\ request[h].at = "INVALIDATE"
  /\ cache' = [k \in CacheKeys |->
                 IF k \in Invalidated(request[h].part) THEN None ELSE cache[k]]
  /\ End(h)
  /\ UNCHANGED <<faults, stored>>

\* CONTEXT_CACHE_TTL_SECONDS have passed.
CopyLapses(k) ==
  /\ cache[k] # None
  /\ cache' = [cache EXCEPT ![k] = None]
  /\ UNCHANGED <<apiVars, stored>>

ContextNext ==
  \/ \E h \in Handlers :
       \/ \E u \in Users, k \in CacheKeys : BeginRead(h, u, k)
       \/ \E u \in Users, p \in Parts, v \in Versions : BeginEdit(h, u, p, v)
       \/ \E p \in Parts : ReadPart(h, p)
       \/ ReadNothing(h) \/ StoreCopy(h) \/ CommitEdit(h) \/ Invalidate(h)
  \/ \E k \in CacheKeys : CopyLapses(k)
===============================================================================
