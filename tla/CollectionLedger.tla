---------------------------- MODULE CollectionLedger ----------------------------
(***************************************************************************)
(* What ingestion promises, whatever fails: five ledgers that only grow,   *)
(* each entry backed by the ledger before it.  A slot is dispatched after  *)
(* it is recorded; evidence is archived for a dispatched slot only,        *)
(* persisted after it is archived and announced after it is persisted.     *)
(***************************************************************************)
CONSTANTS Slot, Content

VARIABLES recorded, dispatched, archived, persisted, announced

ledger == <<recorded, dispatched, archived, persisted, announced>>

Evidence == Slot \X Content

Init ==
  /\ recorded = {}
  /\ dispatched = {}
  /\ archived = {}
  /\ persisted = {}
  /\ announced = {}

Record(k) ==
  /\ recorded' = recorded \cup {k}
  /\ UNCHANGED <<dispatched, archived, persisted, announced>>

Dispatch(k) ==
  /\ k \in recorded
  /\ dispatched' = dispatched \cup {k}
  /\ UNCHANGED <<recorded, archived, persisted, announced>>

Archive(e) ==
  /\ e[1] \in dispatched
  /\ archived' = archived \cup {e}
  /\ UNCHANGED <<recorded, dispatched, persisted, announced>>

Persist(e) ==
  /\ e \in archived
  /\ persisted' = persisted \cup {e}
  /\ UNCHANGED <<recorded, dispatched, archived, announced>>

Announce(e) ==
  /\ e \in persisted
  /\ announced' = announced \cup {e}
  /\ UNCHANGED <<recorded, dispatched, archived, persisted>>

Next ==
  \/ \E k \in Slot : Record(k) \/ Dispatch(k)
  \/ \E e \in Evidence : Archive(e) \/ Persist(e) \/ Announce(e)

Spec == Init /\ [][Next]_ledger
=============================================================================
