-------------------------------- MODULE Briefing --------------------------------
(***************************************************************************)
(* What decision briefs promise: a brief is announced once it is stored    *)
(* and reaches its readers once it is announced, each in the alerts and in *)
(* a digest at once; and nothing stored, announced or delivered is undone. *)
(***************************************************************************)
CONSTANTS Brief, Reader, Addressees(_)

VARIABLES
  stored,  \* briefs in the database
  ready,   \* briefs announced
  inbox,   \* alerts: pairs of a brief and a reader
  digest   \* what some digest of a reader lists: such pairs

briefingVars == <<stored, ready, inbox, digest>>

BriefingInit ==
  stored = {} /\ ready = {} /\ inbox = {} /\ digest = {}

\* One transaction stores the briefs of one company.
Store ==
  /\ stored \subseteq stored'
  /\ stored' \subseteq Brief
  /\ UNCHANGED <<ready, inbox, digest>>

Tell(b) ==
  /\ b \in stored
  /\ ready' = ready \cup {b}
  /\ UNCHANGED <<stored, inbox, digest>>

Hand(b, readers) ==
  /\ b \in ready
  /\ inbox' = inbox \cup ({b} \X readers)
  /\ digest' = digest \cup ({b} \X readers)
  /\ UNCHANGED <<stored, ready>>

BriefingNext ==
  \/ Store
  \/ \E b \in Brief : Tell(b) \/ \E readers \in SUBSET Addressees(b) : Hand(b, readers)

BriefingSpec == BriefingInit /\ [][BriefingNext]_briefingVars
=============================================================================
