--------------------------- MODULE MCDecisionBriefs ---------------------------
EXTENDS DecisionBriefs

CONSTANTS o1, o2

\* The first tenant has all the users.
StaffOfFirst == [t \in Tenants |-> IF t = 1 THEN Users ELSE {}]

\* No role owns a decision: two company briefs go to the same two users.
Unowned == [b \in Briefs |-> {}]

\* The first output is public, another the second tenant's own.
FirstIsPublic == [o \in Outputs |-> IF o = o1 THEN NoEvent ELSE 2]

(***************************************************************************)
(* The assessment of tests/unit/test_decision_engine.py and the priorities *)
(* of its two readers.                                                     *)
(***************************************************************************)
Engine == INSTANCE DecisionEngine WITH
  Ids <- {1}, Types <- {"DEPENDENCY", "MARKET"}, Domains <- {"INFRASTRUCTURE"},
  Events <- {"SERVICE_OUTAGE"}, Versions <- {"2026.08-v1"}

CloudRail ==
  [id |-> 1, type |-> "DEPENDENCY", entity |-> TRUE, region |-> FALSE,
   named |-> TRUE]

Response ==
  [id |-> 1, domain |-> "INFRASTRUCTURE", events |-> {"SERVICE_OUTAGE"},
   requires |-> {"DEPENDENCY"}, anyOf |-> {}, decision |-> TRUE,
   version |-> "2026.08-v1"]

Outage ==
  [domain |-> "INFRASTRUCTURE", event |-> "SERVICE_OUTAGE", urgency |-> 800,
   market |-> TRUE, strategy |-> FALSE, context |-> {CloudRail},
   rules |-> {Response}]

ASSUME AssessmentExamples ==
  /\ Engine!CanAssess(Outage)
  /\ ~Engine!CanAssess([Outage EXCEPT !.rules = {}])
  /\ Engine!Relevance(Outage) = 700
  /\ Engine!Relevance([Outage EXCEPT !.rules = {}]) = 687
  /\ Engine!RelevanceBand(700) = "HIGH"
  /\ Engine!PersonalPriority(700,
       [owner |-> TRUE, domain |-> TRUE, responsibility |-> TRUE, focus |-> 1000])
       = 835
  /\ Engine!PersonalPriority(700,
       [owner |-> FALSE, domain |-> FALSE, responsibility |-> FALSE, focus |-> 0])
       = 385
=============================================================================
