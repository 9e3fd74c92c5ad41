-------------------------------- MODULE Scoring --------------------------------
(***************************************************************************)
(* The arithmetic of run_scoring: how sure the platform is of a signal and *)
(* how urgent it is for everybody.  Components are decimals from zero to   *)
(* one, counted in millionths (a mean of resolution confidences has more   *)
(* digits, cut here); scores are rounded to thousandths.                   *)
(***************************************************************************)
EXTENDS Integers

Unit == 1000000
Components == {x \in Nat : x <= Unit}
Scores == {x \in Nat : x <= 1000}

\* A score is used as a component of the next.
AsComponent(score) == 1000 * score

\* ROUND_HALF_UP of a weighted sum, the weights in hundredths.
Quantized(sum) == (sum + 50000) \div 100000

Confidence(reliability, corroboration, recency, resolution, classification) ==
  Quantized(35 * reliability + 25 * corroboration + 15 * recency
              + 15 * resolution + 10 * classification)

ConfidenceBand(score) ==
  IF score >= 850 THEN "HIGH_CONFIDENCE"
  ELSE IF score >= 650 THEN "MODERATE_CONFIDENCE"
  ELSE IF score >= 400 THEN "LOW_CONFIDENCE"
  ELSE "UNVERIFIED"

Urgency(base, confidence, corroboration, deadline, incident) ==
  Quantized(50 * base + 15 * confidence + 10 * corroboration
              + 15 * deadline + 10 * incident)

UrgencyBand(score) ==
  IF score >= 850 THEN "CRITICAL"
  ELSE IF score >= 700 THEN "HIGH"
  ELSE IF score >= 450 THEN "MODERATE"
  ELSE "LOW"

Corroboration(sources) ==
  IF sources = 1 THEN 0 ELSE IF sources = 2 THEN Unit \div 2 ELSE Unit

Hours(n) == 3600 * n

\* Of an age in seconds.
Recency(age) ==
  IF age <= Hours(24) THEN Unit
  ELSE IF age <= Hours(72) THEN 3 * (Unit \div 4)
  ELSE IF age <= Hours(168) THEN Unit \div 2
  ELSE IF age <= Hours(720) THEN Unit \div 4
  ELSE 0

ActiveEvents ==
  {"ACTIVE_OUTAGE", "PAYMENT_RAIL_OUTAGE", "SWITCH_OUTAGE",
   "CARD_NETWORK_INCIDENT", "CLOUD_INCIDENT", "IDENTITY_INFRA_INCIDENT",
   "FRAUD_SPIKE", "ACCOUNT_TAKEOVER_SPIKE", "CYBERSECURITY_INCIDENT",
   "DATA_BREACH"}

ConfirmedFlags ==
  {"ACTIVE_INCIDENT", "INCIDENT_CONFIRMED", "CRITICAL_RISK_VALIDATED"}

IncidentOrRisk(event, flags) ==
  IF event \in ActiveEvents \/ flags \cap ConfirmedFlags # {} THEN Unit ELSE 0

\* What _load_classified_signal selects.
Signals ==
  [reliability : Components, classification : Components,
   resolution : Components, base : Components, sources : Nat \ {0},
   observed : Nat, event : STRING, flags : SUBSET STRING]

\* A date of publication after the clock raises ValueError: the delivery fails.
CanScore(s, now) == s.observed <= now

ConfidenceOf(s, now) ==
  Confidence(s.reliability, Corroboration(s.sources),
             Recency(now - s.observed), s.resolution, s.classification)

UrgencyOf(s, now) ==
  Urgency(s.base, AsComponent(ConfidenceOf(s, now)), Corroboration(s.sources),
          0, IncidentOrRisk(s.event, s.flags))

\* A signal as the repository writes it: the seeded taxonomy has these base
\* urgencies, no worker sets a flag of ConfirmedFlags, and the column
\* corroboration_count keeps its default.
AsWritten(s) ==
  /\ s.base <= 980000
  /\ s.event \in ActiveEvents => s.base <= 960000
  /\ s.flags \cap ConfirmedFlags = {}
  /\ s.sources = 1
================================================================================
