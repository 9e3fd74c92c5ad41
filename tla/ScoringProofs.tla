----------------------------- MODULE ScoringProofs -----------------------------
(***************************************************************************)
(* What the scores can be, whatever the signal.                            *)
(***************************************************************************)
EXTENDS Scoring, TLAPS

Sums == {x \in Nat : x <= 100 * Unit}

\* Rounding is to the nearest thousandth, halves upward.
LEMMA Nearest ==
  ASSUME NEW x \in Nat
  PROVE  /\ Quantized(x) \in Nat
         /\ 100000 * Quantized(x) <= x + 50000
         /\ x + 50000 < 100000 * (Quantized(x) + 1)
BY SMT DEF Quantized

LEMMA ConfidenceSum ==
  ASSUME NEW a \in Components, NEW b \in Components, NEW c \in Components,
         NEW d \in Components, NEW e \in Components
  PROVE  35 * a + 25 * b + 15 * c + 15 * d + 10 * e \in Sums
BY SMT DEF Components, Unit, Sums

LEMMA UrgencySum ==
  ASSUME NEW a \in Components, NEW b \in Components, NEW c \in Components,
         NEW d \in Components, NEW e \in Components
  PROVE  50 * a + 15 * b + 10 * c + 15 * d + 10 * e \in Sums
BY SMT DEF Components, Unit, Sums

LEMMA Inputs ==
  ASSUME NEW s \in Signals, NEW now \in Nat, CanScore(s, now)
  PROVE  /\ s.reliability \in Components /\ s.classification \in Components
         /\ s.resolution \in Components /\ s.base \in Components
         /\ Corroboration(s.sources) \in Components
         /\ Recency(now - s.observed) \in Components
         /\ IncidentOrRisk(s.event, s.flags) \in Components
         /\ 0 \in Components
BY SMT DEF Signals, CanScore, Corroboration, Recency, Hours, IncidentOrRisk,
       Components, Unit

LEMMA Fits ==
  ASSUME NEW x \in Sums
  PROVE  Quantized(x) \in Scores
BY SMT DEF Quantized, Scores, Sums, Unit

\* The scores are decimals between zero and one, so that the confidence passes
\* _validate_components when it is used for the urgency, and both fit their
\* columns' checks.
THEOREM ScoresFit ==
  ASSUME NEW s \in Signals, NEW now \in Nat, CanScore(s, now)
  PROVE  ConfidenceOf(s, now) \in Scores /\ UrgencyOf(s, now) \in Scores
<1>1. ConfidenceOf(s, now) \in Scores
  BY SMT, Inputs, ConfidenceSum, Fits DEF ConfidenceOf, Confidence
<1>2. AsComponent(ConfidenceOf(s, now)) \in Components
  BY SMT, <1>1 DEF AsComponent, Scores, Components, Unit
<1>3. UrgencyOf(s, now) \in Scores
  BY SMT, <1>2, Inputs, UrgencySum, Fits DEF UrgencyOf, Urgency
<1> QED
  BY <1>1, <1>3

\* t is at least as good as s in all that is scored.
IsNoWeaker(t, s) ==
  /\ s.reliability <= t.reliability /\ s.classification <= t.classification
  /\ s.resolution <= t.resolution /\ s.base <= t.base
  /\ s.sources <= t.sources /\ s.observed <= t.observed
  /\ IncidentOrRisk(s.event, s.flags) <= IncidentOrRisk(t.event, t.flags)

LEMMA Monotone ==
  ASSUME NEW x \in Nat, NEW y \in Nat, x <= y
  PROVE  Quantized(x) <= Quantized(y)
BY SMT DEF Quantized

LEMMA BetterInputs ==
  ASSUME NEW s \in Signals, NEW t \in Signals, IsNoWeaker(t, s),
         NEW early \in Nat, NEW late \in Nat, early <= late,
         CanScore(s, early), CanScore(t, early)
  PROVE  /\ Corroboration(s.sources) <= Corroboration(t.sources)
         /\ Recency(late - s.observed) <= Recency(early - t.observed)
<1>1. Corroboration(s.sources) <= Corroboration(t.sources)
  BY SMT DEF IsNoWeaker, Signals, Corroboration, Unit
<1>2. early - t.observed <= late - s.observed
  BY SMT DEF IsNoWeaker, Signals
<1>3. Recency(late - s.observed) <= Recency(early - t.observed)
  BY SMT, <1>2 DEF Signals, Recency, Hours, Unit
<1> QED
  BY <1>1, <1>3

LEMMA BetterSums ==
  ASSUME NEW a \in Components, NEW b \in Components, NEW c \in Components,
         NEW d \in Components, NEW e \in Components,
         NEW f \in Components, NEW g \in Components, NEW h \in Components,
         NEW i \in Components, NEW j \in Components,
         a <= f, b <= g, c <= h, d <= i, e <= j
  PROVE  /\ Confidence(a, b, c, d, e) <= Confidence(f, g, h, i, j)
         /\ Urgency(a, b, c, d, e) <= Urgency(f, g, h, i, j)
<1>1. /\ 35 * a + 25 * b + 15 * c + 15 * d + 10 * e
           <= 35 * f + 25 * g + 15 * h + 15 * i + 10 * j
      /\ 50 * a + 15 * b + 10 * c + 15 * d + 10 * e
           <= 50 * f + 15 * g + 10 * h + 15 * i + 10 * j
  BY SMT DEF Components, Unit
<1>2. /\ 35 * a + 25 * b + 15 * c + 15 * d + 10 * e \in Nat
      /\ 35 * f + 25 * g + 15 * h + 15 * i + 10 * j \in Nat
      /\ 50 * a + 15 * b + 10 * c + 15 * d + 10 * e \in Nat
      /\ 50 * f + 15 * g + 10 * h + 15 * i + 10 * j \in Nat
  BY SMT DEF Components
<1>3. Confidence(a, b, c, d, e) <= Confidence(f, g, h, i, j)
  BY ONLY SMT, <1>1, <1>2, Monotone DEF Confidence
<1>4. Urgency(a, b, c, d, e) <= Urgency(f, g, h, i, j)
  BY ONLY SMT, <1>1, <1>2, Monotone DEF Urgency
<1> QED
  BY <1>3, <1>4

\* A better signal is never scored lower, and no signal is scored higher for
\* being scored late: rounding, steps of age and the confidence inside the
\* urgency turn nothing round.  A repeated scoring may lower a score only.
THEOREM BetterIsNeverLower ==
  ASSUME NEW s \in Signals, NEW t \in Signals, IsNoWeaker(t, s),
         NEW early \in Nat, NEW late \in Nat, early <= late,
         CanScore(s, early), CanScore(t, early)
  PROVE  /\ ConfidenceOf(s, late) <= ConfidenceOf(t, early)
         /\ UrgencyOf(s, late) <= UrgencyOf(t, early)
<1>1. CanScore(s, late)
  BY SMT DEF CanScore, Signals
<1>2. ConfidenceOf(s, late) <= ConfidenceOf(t, early)
  <2>1. /\ s.reliability <= t.reliability
        /\ s.classification <= t.classification
        /\ s.resolution <= t.resolution
    BY DEF IsNoWeaker
  <2>2. /\ s.reliability \in Components /\ t.reliability \in Components
        /\ s.classification \in Components /\ t.classification \in Components
        /\ s.resolution \in Components /\ t.resolution \in Components
        /\ Corroboration(s.sources) \in Components
        /\ Corroboration(t.sources) \in Components
        /\ Recency(late - s.observed) \in Components
        /\ Recency(early - t.observed) \in Components
    BY <1>1, Inputs
  <2>3. /\ Corroboration(s.sources) <= Corroboration(t.sources)
        /\ Recency(late - s.observed) <= Recency(early - t.observed)
    BY BetterInputs
  <2> QED
    BY ONLY <2>1, <2>2, <2>3, BetterSums DEF ConfidenceOf
<1>3. /\ AsComponent(ConfidenceOf(s, late)) \in Components
      /\ AsComponent(ConfidenceOf(t, early)) \in Components
      /\ AsComponent(ConfidenceOf(s, late))
           <= AsComponent(ConfidenceOf(t, early))
  BY SMT, <1>1, <1>2, ScoresFit DEF AsComponent, Scores, Components, Unit
<1>4. UrgencyOf(s, late) <= UrgencyOf(t, early)
  <2>1. /\ s.base <= t.base
        /\ IncidentOrRisk(s.event, s.flags) <= IncidentOrRisk(t.event, t.flags)
        /\ 0 <= 0
    BY SMT DEF IsNoWeaker
  <2>2. /\ s.base \in Components /\ t.base \in Components
        /\ Corroboration(s.sources) \in Components
        /\ Corroboration(t.sources) \in Components
        /\ IncidentOrRisk(s.event, s.flags) \in Components
        /\ IncidentOrRisk(t.event, t.flags) \in Components
        /\ 0 \in Components
    BY Inputs
  <2>3. Corroboration(s.sources) <= Corroboration(t.sources)
    BY BetterInputs
  <2> QED
    BY ONLY <1>3, <2>1, <2>2, <2>3, BetterSums DEF UrgencyOf
<1> QED
  BY <1>2, <1>4

LEMMA OneSourceSum ==
  ASSUME NEW a \in Components, NEW c \in Components,
         NEW d \in Components, NEW e \in Components
  PROVE  Confidence(a, 0, c, d, e) <= 750
<1>1. /\ 35 * a + 25 * 0 + 15 * c + 15 * d + 10 * e \in Nat
      /\ 35 * a + 25 * 0 + 15 * c + 15 * d + 10 * e <= 75000000
  BY SMT DEF Components, Unit
<1> QED
  BY ONLY SMT, <1>1 DEF Confidence, Quantized

\* High confidence takes a second independent source, however reliable, fresh
\* and well classified the first one is.
THEOREM HighTakesTwo ==
  ASSUME NEW s \in Signals, NEW now \in Nat, CanScore(s, now),
         ConfidenceBand(ConfidenceOf(s, now)) = "HIGH_CONFIDENCE"
  PROVE  s.sources >= 2
<1>1. SUFFICES ASSUME s.sources = 1
               PROVE  FALSE
  BY SMT DEF Signals
<1>2. ConfidenceOf(s, now) >= 850
  BY SMT, ScoresFit DEF ConfidenceBand, Scores
<1>3. Corroboration(s.sources) = 0
  BY SMT, <1>1 DEF Corroboration
<1>4. ConfidenceOf(s, now) <= 750
  <2>1. /\ s.reliability \in Components /\ s.classification \in Components
        /\ s.resolution \in Components
        /\ Recency(now - s.observed) \in Components
    BY Inputs
  <2> QED
    BY ONLY <1>3, <2>1, OneSourceSum DEF ConfidenceOf
<1> QED
  BY SMT, <1>2, <1>4, ScoresFit DEF Scores

LEMMA SeededUrgency ==
  ASSUME NEW base \in Components, NEW confidence \in Components,
         NEW incident \in {0, Unit},
         confidence <= 750000, base <= 980000,
         incident = Unit => base <= 960000
  PROVE  Urgency(base, confidence, 0, 0, incident) < 700
<1>1. /\ 50 * base + 15 * confidence + 10 * 0 + 15 * 0 + 10 * incident \in Nat
      /\ 50 * base + 15 * confidence + 10 * 0 + 15 * 0 + 10 * incident
           <= 69250000
  BY SMT DEF Components, Unit
<1> QED
  BY ONLY SMT, <1>1 DEF Urgency, Quantized

\* With the seeded taxonomy and the count of sources that nothing raises, the
\* upper bands are out of reach: no signal is of high confidence, and none is
\* of high or critical urgency, an outage of a payment rail included.
THEOREM UpperBandsUnreached ==
  ASSUME NEW s \in Signals, NEW now \in Nat, CanScore(s, now), AsWritten(s)
  PROVE  /\ ConfidenceBand(ConfidenceOf(s, now)) # "HIGH_CONFIDENCE"
         /\ UrgencyBand(UrgencyOf(s, now)) \notin {"HIGH", "CRITICAL"}
<1>1. Corroboration(s.sources) = 0
  BY SMT DEF AsWritten, Corroboration
<1>2. ConfidenceBand(ConfidenceOf(s, now)) # "HIGH_CONFIDENCE"
  BY SMT, HighTakesTwo DEF AsWritten
<1>3. ConfidenceOf(s, now) <= 750
  <2>1. /\ s.reliability \in Components /\ s.classification \in Components
        /\ s.resolution \in Components
        /\ Recency(now - s.observed) \in Components
    BY Inputs
  <2> QED
    BY ONLY <1>1, <2>1, OneSourceSum DEF ConfidenceOf
<1>4. /\ AsComponent(ConfidenceOf(s, now)) \in Components
      /\ AsComponent(ConfidenceOf(s, now)) <= 750000
  BY SMT, <1>3, ScoresFit DEF AsComponent, Scores, Components, Unit
<1>5. /\ s.base \in Components /\ s.base <= 980000
      /\ IncidentOrRisk(s.event, s.flags) \in {0, Unit}
      /\ IncidentOrRisk(s.event, s.flags) = Unit => s.base <= 960000
  <2>1. s.base \in Components
    BY Inputs
  <2>2. IncidentOrRisk(s.event, s.flags) = Unit => s.event \in ActiveEvents
    BY SMT DEF IncidentOrRisk, AsWritten, Unit
  <2> QED
    BY SMT, <2>1, <2>2 DEF IncidentOrRisk, AsWritten
<1>6. UrgencyOf(s, now) < 700
  BY ONLY <1>1, <1>4, <1>5, SeededUrgency DEF UrgencyOf
<1>7. UrgencyBand(UrgencyOf(s, now)) \notin {"HIGH", "CRITICAL"}
  BY SMT, <1>6, ScoresFit DEF UrgencyBand, Scores
<1> QED
  BY <1>2, <1>7
================================================================================
