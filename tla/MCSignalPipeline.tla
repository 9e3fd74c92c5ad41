--------------------------- MODULE MCSignalPipeline ---------------------------
EXTENDS SignalPipeline, TLC

CONSTANTS d1, d2

\* What the first document comes to may change between deliveries.
FirstChanges ==
  [d \in Docs |-> IF d = d1 THEN {"CLEAR", "DOUBTFUL", "UNMATCHED"}
                            ELSE {"UNMATCHED"}]

Symmetry == Permutations(Workers)

(***************************************************************************)
(* The examples of tests/unit/test_confidence_urgency.py.                  *)
(***************************************************************************)
Scores == INSTANCE Scoring

Tenths(n) == n * 100000

ASSUME ScoringExamples ==
  /\ Scores!Confidence(Tenths(8), Tenths(6), Tenths(10), Tenths(7), Tenths(9)) = 775
  /\ Scores!Confidence(Tenths(7), Tenths(4), Tenths(5), Tenths(3), Tenths(6)) = 525
  /\ Scores!Urgency(Tenths(8), Tenths(7), Tenths(5), Tenths(2), Tenths(10)) = 685
  /\ Scores!Urgency(Tenths(6), Tenths(8), Tenths(10), Tenths(10), Tenths(5)) = 720
  /\ \A score \in {399, 400, 449, 450, 649, 650, 699, 700, 849, 850, 1000} :
       LET x == Scores!AsComponent(score)
       IN  /\ Scores!Confidence(x, x, x, x, x) = score
           /\ Scores!Urgency(x, x, x, x, x) = score
  /\ [n \in 1 .. 3 |-> Scores!Corroboration(n)] = <<0, Tenths(5), Tenths(10)>>
  /\ [n \in 0 .. 4 |->
        Scores!Recency(3600 * <<24, 72, 168, 720, 721>>[n + 1]) \div 250000]
       = [n \in 0 .. 4 |-> 4 - n]
  /\ Scores!IncidentOrRisk("DATA_BREACH", {}) = Tenths(10)
  /\ Scores!IncidentOrRisk("PRODUCT_LAUNCH", {}) = 0
=============================================================================
