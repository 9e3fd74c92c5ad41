------------------------------ MODULE MCIngestion ------------------------------
EXTENDS Ingestion, Sequences, TLC

\* Every source is due in minute 0 and in no later one.
DueAtZero == Sources \X {0}

Symmetry == Permutations(Schedulers) \cup Permutations(Workers)
              \cup Permutations(Contents)

(***************************************************************************)
(* The discovery queries of tests/unit/test_discovery.py, by the lengths   *)
(* of their terms, and the slices of a small registry.                     *)
(***************************************************************************)
Discovery == INSTANCE DiscoveryRotation

RoomAfter(terms) ==
  LET room[n \in 0 .. Len(terms)] ==
        IF n = 0 THEN Discovery!Room
        ELSE IF Discovery!Cost(terms[n]) <= room[n - 1]
             THEN room[n - 1] - Discovery!Cost(terms[n]) ELSE room[n - 1]
  IN  room

ASSUME DiscoveryExamples ==
  /\ LET terms == Discovery!Anchors \o <<18, 14>> \o <<11, 10>>
     IN  /\ Discovery!IsSelection(RoomAfter(terms), terms)
         /\ \A n \in 1 .. 7 : Discovery!IsSelected(RoomAfter(terms), terms, n)
  /\ LET terms == Discovery!Anchors \o <<37, 37, 37, 37>> \o <<35, 35>>
     IN  /\ Discovery!IsSelection(RoomAfter(terms), terms)
         /\ {n \in 1 .. 9 : Discovery!IsSelected(RoomAfter(terms), terms, n)}
              = 1 .. 6
  /\ \A r \in 0 .. 12, registry \in {<<1, 2, 3>>, <<1, 2, 3, 4>>} :
       \A e \in {registry[i] : i \in 1 .. Len(registry)} :
         \E k \in 0 .. Len(registry) - 1 :
           Discovery!SelectedEntities(registry, r + k)[1] = e
=============================================================================
