--------------------------- MODULE DiscoveryRotation ---------------------------
(***************************************************************************)
(* What the discovery source asks for at each of its runs: a window over   *)
(* the registry's entities and one over the taxonomy, which move on with   *)
(* the scheduled time, in a query of limited length.                       *)
(***************************************************************************)
EXTENDS Integers, Sequences

RotationSeconds == 600
BatchSize == 2
TaxonomyTermCount == 1
MaxQueryCharacters == 220

Rotation(scheduled) == scheduled \div RotationSeconds

Lesser(a, b) == IF a <= b THEN a ELSE b

RotatingSlice(values, offset, size) ==
  [index \in 1 .. Lesser(size, Len(values)) |->
     values[((offset + index - 1) % Len(values)) + 1]]

SelectedEntities(registry, rotation) ==
  RotatingSlice(registry, rotation, BatchSize)

SelectedTaxonomy(taxonomy, rotation) ==
  RotatingSlice(taxonomy, rotation * TaxonomyTermCount, TaxonomyTermCount)

\* Terms are known by their lengths: those of "fintech", "payments" and
\* "digital bank" come first, then the taxonomy's, then an entity's name with
\* its first alias, if it has one.
Anchors == <<7, 8, 12>>

EntityTerms(entity) ==
  IF entity.alias = 0 THEN <<entity.name>> ELSE <<entity.name, entity.alias>>

Names(entities) ==
  IF entities = <<>> THEN <<>>
  ELSE IF Len(entities) = 1 THEN EntityTerms(entities[1])
  ELSE EntityTerms(entities[1]) \o EntityTerms(entities[2])

\* No term is repeated among them, which the code sees to.
Terms(registry, taxonomy, rotation) ==
  Anchors \o SelectedTaxonomy(taxonomy, rotation)
    \o Names(SelectedEntities(registry, rotation))

\* Quotes and " OR " go with each term; parentheses and the country are fixed.
Cost(term) == term + 6
Room == MaxQueryCharacters - 20

\* The loop: room[n] is what is left when n terms were considered.  A term that
\* does not fit is passed over, and shorter ones after it may still be taken.
IsSelected(room, terms, n) == Cost(terms[n]) <= room[n - 1]

IsSelection(room, terms) ==
  /\ room \in [0 .. Len(terms) -> Int]
  /\ room[0] = Room
  /\ \A n \in 1 .. Len(terms) :
       room[n] = IF IsSelected(room, terms, n) THEN room[n - 1] - Cost(terms[n])
                 ELSE room[n - 1]
================================================================================
