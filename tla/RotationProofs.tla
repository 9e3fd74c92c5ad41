----------------------------- MODULE RotationProofs -----------------------------
(***************************************************************************)
(* Discovery passes nobody over, whatever the lengths of its lists.        *)
(***************************************************************************)
EXTENDS DiscoveryRotation, SequenceTheorems, TLAPS

LEMMA DivMod ==
  ASSUME NEW n \in Nat \ {0}, NEW a \in Nat
  PROVE  /\ a \div n \in Int /\ a % n \in Int
         /\ a = n * (a \div n) + (a % n)
         /\ 0 <= a % n /\ a % n < n
BY SMT

LEMMA ModUnique ==
  ASSUME NEW n \in Nat \ {0}, NEW q \in Int, NEW r \in Int, 0 <= r, r < n
  PROVE  (n * q + r) % n = r
BY SMTT(30)

\* Every residue is met within n steps.
LEMMA Meets ==
  ASSUME NEW n \in Nat \ {0}, NEW a \in Nat, NEW i \in 0 .. n - 1
  PROVE  \E k \in 0 .. n - 1 : (a + k) % n = i
<1> DEFINE q == a \div n
<1> DEFINE b == a % n
<1>1. q \in Int /\ b \in Int /\ a = n * q + b /\ 0 <= b /\ b < n
  BY DivMod
<1> HIDE DEF q, b
<1>2. CASE b <= i
  <2>1. a + (i - b) = n * q + i
    BY SMT, <1>1
  <2>2. (n * q + i) % n = i
    BY SMT, <1>1, ModUnique
  <2>3. i - b \in 0 .. n - 1
    BY SMT, <1>1, <1>2
  <2> QED
    BY <2>1, <2>2, <2>3
<1>3. CASE i < b
  <2>1. a + (i - b + n) = n * (q + 1) + i
    BY SMT, <1>1
  <2>2. (n * (q + 1) + i) % n = i
    BY SMT, <1>1, ModUnique
  <2>3. i - b + n \in 0 .. n - 1
    BY SMT, <1>1, <1>3
  <2> QED
    BY <2>1, <2>2, <2>3
<1> QED
  BY SMT, <1>1, <1>2, <1>3

LEMMA InRange ==
  ASSUME NEW n \in Nat \ {0}, NEW a \in Nat
  PROVE  (a % n) + 1 \in 1 .. n
BY SMT, DivMod

LEMMA SliceAt ==
  ASSUME NEW S, NEW values \in Seq(S), values # <<>>, NEW offset \in Nat,
         NEW size \in Nat, NEW index \in 1 .. size, index <= Len(values)
  PROVE  RotatingSlice(values, offset, size)[index]
           = values[((offset + index - 1) % Len(values)) + 1]
<1>1. index \in 1 .. Lesser(size, Len(values))
  BY SMT DEF Lesser
<1> QED
  BY <1>1 DEF RotatingSlice

\* In any round of as many consecutive rotations as there are terms, each term
\* of the taxonomy is the one asked for.
THEOREM EveryTermComesUp ==
  ASSUME NEW S, NEW taxonomy \in Seq(S), NEW rotation \in Nat,
         NEW i \in 1 .. Len(taxonomy)
  PROVE  \E k \in 0 .. Len(taxonomy) - 1 :
           SelectedTaxonomy(taxonomy, rotation + k)[1] = taxonomy[i]
<1>1. /\ Len(taxonomy) \in Nat \ {0} /\ taxonomy # <<>>
      /\ i - 1 \in 0 .. Len(taxonomy) - 1
  BY SMT
<1>2. PICK k \in 0 .. Len(taxonomy) - 1 : (rotation + k) % Len(taxonomy) = i - 1
  BY <1>1, Meets
<1>3. rotation + k \in Nat /\ (rotation + k) * 1 = rotation + k
  BY SMT
<1>4. SelectedTaxonomy(taxonomy, rotation + k)[1]
        = taxonomy[((rotation + k + 1 - 1) % Len(taxonomy)) + 1]
  BY SMT, <1>1, <1>3, SliceAt DEF SelectedTaxonomy, TaxonomyTermCount
<1>5. ((rotation + k + 1 - 1) % Len(taxonomy)) + 1 = i
  <2>1. rotation + k + 1 - 1 = rotation + k
    BY SMT
  <2> QED
    BY SMT, <1>2, <2>1
<1> QED
  BY <1>4, <1>5

\* Each entity is second in one window of such a round and heads the one that
\* follows, so that a single lost run costs no entity its turn.
THEOREM EveryEntityTwice ==
  ASSUME NEW S, NEW registry \in Seq(S), Len(registry) >= 2,
         NEW rotation \in Nat, NEW i \in 1 .. Len(registry)
  PROVE  \E k \in 0 .. Len(registry) - 1 :
           /\ SelectedEntities(registry, rotation + k)[2] = registry[i]
           /\ SelectedEntities(registry, rotation + k + 1)[1] = registry[i]
<1>1. /\ Len(registry) \in Nat \ {0} /\ registry # <<>>
      /\ i - 1 \in 0 .. Len(registry) - 1
      /\ rotation + 1 \in Nat
  BY SMT
<1>2. PICK k \in 0 .. Len(registry) - 1 :
        (rotation + 1 + k) % Len(registry) = i - 1
  BY <1>1, Meets
<1>3. /\ rotation + k \in Nat /\ rotation + k + 1 \in Nat
      /\ rotation + k + 2 - 1 = rotation + 1 + k
      /\ rotation + k + 1 + 1 - 1 = rotation + 1 + k
  BY SMT
<1>4. /\ SelectedEntities(registry, rotation + k)[2]
           = registry[((rotation + k + 2 - 1) % Len(registry)) + 1]
      /\ SelectedEntities(registry, rotation + k + 1)[1]
           = registry[((rotation + k + 1 + 1 - 1) % Len(registry)) + 1]
  <2>1. /\ 1 \in 1 .. 2 /\ 2 \in 1 .. 2 /\ 2 \in Nat
        /\ 1 <= Len(registry) /\ 2 <= Len(registry)
    BY SMT
  <2>2. RotatingSlice(registry, rotation + k, 2)[2]
          = registry[((rotation + k + 2 - 1) % Len(registry)) + 1]
    BY <1>1, <1>3, <2>1, SliceAt
  <2>3. RotatingSlice(registry, rotation + k + 1, 2)[1]
          = registry[((rotation + k + 1 + 1 - 1) % Len(registry)) + 1]
    BY <1>1, <1>3, <2>1, SliceAt
  <2> QED
    BY <2>2, <2>3 DEF SelectedEntities, BatchSize
<1>5. i - 1 + 1 = i
  BY SMT
<1> QED
  BY <1>2, <1>3, <1>4, <1>5

Entries == [name : Nat, alias : Nat]

LEMMA FifthTerm ==
  ASSUME NEW registry \in Seq(Entries), registry # <<>>,
         NEW taxonomy \in Seq(Nat), taxonomy # <<>>, NEW rotation \in Nat
  PROVE  LET terms == Terms(registry, taxonomy, rotation)
         IN  /\ Len(terms) \in Nat /\ Len(terms) >= 5
             /\ terms[1] = 7 /\ terms[2] = 8 /\ terms[3] = 12
             /\ terms[4] = SelectedTaxonomy(taxonomy, rotation)[1]
             /\ terms[5] = SelectedEntities(registry, rotation)[1].name
<1> DEFINE t == SelectedTaxonomy(taxonomy, rotation)
<1> DEFINE e == SelectedEntities(registry, rotation)
<1>1. t \in Seq(Nat) /\ Len(t) = 1
  <2>1. Len(taxonomy) \in Nat \ {0} /\ Lesser(1, Len(taxonomy)) = 1
    BY SMT DEF Lesser
  <2>2. \A n \in 1 .. 1 :
          taxonomy[((rotation * 1 + n - 1) % Len(taxonomy)) + 1] \in Nat
    <3> TAKE n \in 1 .. 1
    <3>1. rotation * 1 + n - 1 \in Nat
      BY SMT
    <3> QED
      BY <2>1, <3>1, InRange
  <2>3. t = [n \in 1 .. 1 |->
               taxonomy[((rotation * 1 + n - 1) % Len(taxonomy)) + 1]]
    BY <2>1 DEF SelectedTaxonomy, RotatingSlice, TaxonomyTermCount
  <2> HIDE DEF t
  <2> QED
    BY SMT, <2>2, <2>3
<1>2. e \in Seq(Entries) /\ Len(e) \in 1 .. 2
  <2> DEFINE m == Lesser(2, Len(registry))
  <2>1. Len(registry) \in Nat \ {0}
    BY SMT
  <2>2. m \in 1 .. 2
    <3>1. ASSUME NEW n \in Nat \ {0}
          PROVE  Lesser(2, n) \in 1 .. 2
      BY SMT DEF Lesser
    <3> QED
      BY <2>1, <3>1
  <2> HIDE DEF m
  <2>3. \A n \in 1 .. m :
          registry[((rotation + n - 1) % Len(registry)) + 1] \in Entries
    <3> TAKE n \in 1 .. m
    <3>1. rotation + n - 1 \in Nat
      BY SMT, <2>2
    <3> QED
      BY <2>1, <3>1, InRange
  <2>4. e = [n \in 1 .. m |-> registry[((rotation + n - 1) % Len(registry)) + 1]]
    BY DEF SelectedEntities, RotatingSlice, BatchSize, m
  <2> HIDE DEF e
  <2> QED
    BY SMT, <2>2, <2>3, <2>4
<1> HIDE DEF t, e
<1>3. /\ Names(e) \in Seq(Nat) /\ Len(Names(e)) >= 1
      /\ Names(e)[1] = e[1].name
  <2>1. ASSUME NEW x \in Entries
        PROVE  /\ EntityTerms(x) \in Seq(Nat) /\ Len(EntityTerms(x)) >= 1
               /\ EntityTerms(x)[1] = x.name
    BY SMT DEF EntityTerms, Entries
  <2>2. CASE Len(e) = 1
    <3>1. e[1] \in Entries /\ e # <<>>
      <4>1. 1 \in 1 .. Len(e) /\ Len(e) # 0
        BY SMT, <2>2
      <4> QED
        BY <1>2, <4>1, ElementOfSeq, EmptySeq
    <3>2. Names(e) = EntityTerms(e[1])
      BY <2>2, <3>1 DEF Names
    <3> QED
      BY <2>1, <3>1, <3>2
  <2>3. CASE Len(e) = 2
    <3>1. e[1] \in Entries /\ e[2] \in Entries /\ e # <<>>
      <4>1. 1 \in 1 .. Len(e) /\ 2 \in 1 .. Len(e) /\ Len(e) # 0
        BY SMT, <2>3
      <4> QED
        BY <1>2, <4>1, ElementOfSeq, EmptySeq
    <3>3. 2 # 1
      BY SMT
    <3>4. Names(e) = EntityTerms(e[1]) \o EntityTerms(e[2])
      BY <2>3, <3>1, <3>3 DEF Names
    <3>2. /\ EntityTerms(e[1]) \in Seq(Nat) /\ Len(EntityTerms(e[1])) >= 1
          /\ EntityTerms(e[1])[1] = e[1].name
          /\ EntityTerms(e[2]) \in Seq(Nat)
      BY <2>1, <3>1
    <3> QED
      BY SMT, <3>2, <3>4
  <2> QED
    BY SMT, <1>2, <2>2, <2>3
<1>4. /\ Anchors \in Seq(Nat) /\ Len(Anchors) = 3
      /\ Anchors[1] = 7 /\ Anchors[2] = 8 /\ Anchors[3] = 12
  BY SMT DEF Anchors
<1> DEFINE s == Anchors \o t
<1>5. /\ s \in Seq(Nat) /\ Len(s) = 4
      /\ s[1] = 7 /\ s[2] = 8 /\ s[3] = 12 /\ s[4] = t[1]
  <2>1. /\ s \in Seq(Nat) /\ Len(s) = 3 + 1
        /\ \A n \in 1 .. 3 + 1 :
             s[n] = IF n <= 3 THEN Anchors[n] ELSE t[n - 3]
    <3>1. /\ s \in Seq(Nat) /\ Len(s) = Len(Anchors) + Len(t)
          /\ \A n \in 1 .. Len(Anchors) + Len(t) :
               s[n] = IF n <= Len(Anchors) THEN Anchors[n]
                      ELSE t[n - Len(Anchors)]
      BY ONLY <1>1, <1>4, ConcatProperties DEF s
    <3> QED
      BY ONLY <1>1, <1>4, <3>1
  <2> HIDE DEF s
  <2> QED
    BY SMT, <1>4, <2>1
<1> HIDE DEF s
<1>6. /\ Len(s \o Names(e)) = 4 + Len(Names(e))
      /\ \A n \in 1 .. 4 + Len(Names(e)) :
           (s \o Names(e))[n] = IF n <= 4 THEN s[n] ELSE Names(e)[n - 4]
  <2>1. /\ Len(s \o Names(e)) = Len(s) + Len(Names(e))
        /\ \A n \in 1 .. Len(s) + Len(Names(e)) :
             (s \o Names(e))[n] = IF n <= Len(s) THEN s[n]
                                  ELSE Names(e)[n - Len(s)]
    BY ONLY <1>3, <1>5, ConcatProperties
  <2> QED
    BY ONLY <1>5, <2>1
<1>7. Len(Names(e)) \in Nat
  BY <1>3, LenProperties
<1> DEFINE l == Len(Names(e))
<1> DEFINE terms == s \o Names(e)
<1>8. Terms(registry, taxonomy, rotation) = terms
  BY DEF Terms, t, e, s
<1>9. /\ 1 \in 1 .. 4 + l /\ 2 \in 1 .. 4 + l /\ 3 \in 1 .. 4 + l
      /\ 4 \in 1 .. 4 + l /\ 5 \in 1 .. 4 + l /\ 4 + l \in Nat /\ 4 + l >= 5
  <2> HIDE DEF l
  <2>1. l \in Nat /\ l >= 1
    BY <1>3, <1>7 DEF l
  <2> QED
    BY SMT, <2>1
<1>10. /\ terms[1] = 7 /\ terms[2] = 8 /\ terms[3] = 12 /\ terms[4] = t[1]
       /\ terms[5] = Names(e)[1]
  <2>1. /\ 1 <= 4 /\ 2 <= 4 /\ 3 <= 4 /\ 4 <= 4 /\ ~(5 <= 4) /\ 5 - 4 = 1
    BY SMT
  <2> QED
    BY <1>5, <1>6, <1>9, <2>1
<1> QED
  BY <1>3, <1>6, <1>8, <1>9, <1>10 DEF t, e

\* While a name and a taxonomy term stay within what the anchors leave.
ShortEnough(registry, taxonomy) ==
  \A i \in 1 .. Len(registry), j \in 1 .. Len(taxonomy) :
    registry[i].name + taxonomy[j] <= 143

LEMMA FirstFiveFit ==
  ASSUME NEW room, NEW terms, IsSelection(room, terms),
         Len(terms) \in Nat, Len(terms) >= 5,
         terms[1] = 7, terms[2] = 8, terms[3] = 12,
         terms[4] \in Nat, terms[5] \in Nat, terms[4] + terms[5] <= 143
  PROVE  IsSelected(room, terms, 4) /\ IsSelected(room, terms, 5)
<1>1. /\ 1 \in 1 .. Len(terms) /\ 2 \in 1 .. Len(terms)
      /\ 3 \in 1 .. Len(terms) /\ 4 \in 1 .. Len(terms)
      /\ 1 - 1 = 0 /\ 2 - 1 = 1 /\ 3 - 1 = 2 /\ 4 - 1 = 3 /\ 5 - 1 = 4
  BY SMT
<1>2. ASSUME NEW n \in 1 .. Len(terms)
      PROVE  room[n] = IF Cost(terms[n]) <= room[n - 1]
                       THEN room[n - 1] - Cost(terms[n]) ELSE room[n - 1]
  BY DEF IsSelection, IsSelected
<1>3. room[0] = 200
  BY SMT DEF IsSelection, Room, MaxQueryCharacters
<1>4. room[1] = 187
  <2>1. room[1] = IF Cost(terms[1]) <= room[0]
                  THEN room[0] - Cost(terms[1]) ELSE room[0]
    BY Zenon, <1>1, <1>2
  <2> QED
    BY ONLY SMT, <2>1, <1>3, terms[1] = 7 DEF Cost
<1>5. room[2] = 173
  <2>1. room[2] = IF Cost(terms[2]) <= room[1]
                  THEN room[1] - Cost(terms[2]) ELSE room[1]
    BY Zenon, <1>1, <1>2
  <2> QED
    BY ONLY SMT, <2>1, <1>4, terms[2] = 8 DEF Cost
<1>6. room[3] = 155
  <2>1. room[3] = IF Cost(terms[3]) <= room[2]
                  THEN room[2] - Cost(terms[3]) ELSE room[2]
    BY Zenon, <1>1, <1>2
  <2> QED
    BY ONLY SMT, <2>1, <1>5, terms[3] = 12 DEF Cost
<1>7. Cost(terms[4]) <= room[3] /\ room[4] = 155 - Cost(terms[4])
  BY SMT, <1>1, <1>2, <1>6 DEF Cost
<1>8. Cost(terms[5]) <= room[4]
  BY SMT, <1>7 DEF Cost
<1> QED
  BY <1>1, <1>7, <1>8 DEF IsSelected

\* Nobody is passed over: in any round of rotations, each entity has one whose
\* query asks for its name and for a term of the taxonomy, however much the
\* limit of length cuts off behind them.
THEOREM EveryEntityIsAskedFor ==
  ASSUME NEW registry \in Seq(Entries), NEW taxonomy \in Seq(Nat),
         taxonomy # <<>>, ShortEnough(registry, taxonomy),
         NEW rotation \in Nat, NEW i \in 1 .. Len(registry)
  PROVE  \E k \in 0 .. Len(registry) - 1 :
           LET terms == Terms(registry, taxonomy, rotation + k)
           IN  /\ terms[5] = registry[i].name
               /\ \A room : IsSelection(room, terms) =>
                    IsSelected(room, terms, 4) /\ IsSelected(room, terms, 5)
<1>1. /\ Len(registry) \in Nat \ {0} /\ registry # <<>>
      /\ i - 1 \in 0 .. Len(registry) - 1
  BY SMT
<1>2. PICK k \in 0 .. Len(registry) - 1 : (rotation + k) % Len(registry) = i - 1
  BY <1>1, Meets
<1> DEFINE terms == Terms(registry, taxonomy, rotation + k)
<1>3. rotation + k \in Nat /\ rotation + k + 1 - 1 = rotation + k
  BY SMT
<1>4. SelectedEntities(registry, rotation + k)[1] = registry[i]
  <2>1. 1 \in 1 .. 2 /\ 2 \in Nat /\ 1 <= Len(registry) /\ i - 1 + 1 = i
    BY SMT, <1>1
  <2>2. RotatingSlice(registry, rotation + k, 2)[1]
          = registry[((rotation + k + 1 - 1) % Len(registry)) + 1]
    BY <1>1, <1>3, <2>1, SliceAt
  <2> QED
    BY <1>2, <1>3, <2>1, <2>2 DEF SelectedEntities, BatchSize
<1>5. PICK j \in 1 .. Len(taxonomy) :
        SelectedTaxonomy(taxonomy, rotation + k)[1] = taxonomy[j]
  <2>1. /\ 1 \in 1 .. 1 /\ 1 \in Nat /\ Len(taxonomy) \in Nat \ {0}
        /\ 1 <= Len(taxonomy)
    BY SMT
  <2>2. (rotation + k) * 1 = rotation + k
    BY SMT, <1>3
  <2>3. RotatingSlice(taxonomy, rotation + k, 1)[1]
          = taxonomy[((rotation + k + 1 - 1) % Len(taxonomy)) + 1]
    BY <1>3, <2>1, SliceAt
  <2> QED
    BY <1>3, <2>1, <2>2, <2>3, InRange DEF SelectedTaxonomy, TaxonomyTermCount
<1>6. /\ Len(terms) \in Nat /\ Len(terms) >= 5
      /\ terms[1] = 7 /\ terms[2] = 8 /\ terms[3] = 12
      /\ terms[4] = taxonomy[j] /\ terms[5] = registry[i].name
  BY <1>1, <1>3, <1>4, <1>5, FifthTerm
<1>7. /\ taxonomy[j] \in Nat /\ registry[i].name \in Nat
      /\ taxonomy[j] + registry[i].name <= 143
  <2>1. taxonomy[j] \in Nat /\ registry[i] \in Entries
    BY ElementOfSeq
  <2>2. registry[i].name \in Nat
    BY <2>1 DEF Entries
  <2>3. registry[i].name + taxonomy[j] <= 143
    BY DEF ShortEnough
  <2> QED
    BY SMT, <2>1, <2>2, <2>3
<1> HIDE DEF terms
<1>8. ASSUME NEW room, IsSelection(room, terms)
      PROVE  IsSelected(room, terms, 4) /\ IsSelected(room, terms, 5)
  BY <1>6, <1>7, <1>8, FirstFiveFit
<1> QED
  BY <1>6, <1>8 DEF terms
=================================================================================
