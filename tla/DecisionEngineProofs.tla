-------------------------- MODULE DecisionEngineProofs --------------------------
(***************************************************************************)
(* What an assessment promises, for every context and every set of rules.  *)
(***************************************************************************)
EXTENDS DecisionEngine, FiniteSetTheorems, TLAPS

\* Contexts are read from a table.
Assessed(values) ==
  /\ values \in AssessmentInputs
  /\ IsFiniteSet(values.context)

LEMMA MatchedFinite ==
  ASSUME NEW values, Assessed(values)
  PROVE  /\ IsFiniteSet(Matched(values))
         /\ Cardinality(Matched(values)) \in Nat
<1>1. IsFiniteSet(Matched(values))
  <2>1. Matched(values) \subseteq values.context
    BY DEF Matched
  <2> QED
    BY <2>1, FS_Subset DEF Assessed
<1> QED
  BY <1>1, FS_CardinalityType

\* The weighted sum of the components, rounded.
Sum(a, n, u, e, s) ==
  Rounded(120000 * a + 20000 * n + 45 * u + 30000 * e + 30000 * s)

\* Bounds by name: the first-order prover counts numerals one by one.
Bits == 0 .. 1
Thirds == 0 .. 3
Thousandths == 0 .. 1000
UpTo(bound) == {x \in Nat : x <= bound}
Fitting == UpTo(950)
Remote == UpTo(650)
Unrelated == UpTo(250)

LEMMA SumBounds ==
  ASSUME NEW a \in Bits, NEW n \in Thirds, NEW u \in Thousandths,
         NEW e \in Bits, NEW s \in Bits
  PROVE  /\ Sum(a, n, u, e, s) \in Fitting
         /\ Sum(a, 0, u, 0, s) \in Remote
         /\ Sum(0, 0, u, 0, s) \in Unrelated
BY SMT DEF Sum, Rounded, Bits, Thirds, Thousandths, Fitting, Remote, Unrelated,
           UpTo

LEMMA SumGrows ==
  ASSUME NEW a \in Bits, NEW n \in Thirds, NEW u \in Thousandths,
         NEW e \in Bits, NEW s \in Bits,
         NEW b \in Bits, NEW m \in Thirds, NEW v \in Thousandths,
         NEW f \in Bits, NEW t \in Bits,
         a <= b, n <= m, u <= v, e <= f, s <= t
  PROVE  Sum(a, n, u, e, s) <= Sum(b, m, v, f, t)
BY SMT DEF Sum, Rounded, Bits, Thirds, Thousandths

LEMMA PointsAre ==
  ASSUME NEW P
  PROVE  Points(P) \in Bits /\ (P => Points(P) = 1) /\ (~P => Points(P) = 0)
BY SMT DEF Points, Bits

LEMMA Components ==
  ASSUME NEW values, Assessed(values)
  PROVE  /\ Applicability(values) \in Bits
         /\ ObjectMatch(values) \in Thirds
         /\ values.urgency \in Thousandths
         /\ EntityMatch(values) \in Bits
         /\ StrategicMatch(values) \in Bits
<1>1. values.urgency \in Thousandths
  BY DEF Assessed, AssessmentInputs, Thousandths
<1>2. ObjectMatch(values) \in Thirds
  BY SMT, MatchedFinite DEF ObjectMatch, Least, Thirds
<1> QED
  BY <1>1, <1>2, PointsAre DEF Applicability, EntityMatch, StrategicMatch

LEMMA BaseScoreIs ==
  ASSUME NEW values
  PROVE  BaseScore(values)
           = Sum(Applicability(values), ObjectMatch(values), values.urgency,
                 EntityMatch(values), StrategicMatch(values))
BY SMT DEF BaseScore, Sum

LEMMA BaseScoreFits ==
  ASSUME NEW values, Assessed(values)
  PROVE  /\ BaseScore(values) \in Fitting
         /\ BaseScore(values) \in Nat /\ BaseScore(values) <= 950
<1>1. /\ Applicability(values) \in Bits
      /\ ObjectMatch(values) \in Thirds
      /\ values.urgency \in Thousandths
      /\ EntityMatch(values) \in Bits
      /\ StrategicMatch(values) \in Bits
  BY Components
<1>2. BaseScore(values) \in Fitting
  BY ONLY <1>1, BaseScoreIs, SumBounds
<1> QED
  BY SMT, <1>2 DEF Fitting, UpTo

\* The relevance is a decimal between zero and one, for every number of
\* objects that match: it fits its column and the priority built on it.
THEOREM RelevanceFits ==
  ASSUME NEW values, Assessed(values)
  PROVE  Relevance(values) \in Nat /\ Relevance(values) <= 950
BY SMT, BaseScoreFits DEF Relevance, Most

\* A brief that asks for a decision is never in a band below HIGH.
THEOREM DecisionsRankHigh ==
  ASSUME NEW values, Assessed(values), DecisionRequired(values)
  PROVE  RelevanceBand(Relevance(values)) \in {"HIGH", "CRITICAL"}
<1>1. Relevance(values) >= 700
  BY SMT, BaseScoreFits DEF Relevance, Most
<1> QED
  BY SMT, <1>1, RelevanceFits DEF RelevanceBand

\* Every seeded rule names a type of object it asks for.
RulesAskForContext(values) ==
  \A r \in values.rules : r.requires # {} \/ r.anyOf # {}

LEMMA NoContextNoDecision ==
  ASSUME NEW values, RulesAskForContext(values), Matched(values) = {}
  PROVE  ~DecisionRequired(values)
BY DEF DecisionRequired, MatchedRules, RequiredContextMatches,
       RulesAskForContext

LEMMA WithoutObjects ==
  ASSUME NEW values, Assessed(values), Matched(values) = {}
  PROVE  /\ BaseScore(values) < 700
         /\ ~values.market => BaseScore(values) <= 250
<1>1. ObjectMatch(values) = 0
  BY SMT, FS_EmptySet DEF ObjectMatch, Least
<1>2. EntityMatch(values) = 0
  BY PointsAre DEF EntityMatch
<1>3. ~values.market => Applicability(values) = 0
  BY PointsAre DEF Applicability
<1>4. /\ Applicability(values) \in Bits
      /\ ObjectMatch(values) \in Thirds
      /\ values.urgency \in Thousandths
      /\ EntityMatch(values) \in Bits
      /\ StrategicMatch(values) \in Bits
  BY Components
<1>5. /\ BaseScore(values) \in Remote
      /\ Applicability(values) = 0 => BaseScore(values) \in Unrelated
  BY ONLY <1>1, <1>2, <1>4, BaseScoreIs, SumBounds
<1> QED
  BY SMT, <1>3, <1>5 DEF Remote, Unrelated, UpTo

\* No brief is ranked HIGH or CRITICAL for a company that has no object in the
\* evidence: an urgent signal of its market and its priority do not suffice,
\* and without the market it is ranked LOW.
THEOREM HighRestsOnContext ==
  ASSUME NEW values, Assessed(values), RulesAskForContext(values),
         Matched(values) = {}
  PROVE  /\ RelevanceBand(Relevance(values)) \in {"LOW", "STANDARD"}
         /\ ~values.market => RelevanceBand(Relevance(values)) = "LOW"
<1>1. Relevance(values) = BaseScore(values)
  BY NoContextNoDecision DEF Relevance
<1> QED
  BY SMT, <1>1, WithoutObjects, BaseScoreFits DEF RelevanceBand

\* The same output for a company that told no less of itself, urgent at least
\* as much, under no fewer rules.
TellsMore(more, less) ==
  /\ more.domain = less.domain /\ more.event = less.event
  /\ less.urgency <= more.urgency
  /\ less.market => more.market
  /\ less.strategy => more.strategy
  /\ less.context \subseteq more.context
  /\ less.rules \subseteq more.rules

LEMMA PointsGrow ==
  ASSUME NEW P, NEW Q, P => Q
  PROVE  Points(P) <= Points(Q)
BY SMT DEF Points

LEMMA MoreMatch ==
  ASSUME NEW less, NEW more, TellsMore(more, less)
  PROVE  /\ Matched(less) \subseteq Matched(more)
         /\ EntityMatch(less) <= EntityMatch(more)
         /\ MatchedRules(less) \subseteq MatchedRules(more)
<1>1. Matched(less) \subseteq Matched(more)
  BY DEF TellsMore, Matched
<1>2. EntityMatch(less) <= EntityMatch(more)
  BY <1>1, PointsGrow DEF EntityMatch
<1>3. {o.type : o \in Matched(less)} \subseteq {o.type : o \in Matched(more)}
  BY <1>1
<1>4. MatchedRules(less) \subseteq MatchedRules(more)
  <2> SUFFICES ASSUME NEW r \in MatchedRules(less)
               PROVE  r \in MatchedRules(more)
    OBVIOUS
  <2>1. RequiredContextMatches(r, {o.type : o \in Matched(less)})
    BY DEF MatchedRules
  <2>2. RequiredContextMatches(r, {o.type : o \in Matched(more)})
    BY <1>3, <2>1 DEF RequiredContextMatches
  <2> QED
    BY <2>2 DEF MatchedRules, TellsMore
<1> QED
  BY <1>1, <1>2, <1>4

\* Telling the platform more of the company never lowers what an output is
\* worth to it, nor does it take away a decision that was called for: nothing
\* in a context or a rule counts against a match.
THEOREM MoreContextNeverHides ==
  ASSUME NEW less, NEW more, Assessed(less), Assessed(more),
         TellsMore(more, less)
  PROVE  /\ Relevance(less) <= Relevance(more)
         /\ DecisionRequired(less) => DecisionRequired(more)
<1>1. DecisionRequired(less) => DecisionRequired(more)
  BY MoreMatch DEF DecisionRequired
<1>2. BaseScore(less) <= BaseScore(more)
  <2>1. /\ Applicability(less) \in Bits
        /\ ObjectMatch(less) \in Thirds
        /\ less.urgency \in Thousandths
        /\ EntityMatch(less) \in Bits
        /\ StrategicMatch(less) \in Bits
    BY Components
  <2>2. /\ Applicability(more) \in Bits
        /\ ObjectMatch(more) \in Thirds
        /\ more.urgency \in Thousandths
        /\ EntityMatch(more) \in Bits
        /\ StrategicMatch(more) \in Bits
    BY Components
  <2>3. ObjectMatch(less) <= ObjectMatch(more)
    <3>1. Cardinality(Matched(less)) <= Cardinality(Matched(more))
      BY MoreMatch, MatchedFinite, FS_Subset
    <3> QED
      BY SMT, <3>1, MatchedFinite DEF ObjectMatch, Least
  <2>4. Applicability(less) <= Applicability(more)
    <3>1. Matched(less) # {} \/ less.market
            => Matched(more) # {} \/ more.market
      BY MoreMatch DEF TellsMore
    <3> QED
      BY <3>1, PointsGrow DEF Applicability
  <2>5. StrategicMatch(less) <= StrategicMatch(more)
    BY PointsGrow DEF TellsMore, StrategicMatch
  <2>6. /\ EntityMatch(less) <= EntityMatch(more)
        /\ less.urgency <= more.urgency
    BY MoreMatch DEF TellsMore
  <2> QED
    BY ONLY <2>1, <2>2, <2>3, <2>4, <2>5, <2>6, BaseScoreIs, SumGrows
<1> QED
  BY SMT, <1>1, <1>2, BaseScoreFits DEF Relevance, Most

PrioritySum(x, o, d, r, f) ==
  (550 * x + 200000 * o + 100000 * d + 50000 * r + 100 * f + 500) \div 1000

LEMMA PriorityBounds ==
  ASSUME NEW x \in Thousandths, NEW o \in Bits, NEW d \in Bits, NEW r \in Bits,
         NEW f \in Thousandths
  PROVE  PrioritySum(x, o, d, r, f) \in Thousandths
BY SMT DEF PrioritySum, Bits, Thousandths

LEMMA PriorityGrows ==
  ASSUME NEW x \in Thousandths, NEW o \in Bits, NEW d \in Bits, NEW r \in Bits,
         NEW f \in Thousandths,
         NEW y \in Thousandths, NEW p \in Bits, NEW e \in Bits, NEW s \in Bits,
         NEW g \in Thousandths,
         x <= y, o <= p, d <= e, r <= s, f <= g
  PROVE  PrioritySum(x, o, d, r, f) <= PrioritySum(y, p, e, s, g)
BY SMT DEF PrioritySum, Bits, Thousandths

LEMMA PriorityIs ==
  ASSUME NEW x, NEW reader
  PROVE  PersonalPriority(x, reader)
           = PrioritySum(x, Points(reader.owner), Points(reader.domain),
                         Points(reader.responsibility), reader.focus)
BY SMT DEF PersonalPriority, PrioritySum

LEMMA RelevanceIsComponent ==
  ASSUME NEW values, Assessed(values)
  PROVE  Relevance(values) \in Thousandths
BY SMT, RelevanceFits DEF Thousandths

\* The order of a reader's inbox follows what is matched: a reader who is
\* concerned in every respect another is has the output at least as high up,
\* and a priority is a decimal between zero and one, as its column asks.
THEOREM PriorityFollowsMatches ==
  ASSUME NEW values, Assessed(values), NEW a \in Readers, NEW b \in Readers,
         a.owner => b.owner, a.domain => b.domain,
         a.responsibility => b.responsibility, a.focus <= b.focus
  PROVE  /\ PersonalPriority(Relevance(values), a) \in 0 .. 1000
         /\ PersonalPriority(Relevance(values), a)
              <= PersonalPriority(Relevance(values), b)
<1>1. a.focus \in Thousandths /\ b.focus \in Thousandths
  BY DEF Readers, Thousandths
<1>2. /\ Points(a.owner) \in Bits /\ Points(b.owner) \in Bits
      /\ Points(a.domain) \in Bits /\ Points(b.domain) \in Bits
      /\ Points(a.responsibility) \in Bits /\ Points(b.responsibility) \in Bits
  BY PointsAre
<1>3. /\ Points(a.owner) <= Points(b.owner)
      /\ Points(a.domain) <= Points(b.domain)
      /\ Points(a.responsibility) <= Points(b.responsibility)
  BY PointsGrow
<1>4. Relevance(values) \in Thousandths /\ Relevance(values) <= Relevance(values)
  BY SMT, RelevanceIsComponent DEF Thousandths
<1>5. PersonalPriority(Relevance(values), a) \in Thousandths
  BY ONLY <1>1, <1>2, <1>4, PriorityIs, PriorityBounds
<1>6. PersonalPriority(Relevance(values), a)
        <= PersonalPriority(Relevance(values), b)
  BY ONLY <1>1, <1>2, <1>3, <1>4, a.focus <= b.focus, PriorityIs, PriorityGrows
<1> QED
  BY <1>5, <1>6 DEF Thousandths
=================================================================================
