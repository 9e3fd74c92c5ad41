----------------------------- MODULE DecisionEngine -----------------------------
(***************************************************************************)
(* assess_relevance and calculate_personal_priority: what an output means  *)
(* to a company, given its context and the rules, and to one reader.       *)
(* Scores are in thousandths; texts and tags are there or not.             *)
(***************************************************************************)
EXTENDS Integers, FiniteSets

CONSTANTS Ids, Types, Domains, Events, Versions

Least(a, b) == IF a <= b THEN a ELSE b
Most(a, b) == IF a >= b THEN a ELSE b
Points(b) == IF b THEN 1 ELSE 0

\* A context object as the evidence sees it: whether its entity is one of the
\* signal's, its name one of the region tags, its name in the text.
ContextObjects ==
  [id : Ids, type : Types, entity : BOOLEAN, region : BOOLEAN, named : BOOLEAN]

\* requires holds at most one type, anyOf any number of them.
Rules ==
  [id : Ids, domain : Domains, events : SUBSET Events, requires : SUBSET Types,
   anyOf : SUBSET Types, decision : BOOLEAN, version : Versions]

\* market and strategy: an operating market or a strategic priority of the
\* profile is in the evidence.
AssessmentInputs ==
  [domain : Domains, event : Events, urgency : 0 .. 1000, market : BOOLEAN,
   strategy : BOOLEAN, context : SUBSET ContextObjects, rules : SUBSET Rules]

ObjectMatches(o) == o.entity \/ (o.type = "MARKET" /\ o.region) \/ o.named

Matched(values) == {o \in values.context : ObjectMatches(o)}

Applicability(values) == Points(Matched(values) # {} \/ values.market)
ObjectMatch(values) == Least(Cardinality(Matched(values)), 3)
EntityMatch(values) == Points(\E o \in Matched(values) : o.entity)
StrategicMatch(values) == Points(values.strategy)

\* ROUND_HALF_UP of three-hundred-thousandths, of which an object's third of a
\* share has a whole number.  The code cuts the third after 28 digits; no sum
\* lies so close to a half that this would matter.
Rounded(sum) == (sum + 150) \div 300

BaseScore(values) ==
  Rounded(120000 * Applicability(values) + 20000 * ObjectMatch(values)
            + 45 * values.urgency + 30000 * EntityMatch(values)
            + 30000 * StrategicMatch(values))

RequiredContextMatches(r, types) ==
  /\ r.requires \subseteq types
  /\ r.anyOf = {} \/ r.anyOf \cap types # {}

MatchedRules(values) ==
  {r \in values.rules :
     /\ r.domain = values.domain
     /\ values.event \in r.events
     /\ RequiredContextMatches(r, {o.type : o \in Matched(values)})}

DecisionRequired(values) == \E r \in MatchedRules(values) : r.decision

\* Anything else raises ValueError.
CanAssess(values) == \E v \in Versions : {r.version : r \in values.rules} = {v}

\* A required decision lifts the score into the band HIGH.
Relevance(values) ==
  IF DecisionRequired(values) THEN Most(BaseScore(values), 700)
  ELSE BaseScore(values)

RelevanceBand(score) ==
  IF score >= 850 THEN "CRITICAL"
  ELSE IF score >= 700 THEN "HIGH"
  ELSE IF score >= 450 THEN "STANDARD"
  ELSE "LOW"

\* A reader: whether his role owns the decision, his lens has the domain or
\* shares a responsibility, and the greatest weight of a matched focus area.
Readers ==
  [owner : BOOLEAN, domain : BOOLEAN, responsibility : BOOLEAN,
   focus : 0 .. 1000]

PersonalPriority(relevance, reader) ==
  (550 * relevance + 200000 * Points(reader.owner)
     + 100000 * Points(reader.domain) + 50000 * Points(reader.responsibility)
     + 100 * reader.focus + 500) \div 1000
=================================================================================
