-------------------------- MODULE TaskRunnerProofs --------------------------
(* The task runner for any number of tasks and of concurrent executions,    *)
(* any evidence and any plan of the provider.                              *)
EXTENDS TaskRunner, FiniteSetTheorems, NaturalsInduction, WellFoundedInduction, TLAPS

-----------------------------------------------------------------------------
(* The inductive invariant *)

\* Running: an execution between its claim and its end.
Running(c) == c.pc \notin {"new", "answered", "over"}

\* A plan of the provider whose best candidate leads, above the threshold.
AutoPlan(plan) ==
    /\ plan \in Plans
    /\ ~ (Score(plan[Top(plan)]) < 85) /\ LeadAtLeast(plan, Top(plan), 10)

\* What an action that ran, or is about to run, rests on.
Licensed(e) ==
    /\ tier[call[e].task] \notin {"A2_WRITE_APPROVED", "A4_IRREVERSIBLE"}
    /\ ~ call[e].evidence.contradicted
    /\ tier[call[e].task] = "A3_LOW_RISK_AUTO" =>
          call[e].plan # FallbackPlan /\ AutoPlan(call[e].plan)

\* Where an execution stands, by its own record.
Shape(c) ==
    /\ c.pc # "new" => c.task \in Tasks
    /\ c.pc = "new" => ~ c.acted
    /\ c.pc \in {"gmail", "calendar", "workflow", "planning", "deciding", "acting"} => ~ c.acted
    /\ c.acted => c.out = "done"
    /\ c.pc = "acting" => c.out = "done"
    /\ c.pc \in {"tracing", "recording", "answered"} /\ c.out = "done" => c.acted
    /\ c.pc = "deciding" => c.plan \in Plans \cup {FallbackPlan}

CallInv ==
    \A e \in Executions :
        /\ Shape(call[e])
        /\ call[e].acted \/ call[e].pc = "acting" => Licensed(e)
        /\ call[e].pc \in {"recording", "answered"} /\ call[e].out = "done" => e \in traced
        /\ call[e].acted /\ call[e].pc \in {"failing", "over"} => call[e].task \in disturbed

\* An execution whose result is in the table, or was given to a caller.
Landed(e) ==
    /\ call[e].pc \in {"answered", "failing", "over"}
    /\ call[e].out = "done" => call[e].acted /\ e \in traced

RecordInv ==
    \A t \in Tasks : record[t].status = "completed" =>
        /\ record[t].result \in Executions
        /\ Landed(record[t].result) /\ call[record[t].result].task = t

ToldInv == \A e \in told : Landed(e) /\ call[e].task \in Tasks

\* A task nothing has disturbed: one execution holds it, under a fresh claim, or
\* its record is the result of the one that answered.
Quiet(t) ==
    /\ \A e \in Executions : Holds(e, t) => record[t].status = "in_progress" /\ t \notin stale
    /\ \A e, f \in Executions : Holds(e, t) /\ Holds(f, t) => e = f
    /\ \A e \in Executions : call[e].task = t /\ (e \in told \/ call[e].pc = "answered") =>
           record[t].status = "completed" /\ record[t].result = e

QuietInv == \A t \in Tasks : t \notin disturbed => Quiet(t)

IInv == TypeOK /\ CallInv /\ RecordInv /\ ToldInv /\ QuietInv

-----------------------------------------------------------------------------
(* The evidence and the plan *)

LEMMA RoundType == ASSUME NEW n \in Int, NEW d \in Nat \ {0}  PROVE Round(n, d) \in Int
BY DEF Round

LEMMA CountType ==
    ASSUME NEW found \in Seq(Sources), NEW type  PROVE CountOf(found, type) \in Nat
<1>1. DOMAIN found = 1..Len(found) /\ Len(found) \in Nat
  OBVIOUS
<1>2. IsFiniteSet(1..Len(found))
  BY <1>1, FS_Interval
<1>3. {i \in DOMAIN found : found[i].type = type} \subseteq 1..Len(found)
  BY <1>1
<1>4. IsFiniteSet({i \in DOMAIN found : found[i].type = type})
  BY <1>2, <1>3, FS_Subset
<1>5. QED  BY <1>4, FS_CardinalityType DEF CountOf

LEMMA BrokeredType ==
    ASSUME NEW found \in Seq(Sources), NEW x \in Excerpts
    PROVE  Brokered(found, x) \in Seq(Sources) /\ Len(Brokered(found, x)) \in Nat \ {0}
<1>1. WorkflowSource(x) \in Sources
  BY TaskRunnerAssumption DEF WorkflowSource, Sources
<1>2. Append(found, WorkflowSource(x)) \in Seq(Sources) /\ Len(Append(found, WorkflowSource(x))) \in Nat \ {0}
  BY <1>1
<1>3. QED  BY <1>2, TaskRunnerAssumption DEF Brokered

LEMMA BundleType ==
    ASSUME NEW found \in Seq(Sources), NEW x \in Excerpts
    PROVE  Bundle(Brokered(found, x)) \in Evidence
<1> DEFINE b == Brokered(found, x)
<1>1. b \in Seq(Sources) /\ Len(b) \in Nat \ {0}
  BY BrokeredType
<1>2. \A type \in {"gmail", "calendar", "workflow_state"} : CountOf(b, type) \in Nat
  <2> SUFFICES ASSUME NEW type \in {"gmail", "calendar", "workflow_state"}
               PROVE  CountOf(b, type) \in Nat
    OBVIOUS
  <2> HIDE DEF b
  <2>1. QED  BY <1>1, CountType
<1> HIDE DEF b
<1>3. 100 * Len(b) \in Nat \ {0}
  BY <1>1
<1>4. \A n \in Int : Round(n, 100 * Len(b)) \in Int
  BY <1>3, RoundType
<1>5. CountOf(b, "gmail") * (40 * 85 + 35 * 80 + 25 * 88)
      + CountOf(b, "calendar") * (40 * 82 + 35 * 84 + 25 * 90)
      + CountOf(b, "workflow_state") * (40 * 86 + 35 * 95 + 25 * 88) \in Int
  BY <1>2
<1>6. EvidenceQuality(b) \in Int
  BY <1>4, <1>5 DEF EvidenceQuality
<1>7. QED  BY <1>6 DEF Bundle, Evidence, b

\* Every source is of one connector.
LEMMA CountsAddUp ==
    ASSUME NEW found \in Seq(Sources)
    PROVE  CountOf(found, "gmail") + CountOf(found, "calendar") + CountOf(found, "workflow_state")
              = Len(found)
<1> DEFINE Of(type) == {i \in DOMAIN found : found[i].type = type}
           G == Of("gmail")  C == Of("calendar")  W == Of("workflow_state")
<1>1. DOMAIN found = 1..Len(found) /\ Len(found) \in Nat
  OBVIOUS
<1>2. \A i \in DOMAIN found : found[i].type \in {"gmail", "calendar", "workflow_state"}
  <2>1. \A i \in 1..Len(found) : found[i] \in Sources
    BY <1>1
  <2>2. \A s \in Sources : s.type \in {"gmail", "calendar", "workflow_state"}
    BY DEF Sources
  <2>3. QED  BY <1>1, <2>1, <2>2
<1>3. IsFiniteSet(1..Len(found)) /\ Cardinality(1..Len(found)) = Len(found)
  BY <1>1, FS_Interval
<1>4. G \subseteq 1..Len(found) /\ C \subseteq 1..Len(found) /\ W \subseteq 1..Len(found)
  BY <1>1
<1>5. IsFiniteSet(G) /\ IsFiniteSet(C) /\ IsFiniteSet(W)
  BY <1>3, <1>4, FS_Subset
<1>6. G \cup C \cup W = 1..Len(found)
  BY <1>1, <1>2
<1>7. G \cap C = {} /\ (G \cup C) \cap W = {}
  OBVIOUS
<1>8. CountOf(found, "gmail") = Cardinality(G) /\ CountOf(found, "calendar") = Cardinality(C)
      /\ CountOf(found, "workflow_state") = Cardinality(W)
  BY DEF CountOf
<1> HIDE DEF G, C, W
<1>9. /\ IsFiniteSet(G \cup C)
      /\ Cardinality(G \cup C) = Cardinality(G) + Cardinality(C) - Cardinality(G \cap C)
  BY <1>5, FS_Union
<1>10. Cardinality((G \cup C) \cup W)
          = Cardinality(G \cup C) + Cardinality(W) - Cardinality((G \cup C) \cap W)
  BY <1>5, <1>9, FS_Union
<1>11. Cardinality({}) = 0
  BY FS_EmptySet
<1>12. Cardinality(G) \in Nat /\ Cardinality(C) \in Nat /\ Cardinality(W) \in Nat
  BY <1>5, FS_CardinalityType
<1>13. Cardinality(G \cup C) = Cardinality(G) + Cardinality(C)
  <2>1. Cardinality(G \cap C) = 0
    BY <1>7, <1>11
  <2>2. QED  BY <1>9, <1>12, <2>1
<1>14. Len(found) = Cardinality(G \cup C) + Cardinality(W)
  <2>1. Cardinality((G \cup C) \cup W) = Len(found)
    BY <1>3, <1>6
  <2>2. Cardinality((G \cup C) \cap W) = 0
    BY <1>7, <1>11
  <2>3. Cardinality(G \cup C) \in Nat
    BY <1>12, <1>13
  <2>4. QED  BY <1>10, <1>12, <2>1, <2>2, <2>3
<1>15. QED  BY <1>8, <1>12, <1>13, <1>14

\* Between the weakest source's mark and the strongest's.
LEMMA QuotientBetween ==
    ASSUME NEW n \in Int, NEW d \in Nat \ {0}, 84 * d <= n, n < 91 * d
    PROVE  n \div d \in 84..90
<1>1. n \div d \in Int /\ d * (n \div d) <= n /\ n < d * (n \div d) + d
  OBVIOUS
<1>2. QED BY <1>1

LEMMA QualityBetween ==
    ASSUME NEW found \in Seq(Sources), Len(found) # 0
    PROVE  EvidenceQuality(found) \in 84..90
<1> DEFINE g == CountOf(found, "gmail")
           c == CountOf(found, "calendar")
           w == CountOf(found, "workflow_state")
           n == g * (40 * 85 + 35 * 80 + 25 * 88) + c * (40 * 82 + 35 * 84 + 25 * 90)
                + w * (40 * 86 + 35 * 95 + 25 * 88)
<1>1. g \in Nat /\ c \in Nat /\ w \in Nat
  BY CountType
<1>2. g + c + w = Len(found) /\ Len(found) \in Nat \ {0}
  BY CountsAddUp
<1>3. EvidenceQuality(found) = (2 * n + 100 * Len(found)) \div (2 * (100 * Len(found)))
  BY DEF EvidenceQuality, Round
<1> HIDE DEF g, c, w
<1>4. n = 8400 * g + 8470 * c + 8965 * w
  BY <1>1
<1> HIDE DEF n
<1>5. n \in Int /\ 8400 * Len(found) <= n /\ n <= 8965 * Len(found)
  BY <1>1, <1>2, <1>4
<1> DEFINE d == 2 * (100 * Len(found))
           m == 2 * n + 100 * Len(found)
<1>6. d \in Nat \ {0} /\ m \in Int /\ 84 * d <= m /\ m < 91 * d
  BY <1>2, <1>5
<1>7. EvidenceQuality(found) = m \div d
  BY <1>3
<1> HIDE DEF d, m
<1>8. QED  BY <1>6, <1>7, QuotientBetween

\* The quality gate never closes: no source is worth less than 84, so what is
\* found is never refused as "low_quality", and only contradictions are.
THEOREM QualityAlwaysSuffices ==
    ASSUME NEW found \in Seq(Sources), NEW x \in Excerpts, NEW t \in Tasks
    PROVE  LET b == Bundle(Brokered(found, x)) IN
           /\ b.quality \in 84..90
           /\ QualityErrors(t, b) \subseteq {"contradictions"}
<1> DEFINE b == Bundle(Brokered(found, x))
<1>1. b.quality = EvidenceQuality(Brokered(found, x))
  BY DEF Bundle
<1>2. b.quality \in 84..90
  BY <1>1, BrokeredType, QualityBetween
<1>3. ~ (b.quality < 70)
  BY <1>2
<1>4. QED  BY <1>2, <1>3 DEF QualityErrors

-----------------------------------------------------------------------------
(* The score and the choice *)

\* Round at a hundredth: q is the nearest, halves going up.
LEMMA RoundHundredth ==
    ASSUME NEW n \in Int
    PROVE  /\ Round(n, 100) \in Int
           /\ 200 * Round(n, 100) <= 2 * n + 100 /\ 2 * n + 100 < 200 * Round(n, 100) + 200
BY DEF Round

\* The weights of scoreCandidate add up to 92, and its first penalty is 22.
LEMMA RawBound ==
    ASSUME NEW c \in Candidate
    PROVE  /\ Raw(c) \in Int
           /\ Raw(c) <= 9200 - 22 * c.downsideRisk - 12 * c.ambiguity - 400 * c.contradictions
           /\ c.blockers => Raw(c) <= 7700
           /\ c.downsideRisk \in Nat /\ c.ambiguity \in Nat /\ c.contradictions \in Nat
<1>1. /\ c.goalFit \in 0..100 /\ c.evidenceQuality \in 0..100 /\ c.policyFit \in 0..100
      /\ c.expectedValue \in 0..100 /\ c.reversibility \in 0..100
      /\ c.downsideRisk \in Nat /\ c.ambiguity \in Nat /\ c.contradictions \in Nat
  BY DEF Candidate, Percent
<1>2. PICK g \in 0..100, q \in 0..100, f \in 0..100, v \in 0..100, w \in 0..100 :
        /\ g = c.goalFit /\ q = c.evidenceQuality /\ f = c.policyFit
        /\ v = c.expectedValue /\ w = c.reversibility
  BY <1>1
<1>3. PICK d \in Nat, m \in Nat, k \in Nat :
        d = c.downsideRisk /\ m = c.ambiguity /\ k = c.contradictions
  BY <1>1, Zenon
<1>4. PICK p \in Nat : p = IF c.blockers THEN 1500 ELSE 0
  OBVIOUS
<1> DEFINE n == 28 * g + 24 * q + 18 * f + 12 * v + 10 * w - 22 * d - 12 * m - 400 * k - p
<1>5. n \in Int /\ n <= 9200 - 22 * d - 12 * m - 400 * k /\ n <= 9200 - p
  OBVIOUS
<1>6. Raw(c) = n
  BY <1>2, <1>3, <1>4 DEF Raw
<1> HIDE DEF n
<1>7. c.blockers => n <= 7700
  <2>1. c.blockers => p = 1500
    BY <1>4
  <2>2. p = 1500 => n <= 7700
    BY <1>5
  <2>3. QED  BY <2>1, <2>2
<1>8. QED  BY <1>3, <1>5, <1>6, <1>7

LEMMA ScoreType == ASSUME NEW c \in Candidate  PROVE Score(c) \in 0..92
<1>1. Raw(c) \in Int /\ Raw(c) <= 9200
  BY RawBound
<1>2. CASE Raw(c) <= 0
  BY <1>2 DEF Score
<1>3. CASE Raw(c) > 0
  <2>1. Score(c) = Round(Raw(c), 100)
    BY <1>1, <1>3 DEF Score
  <2>2. /\ Round(Raw(c), 100) \in Int
        /\ 200 * Round(Raw(c), 100) <= 2 * Raw(c) + 100
        /\ 2 * Raw(c) + 100 < 200 * Round(Raw(c), 100) + 200
    BY <1>1, RoundHundredth
  <2>3. QED  BY <1>1, <1>3, <2>1, <2>2
<1>4. QED  BY <1>1, <1>2, <1>3

LEMMA HighScoreIsLowRisk ==
    ASSUME NEW c \in Candidate, Score(c) >= 85
    PROVE  /\ c.downsideRisk <= 34 /\ c.ambiguity <= 62
           /\ c.contradictions <= 1 /\ ~ c.blockers
<1>1. Raw(c) \in Int
  BY RawBound
<1>2. Score(c) = Round(Raw(c), 100)
  BY DEF Score
<1>3. Raw(c) >= 8450
  BY <1>1, <1>2, RoundHundredth
<1>4. QED  BY <1>1, <1>3, RawBound

\* A set of numbers has a least one.
LEMMA LeastOne ==
    ASSUME NEW T, T \subseteq Nat, T # {}
    PROVE  \E i \in T : \A j \in T : i <= j
<1> DEFINE Less == {p \in Nat \X Nat : p[1] < p[2]}
<1>1. IsWellFoundedOn(Less, Nat)
  BY NatLessThanWellFounded DEF OpToRel
<1> HIDE DEF Less
<1>2. PICK i \in T : \A j \in T : ~ (<<j, i>> \in Less)
  BY <1>1, WFMin
<1>3. \A j \in T : ~ (j < i)
  BY <1>2 DEF Less
<1>4. QED  BY <1>3

\* selectCandidate always chooses: of the best candidates, the first.
LEMMA TopIsBest ==
    ASSUME NEW plan \in Seq(Candidate), plan # <<>>
    PROVE  Top(plan) \in DOMAIN plan /\ Best(plan, Top(plan))
<1>1. DOMAIN plan = 1..Len(plan) /\ Len(plan) \in Nat \ {0}
      /\ \A i \in 1..Len(plan) : plan[i] \in Candidate
  OBVIOUS
<1>2. \A i \in DOMAIN plan : Score(plan[i]) \in 0..92
  BY <1>1, ScoreType
<1> DEFINE Lags == {100 - Score(plan[i]) : i \in DOMAIN plan}
<1>3. Lags \subseteq Nat /\ Lags # {}
  <2>1. ASSUME NEW i \in DOMAIN plan  PROVE 100 - Score(plan[i]) \in Nat
    <3>1. Score(plan[i]) \in 0..92
      BY <1>2
    <3>2. \A x \in 0..92 : 100 - x \in Nat
      OBVIOUS
    <3>3. QED  BY <3>1, <3>2, Zenon
  <2>2. 1 \in DOMAIN plan
    BY <1>1
  <2>3. QED  BY <2>1, <2>2
<1>4. PICK k \in DOMAIN plan : \A j \in DOMAIN plan : 100 - Score(plan[k]) <= 100 - Score(plan[j])
  <2>1. PICK x \in Lags : \A y \in Lags : x <= y
    BY <1>3, LeastOne
  <2>2. QED  BY <2>1
<1> DEFINE Bests == {i \in DOMAIN plan : Score(plan[i]) = Score(plan[k])}
<1>5. PICK i \in Bests : \A j \in Bests : i <= j
  <2>1. Bests \subseteq Nat /\ Bests # {}
    BY <1>1
  <2>2. QED  BY <2>1, LeastOne
<1>6. Best(plan, i)
  <2>1. i \in DOMAIN plan /\ Score(plan[i]) = Score(plan[k]) /\ Score(plan[k]) \in 0..92
    BY <1>2, <1>5
  <2>2. ASSUME NEW j \in DOMAIN plan  PROVE Score(plan[j]) <= Score(plan[i])
    <3> PICK x \in 0..92, y \in 0..92 : x = Score(plan[j]) /\ y = Score(plan[k])
      BY <1>2
    <3>1. 100 - y <= 100 - x
      BY <1>4
    <3>2. x <= y
      BY <3>1
    <3>3. QED  BY <2>1, <3>2
  <2>3. ASSUME NEW j \in 1..(i - 1)  PROVE Score(plan[j]) < Score(plan[i])
    <3>1. j \in DOMAIN plan /\ ~ (i <= j)
      BY <1>1, <2>1
    <3>2. Score(plan[j]) # Score(plan[i])
      BY <1>5, <2>1, <3>1
    <3> PICK x \in 0..92, y \in 0..92 : x = Score(plan[j]) /\ y = Score(plan[i])
      BY <1>2, <2>1, <3>1
    <3>3. x <= y /\ x # y
      BY <2>2, <3>1, <3>2
    <3>4. QED  BY <3>3
  <2>4. QED  BY <2>2, <2>3 DEF Best
<1>7. QED  BY <1>5, <1>6 DEF Top
LEMMA FallbackType == FallbackPlan \in Seq(Candidate) /\ Len(FallbackPlan) = 1
BY DEF FallbackPlan, Candidate, Percent

\* The fallback plan scores 65: an automatic write it proposes needs approval.
LEMMA FallbackNeedsApproval ==
    ASSUME NEW t \in Tasks, tier[t] = "A3_LOW_RISK_AUTO"
    PROVE  RequiresApproval(t, FallbackPlan, Top(FallbackPlan))
<1>1. Score(FallbackPlan[1]) = 65
  BY DEF Score, Raw, Round, FallbackPlan
<1>2. DOMAIN FallbackPlan = {1}
  BY DEF FallbackPlan
<1>3. Best(FallbackPlan, 1)
  BY <1>1, <1>2 DEF Best
<1>4. Top(FallbackPlan) = 1
  BY <1>2, <1>3 DEF Top
<1>5. QED  BY <1>1, <1>4 DEF RequiresApproval

LEMMA DoneIsLicensed ==
    ASSUME NEW t \in Tasks, NEW b \in Evidence, NEW plan \in Plans \cup {FallbackPlan}, NEW shadow \in BOOLEAN,
           Outcome(t, b, plan, shadow) = "done"
    PROVE  /\ tier[t] \notin {"A2_WRITE_APPROVED", "A4_IRREVERSIBLE"}
           /\ ~ b.contradicted
           /\ tier[t] = "A3_LOW_RISK_AUTO" => plan # FallbackPlan /\ AutoPlan(plan)
<1>1. Verified(t, b, plan[Top(plan)]) /\ ~ RequiresApproval(t, plan, Top(plan))
  BY DEF Outcome
<1>2. tier[t] = "A3_LOW_RISK_AUTO" => plan # FallbackPlan
  BY <1>1, FallbackNeedsApproval
<1>3. QED  BY <1>1, <1>2 DEF Verified, RequiresApproval, AutoPlan

LEMMA OutcomeType ==
    ASSUME NEW t, NEW b, NEW plan, NEW shadow
    PROVE  Outcome(t, b, plan, shadow) \in Outs \ {"none"}
BY DEF Outcome, Outs

-----------------------------------------------------------------------------
(* The steps *)

\* The record of an execution, one update at a time.
LEMMA NewType == New \in Call /\ Shape(New)
BY DEF New, Call, Outs, NoEvidence, Evidence, Shape
LEMMA PcType ==
    ASSUME NEW c \in Call,
           NEW x \in {"gmail", "calendar", "workflow", "planning", "deciding", "acting",
                      "tracing", "recording", "failing", "answered", "over"}
    PROVE  [c EXCEPT !.pc = x] \in Call
BY DEF Call
LEMMA ClaimType == ASSUME NEW t \in Tasks  PROVE [New EXCEPT !.pc = "gmail", !.task = t] \in Call
BY NewType DEF Call
LEMMA ClearedType ==
    ASSUME NEW c \in Call, NEW out \in Outs, NEW x \in {"tracing", "failing"}
    PROVE  Cleared(c, out, x) \in Call
BY NewType DEF Cleared, Call
LEMMA EmptyFound == <<>> \in Seq(Sources)
OBVIOUS
LEMMA RetryType ==
    ASSUME NEW c \in Call  PROVE [c EXCEPT !.found = <<>>, !.retried = TRUE, !.pc = "gmail"] \in Call
<1>1. \A s \in Seq(Sources) : [c EXCEPT !.found = s, !.retried = TRUE, !.pc = "gmail"] \in Call
  BY DEF Call
<1>2. QED  BY <1>1, EmptyFound
LEMMA FoundType ==
    ASSUME NEW c \in Call, NEW items \in Seq(Sources), NEW x \in {"calendar", "workflow"}
    PROVE  [c EXCEPT !.found = @ \o items, !.pc = x] \in Call
<1>1. c.found \o items \in Seq(Sources)
  BY DEF Call
<1>2. QED  BY <1>1 DEF Call
LEMMA EvidenceType ==
    ASSUME NEW c \in Call, NEW b \in Evidence
    PROVE  [c EXCEPT !.found = <<>>, !.evidence = b, !.pc = "planning"] \in Call
<1>1. \A s \in Seq(Sources) : [c EXCEPT !.found = s, !.evidence = b, !.pc = "planning"] \in Call
  BY DEF Call
<1>2. QED  BY <1>1, EmptyFound
LEMMA PlanType ==
    ASSUME NEW c \in Call, NEW plan \in Seq(Candidate)
    PROVE  [c EXCEPT !.plan = plan, !.pc = "deciding"] \in Call
BY DEF Call
LEMMA DoneType ==
    ASSUME NEW c \in Call, NEW out \in Outs
    PROVE  [c EXCEPT !.out = out, !.pc = "acting"] \in Call
BY DEF Call
LEMMA ActedType ==
    ASSUME NEW c \in Call  PROVE [c EXCEPT !.acted = TRUE, !.pc = "tracing"] \in Call
BY DEF Call

LEMMA RecordType ==
    ASSUME TypeOK, NEW t \in Tasks, NEW x \in {"in_progress", "completed", "failed"},
           NEW r \in Executions \cup {None}
    PROVE  [record EXCEPT ![t] = [status |-> x, result |-> r]]
               \in [Tasks -> [status : {"absent", "in_progress", "completed", "failed"},
                              result : Executions \cup {None}]]
BY DEF TypeOK

\* A step of a running execution that leaves the claim and the result alone.
LEMMA Progress ==
    ASSUME IInv, NEW e \in Executions, NEW c \in Call, call' = [call EXCEPT ![e] = c],
           Running(call[e]), call[e].pc # "failing", Running(c), c.task = call[e].task, Shape(c),
           c.acted \/ c.pc = "acting" => Licensed(e)',
           c.pc = "recording" /\ c.out = "done" => e \in traced',
           c.acted /\ c.pc = "failing" => c.task \in disturbed',
           traced \subseteq traced', traced' \subseteq Executions,
           disturbed \subseteq disturbed', disturbed' \subseteq Tasks,
           UNCHANGED <<tier, record, stale, told>>
    PROVE  IInv'
<1> USE DEF IInv
<1>1. call[e] \in Call /\ call'[e] = c /\ \A f \in Executions \ {e} : call'[f] = call[f]
  BY DEF TypeOK
<1>2. TypeOK'
  BY DEF TypeOK
<1>3. CallInv'
  <2> SUFFICES ASSUME NEW f \in Executions
               PROVE  /\ Shape(call[f])'
                      /\ (call[f].acted \/ call[f].pc = "acting" => Licensed(f))'
                      /\ (call[f].pc \in {"recording", "answered"} /\ call[f].out = "done"
                             => f \in traced)'
                      /\ (call[f].acted /\ call[f].pc \in {"failing", "over"}
                             => call[f].task \in disturbed)'
    BY DEF CallInv
  <2>1. CASE f = e
    BY <1>1, <2>1 DEF Shape, Running
  <2>2. CASE f # e
    <3>1. call'[f] = call[f] /\ tier' = tier
      BY <1>1, <2>2
    <3>2. Licensed(f) => Licensed(f)'
      BY <3>1 DEF Licensed
    <3>3. QED  BY <3>1, <3>2 DEF CallInv, Shape
  <2>3. QED  BY <2>1, <2>2
<1>4. \A f \in Executions : Landed(f) => f # e /\ Landed(f)'
  BY <1>1 DEF Landed, Running
<1>5. RecordInv'
  BY <1>1, <1>4 DEF RecordInv
<1>6. ToldInv'
  BY <1>1, <1>4 DEF ToldInv, TypeOK
<1>7. \A f \in Executions, t \in Tasks : Holds(f, t)' <=> Holds(f, t)
  BY <1>1 DEF Holds, Running
<1>8. \A f \in Executions : /\ call'[f].task = call[f].task
                            /\ call'[f].pc = "answered" <=> call[f].pc = "answered"
  BY <1>1 DEF Running
<1>9. QuietInv'
  <2> SUFFICES ASSUME NEW t \in Tasks, t \notin disturbed'  PROVE Quiet(t)'
    BY DEF QuietInv
  <2>1. Quiet(t)
    BY DEF QuietInv
  <2>2. QED  BY <1>7, <1>8, <2>1 DEF Quiet
<1>10. QED  BY <1>2, <1>3, <1>5, <1>6, <1>9

LEMMA InitInv == Init => IInv
<1> SUFFICES ASSUME Init  PROVE IInv
  OBVIOUS
<1>1. \A e \in Executions : call[e] = New
  BY DEF Init
<1>2. New.pc = "new" /\ New.task = None /\ New.out = "none" /\ ~ New.acted
  BY DEF New
<1>3. TypeOK
  BY NewType DEF Init, TypeOK
<1>4. CallInv
  BY <1>1, <1>2, NewType DEF CallInv
<1>5. RecordInv /\ ToldInv
  BY DEF Init, RecordInv, ToldInv
<1>6. QuietInv
  BY <1>1, <1>2, TaskRunnerAssumption DEF QuietInv, Quiet, Holds, Init
<1>7. QED  BY <1>3, <1>4, <1>5, <1>6 DEF IInv

LEMMA BeginInv ==
    ASSUME IInv, NEW e \in Executions, NEW t \in Tasks, Begin(e, t)  PROVE IInv'
<1> USE DEF IInv
<1> PICK c : c = [New EXCEPT !.pc = "gmail", !.task = t]
  OBVIOUS
<1>1. c \in Call /\ c.pc = "gmail" /\ c.task = t /\ ~ c.acted /\ c.out = "none"
  BY ClaimType DEF New
<1>2. call' = [call EXCEPT ![e] = c] /\ call'[e] = c /\ \A f \in Executions \ {e} : call'[f] = call[f]
  BY DEF Begin, TypeOK
<1>3. record' = [record EXCEPT ![t] = [status |-> "in_progress", result |-> None]]
  BY DEF Begin
<1>4. TypeOK'
  BY <1>1, <1>2, <1>3, RecordType DEF TypeOK, Begin
<1>5. UNCHANGED <<tier, traced, told, disturbed>> /\ stale' = stale \ {t} /\ call[e].pc = "new"
  BY DEF Begin
<1>6. CallInv'
  <2> SUFFICES ASSUME NEW f \in Executions
               PROVE  /\ Shape(call[f])'
                      /\ (call[f].acted \/ call[f].pc = "acting" => Licensed(f))'
                      /\ (call[f].pc \in {"recording", "answered"} /\ call[f].out = "done"
                             => f \in traced)'
                      /\ (call[f].acted /\ call[f].pc \in {"failing", "over"}
                             => call[f].task \in disturbed)'
    BY DEF CallInv
  <2>1. CASE f = e
    BY <1>1, <1>2, <2>1 DEF Shape
  <2>2. CASE f # e
    <3>1. Licensed(f) => Licensed(f)'
      BY <1>2, <1>5, <2>2 DEF Licensed
    <3>2. QED  BY <1>2, <1>5, <2>2, <3>1 DEF CallInv, Shape
  <2>3. QED  BY <2>1, <2>2
<1>7. \A f \in Executions : Landed(f) => f # e /\ Landed(f)'
  BY <1>2, <1>5 DEF Landed
<1>8. RecordInv'
  <2>1. \A u \in Tasks : record'[u].status = "completed" => u # t /\ record'[u] = record[u]
    BY <1>3 DEF TypeOK
  <2>2. QED  BY <1>2, <1>7, <2>1 DEF RecordInv
<1>9. ToldInv'
  BY <1>2, <1>5, <1>7 DEF ToldInv, TypeOK
<1>10. QuietInv'
  <2> SUFFICES ASSUME NEW u \in Tasks, u \notin disturbed'  PROVE Quiet(u)'
    BY DEF QuietInv
  <2>1. Quiet(u)
    BY <1>5 DEF QuietInv
  <2>2. CASE u = t
    <3>1. MayClaim(t)
      BY DEF Begin
    <3>2. \A f \in Executions : ~ Holds(f, t)
      BY <2>1, <2>2, <3>1 DEF Quiet, MayClaim
    <3>3. \A f \in Executions : call[f].task = t => f \notin told /\ call[f].pc # "answered"
      BY <2>1, <2>2, <3>1 DEF Quiet, MayClaim
    <3>4. e \notin told
      BY <1>5 DEF ToldInv, Landed
    <3>5. record'[t].status = "in_progress" /\ t \notin stale'
      BY <1>3, <1>5 DEF TypeOK
    <3>6. \A f \in Executions \ {e} : ~ Holds(f, t)'
      BY <1>2, <3>2 DEF Holds
    <3>7. QED  BY <1>1, <1>2, <1>5, <2>2, <3>3, <3>4, <3>5, <3>6 DEF Quiet
  <2>3. CASE u # t
    <3>1. record'[u] = record[u] /\ (u \in stale' <=> u \in stale) /\ ~ Holds(e, u)'
      BY <1>1, <1>2, <1>3, <1>5, <2>3 DEF Holds, TypeOK
    <3>2. \A f \in Executions \ {e} : Holds(f, u)' <=> Holds(f, u)
      BY <1>2 DEF Holds
    <3>3. call'[e].task # u
      BY <1>1, <1>2, <2>3
    <3>4. QED  BY <1>2, <1>5, <2>1, <3>1, <3>2, <3>3 DEF Quiet
  <2>4. QED  BY <2>2, <2>3
<1>11. QED  BY <1>4, <1>6, <1>8, <1>9, <1>10

\* A retry, or the end of the execution in failure.
LEMMA FailsInv ==
    ASSUME IInv, NEW e \in Executions, NEW error, Fails(e, error),
           call[e].pc \in {"gmail", "calendar", "workflow"},
           UNCHANGED <<tier, record, stale, traced, told, disturbed>>
    PROVE  IInv'
<1>1. call[e] \in Call /\ Shape(call[e]) /\ ~ call[e].acted
  BY DEF IInv, TypeOK, CallInv, Shape
<1>2. CASE HandleFailure(error) = "retry" /\ ~ call[e].retried
  <2> PICK c : c = [call[e] EXCEPT !.found = <<>>, !.retried = TRUE, !.pc = "gmail"]
    OBVIOUS
  <2>1. c \in Call /\ call' = [call EXCEPT ![e] = c]
    BY <1>1, <1>2, RetryType DEF Fails
  <2>2. c.pc = "gmail" /\ c.task = call[e].task /\ ~ c.acted /\ c.out = call[e].out
    BY <1>1 DEF Call
  <2>3. Shape(c)
    BY <1>1, <2>2 DEF Shape
  <2>4. QED  BY <2>1, <2>2, <2>3, Progress DEF Running, IInv, TypeOK
<1>3. CASE ~ (HandleFailure(error) = "retry" /\ ~ call[e].retried)
  <2> PICK c : c = Cleared(call[e], "none", "failing")
    OBVIOUS
  <2>1. c \in Call /\ call' = [call EXCEPT ![e] = c]
    BY <1>1, <1>3, ClearedType DEF Fails, Outs
  <2>2. c.pc = "failing" /\ c.task = call[e].task /\ ~ c.acted /\ c.out = "none"
    BY DEF Cleared, New
  <2>3. Shape(c)
    BY <1>1, <2>2 DEF Shape
  <2>4. QED  BY <2>1, <2>2, <2>3, Progress DEF Running, IInv, TypeOK
<1>4. QED  BY <1>2, <1>3

LEMMA ItemsType ==
    ASSUME NEW type \in {"gmail", "calendar"}, NEW items \in Items(type)
    PROVE  items \in Seq(Sources)
<1>1. PICK n \in 0..MaxItems : items \in [1..n -> [type : {type}, title : Titles, excerpt : Excerpts]]
  BY DEF Items
<1>2. n \in Nat /\ [type : {type}, title : Titles, excerpt : Excerpts] \subseteq Sources
  BY TaskRunnerAssumption DEF Sources
<1>3. items \in [1..n -> Sources]
  BY <1>1, <1>2
<1>4. QED  BY <1>2, <1>3

LEMMA ConnectorInv ==
    ASSUME IInv, NEW e \in Executions, NEW type \in {"gmail", "calendar"},
           NEW next \in {"calendar", "workflow"}, Connector(e, type, next),
           call[e].pc \in {"gmail", "calendar"},
           UNCHANGED <<tier, record, stale, traced, told, disturbed>>
    PROVE  IInv'
<1>1. call[e] \in Call /\ Shape(call[e]) /\ ~ call[e].acted
  BY DEF IInv, TypeOK, CallInv, Shape
<1>2. CASE ~ Configured
  <2> PICK c : c = [call[e] EXCEPT !.pc = next]
    OBVIOUS
  <2>1. c \in Call /\ call' = [call EXCEPT ![e] = c]
    <3>1. c \in Call
      BY <1>1, PcType
    <3>2. QED  BY <1>2, <3>1 DEF Connector, Goes
  <2>2. c.pc = next /\ c.task = call[e].task /\ ~ c.acted /\ c.out = call[e].out
    BY <1>1 DEF Call
  <2>3. Shape(c)
    BY <1>1, <2>2 DEF Shape
  <2>4. QED  BY <2>1, <2>2, <2>3, Progress DEF Running, IInv, TypeOK
<1>3. CASE \E error : Fails(e, error)
  BY <1>3, FailsInv
<1>4. CASE \E items \in Items(type) : call' = [call EXCEPT ![e].found = @ \o items, ![e].pc = next]
  <2> PICK items \in Items(type) : call' = [call EXCEPT ![e].found = @ \o items, ![e].pc = next]
    BY <1>4
  <2> PICK c : c = [call[e] EXCEPT !.found = @ \o items, !.pc = next]
    OBVIOUS
  <2>1. c \in Call
    BY <1>1, ItemsType, FoundType
  <2>2. call' = [call EXCEPT ![e] = c]
    BY DEF IInv, TypeOK
  <2>3. c.pc = next /\ c.task = call[e].task /\ ~ c.acted /\ c.out = call[e].out
    BY <1>1 DEF Call
  <2>4. Shape(c)
    BY <1>1, <2>3 DEF Shape
  <2>5. QED  BY <2>1, <2>2, <2>3, <2>4, Progress DEF Running, IInv, TypeOK
<1>5. QED
  <2>1. Configured => (\E error : Fails(e, error))
                      \/ \E items \in Items(type) : call' = [call EXCEPT ![e].found = @ \o items, ![e].pc = next]
    BY DEF Connector
  <2>2. QED  BY <1>2, <1>3, <1>4, <2>1

LEMMA WorkflowInv ==
    ASSUME IInv, NEW e \in Executions, Workflow(e)  PROVE IInv'
<1>1. call[e] \in Call /\ Shape(call[e]) /\ ~ call[e].acted
  BY DEF IInv, TypeOK, CallInv, Shape, Workflow
<1>2. UNCHANGED <<tier, record, stale, traced, told, disturbed>> /\ call[e].pc = "workflow"
  BY DEF Workflow
<1>3. CASE \E error : Fails(e, error)
  BY <1>2, <1>3, FailsInv
<1>4. CASE \E x \in Excerpts :
              call' = [call EXCEPT ![e].found = <<>>, ![e].evidence = Bundle(Brokered(call[e].found, x)),
                                   ![e].pc = "planning"]
  <2> PICK x \in Excerpts :
            call' = [call EXCEPT ![e].found = <<>>, ![e].evidence = Bundle(Brokered(call[e].found, x)),
                                 ![e].pc = "planning"]
    BY <1>4
  <2> PICK b : b = Bundle(Brokered(call[e].found, x))
    OBVIOUS
  <2>1. b \in Evidence
    BY <1>1, BundleType DEF Call
  <2> PICK c : c = [call[e] EXCEPT !.found = <<>>, !.evidence = b, !.pc = "planning"]
    OBVIOUS
  <2>2. c \in Call
    BY <1>1, <2>1, EvidenceType
  <2>3. call' = [call EXCEPT ![e] = c]
    BY DEF IInv, TypeOK
  <2>4. c.pc = "planning" /\ c.task = call[e].task /\ ~ c.acted /\ c.out = call[e].out
    BY <1>1 DEF Call
  <2>5. Shape(c)
    BY <1>1, <1>2, <2>4 DEF Shape
  <2>6. QED  BY <1>2, <2>2, <2>3, <2>4, <2>5, Progress DEF Running, IInv, TypeOK
<1>5. QED  BY <1>3, <1>4 DEF Workflow

LEMMA PlanInv == ASSUME IInv, NEW e \in Executions, Plan(e)  PROVE IInv'
<1>1. call[e] \in Call /\ Shape(call[e]) /\ ~ call[e].acted
  BY DEF IInv, TypeOK, CallInv, Shape, Plan
<1>2. UNCHANGED <<tier, record, stale, traced, told, disturbed>> /\ call[e].pc = "planning"
  BY DEF Plan
<1> PICK plan \in Plans \cup {FallbackPlan} :
          call' = [call EXCEPT ![e].plan = plan, ![e].pc = "deciding"]
  BY DEF Plan
<1>3. plan \in Seq(Candidate)
  BY TaskRunnerAssumption, FallbackType
<1> PICK c : c = [call[e] EXCEPT !.plan = plan, !.pc = "deciding"]
  OBVIOUS
<1>4. c \in Call
  BY <1>1, <1>3, PlanType
<1>5. call' = [call EXCEPT ![e] = c]
  BY DEF IInv, TypeOK
<1>6. c.pc = "deciding" /\ c.task = call[e].task /\ ~ c.acted /\ c.plan = plan
  BY <1>1 DEF Call
<1>7. Shape(c)
  BY <1>1, <1>2, <1>6 DEF Shape
<1>8. QED  BY <1>2, <1>4, <1>5, <1>6, <1>7, Progress DEF Running, IInv, TypeOK

LEMMA DecideInv == ASSUME IInv, NEW e \in Executions, Decide(e)  PROVE IInv'
<1>1. call[e] \in Call /\ Shape(call[e]) /\ ~ call[e].acted /\ call[e].task \in Tasks
  BY DEF IInv, TypeOK, CallInv, Shape, Decide
<1>2. UNCHANGED <<tier, record, stale, traced, told, disturbed>> /\ call[e].pc = "deciding"
  BY DEF Decide
<1> PICK shadow \in BOOLEAN : \E out :
        /\ out = Outcome(call[e].task, call[e].evidence, call[e].plan, shadow)
        /\ call' = [call EXCEPT ![e] = IF out = "done" THEN [@ EXCEPT !.out = out, !.pc = "acting"]
                                       ELSE Cleared(@, out, "tracing")]
  BY DEF Decide
<1> PICK out :
        /\ out = Outcome(call[e].task, call[e].evidence, call[e].plan, shadow)
        /\ call' = [call EXCEPT ![e] = IF out = "done" THEN [@ EXCEPT !.out = out, !.pc = "acting"]
                                       ELSE Cleared(@, out, "tracing")]
  OBVIOUS
<1>3. out \in Outs \ {"none"}
  BY OutcomeType
<1>4. CASE out = "done"
  <2> PICK c : c = [call[e] EXCEPT !.out = out, !.pc = "acting"]
    OBVIOUS
  <2>1. c \in Call
    BY <1>1, <1>3, DoneType
  <2>2. call' = [call EXCEPT ![e] = c]
    BY <1>4 DEF IInv, TypeOK
  <2>3. /\ c.pc = "acting" /\ c.task = call[e].task /\ ~ c.acted /\ c.out = "done"
        /\ c.evidence = call[e].evidence /\ c.plan = call[e].plan
    BY <1>1, <1>4 DEF Call
  <2>4. Shape(c)
    BY <1>1, <2>3 DEF Shape
  <2>5. /\ tier[c.task] \notin {"A2_WRITE_APPROVED", "A4_IRREVERSIBLE"}
        /\ ~ c.evidence.contradicted
        /\ tier[c.task] = "A3_LOW_RISK_AUTO" => c.plan # FallbackPlan /\ AutoPlan(c.plan)
    <3>1. call[e].evidence \in Evidence /\ call[e].plan \in Plans \cup {FallbackPlan}
      BY <1>1, <1>2 DEF Call, Shape
    <3>2. Outcome(call[e].task, call[e].evidence, call[e].plan, shadow) = "done"
      BY <1>4
    <3>3. QED  BY <1>1, <2>3, <3>1, <3>2, DoneIsLicensed
  <2>6. call'[e] = c /\ tier' = tier
    BY <1>2, <2>2 DEF IInv, TypeOK
  <2>7. Licensed(e)'
    BY <2>5, <2>6 DEF Licensed
  <2>8. QED  BY <1>2, <2>1, <2>2, <2>3, <2>4, <2>7, Progress DEF Running, IInv, TypeOK
<1>5. CASE out # "done"
  <2> PICK c : c = Cleared(call[e], out, "tracing")
    OBVIOUS
  <2>1. c \in Call
    BY <1>1, <1>3, ClearedType
  <2>2. call' = [call EXCEPT ![e] = c]
    BY <1>5 DEF IInv, TypeOK
  <2>3. c.pc = "tracing" /\ c.task = call[e].task /\ ~ c.acted /\ c.out = out
    BY DEF Cleared, New
  <2>4. Shape(c)
    BY <1>1, <1>5, <2>3 DEF Shape
  <2>5. QED  BY <1>2, <1>5, <2>1, <2>2, <2>3, <2>4, Progress DEF Running, IInv, TypeOK
<1>6. QED  BY <1>4, <1>5

LEMMA ExecuteInv == ASSUME IInv, NEW e \in Executions, Execute(e)  PROVE IInv'
<1>1. call[e] \in Call /\ Shape(call[e]) /\ Licensed(e) /\ call[e].out = "done"
  BY DEF IInv, TypeOK, CallInv, Execute, Shape
<1>2. UNCHANGED <<tier, record, stale, traced, told, disturbed>> /\ call[e].pc = "acting"
  BY DEF Execute
<1> PICK c : c = [call[e] EXCEPT !.acted = TRUE, !.pc = "tracing"]
  OBVIOUS
<1>3. c \in Call
  BY <1>1, ActedType
<1>4. call' = [call EXCEPT ![e] = c] /\ call'[e] = c
  BY DEF Execute, IInv, TypeOK
<1>5. /\ c.pc = "tracing" /\ c.task = call[e].task /\ c.acted /\ c.out = "done"
      /\ c.evidence = call[e].evidence /\ c.plan = call[e].plan
  BY <1>1 DEF Call
<1>6. Shape(c)
  BY <1>1, <1>2, <1>5 DEF Shape
<1>7. Licensed(e)'
  BY <1>1, <1>2, <1>4, <1>5 DEF Licensed
<1>8. QED  BY <1>2, <1>3, <1>4, <1>5, <1>6, <1>7, Progress DEF Running, IInv, TypeOK

\* Only its place changes.
LEMMA GoesRecord ==
    ASSUME IInv, NEW e \in Executions, Goes(e, "recording") \/ Goes(e, "failing")
                 \/ Goes(e, "answered") \/ Goes(e, "over"), tier' = tier
    PROVE  \E c \in Call :
             /\ call' = [call EXCEPT ![e] = c]
             /\ call'[e] = c /\ \A f \in Executions \ {e} : call'[f] = call[f]
             /\ c.task = call[e].task /\ c.acted = call[e].acted /\ c.out = call[e].out
             /\ c.evidence = call[e].evidence /\ c.plan = call[e].plan
             /\ Licensed(e)' = Licensed(e)
             /\ (Goes(e, "recording") => c.pc = "recording") /\ (Goes(e, "failing") => c.pc = "failing")
             /\ (Goes(e, "answered") => c.pc = "answered") /\ (Goes(e, "over") => c.pc = "over")
<1>1. call[e] \in Call
  BY DEF IInv, TypeOK
<1>2. ASSUME NEW x \in {"recording", "failing", "answered", "over"}, Goes(e, x)
      PROVE  \E c \in Call :
               /\ c = [call[e] EXCEPT !.pc = x] /\ call' = [call EXCEPT ![e] = c]
               /\ call'[e] = c /\ \A f \in Executions \ {e} : call'[f] = call[f]
               /\ c.task = call[e].task /\ c.acted = call[e].acted /\ c.out = call[e].out
               /\ c.evidence = call[e].evidence /\ c.plan = call[e].plan /\ c.pc = x
  <2> PICK c : c = [call[e] EXCEPT !.pc = x]
    OBVIOUS
  <2>1. c \in Call
    BY <1>1, PcType
  <2>2. call' = [call EXCEPT ![e] = c] /\ call'[e] = c /\ \A f \in Executions \ {e} : call'[f] = call[f]
    BY <1>2 DEF Goes, IInv, TypeOK
  <2>3. /\ c.task = call[e].task /\ c.acted = call[e].acted /\ c.out = call[e].out
        /\ c.evidence = call[e].evidence /\ c.plan = call[e].plan /\ c.pc = x
    BY <1>1 DEF Call
  <2>4. QED  BY <2>1, <2>2, <2>3
<1>3. ASSUME NEW x \in {"recording", "failing", "answered", "over"}, NEW y, Goes(e, x), Goes(e, y)
      PROVE  x = y
  BY <1>1, <1>3 DEF Goes, IInv, TypeOK, Call
<1>4. PICK x \in {"recording", "failing", "answered", "over"} : Goes(e, x)
  OBVIOUS
<1>5. PICK c \in Call :
               /\ c = [call[e] EXCEPT !.pc = x] /\ call' = [call EXCEPT ![e] = c]
               /\ call'[e] = c /\ \A f \in Executions \ {e} : call'[f] = call[f]
               /\ c.task = call[e].task /\ c.acted = call[e].acted /\ c.out = call[e].out
               /\ c.evidence = call[e].evidence /\ c.plan = call[e].plan /\ c.pc = x
  BY <1>2, <1>4
<1>6. Licensed(e)' = Licensed(e)
  BY <1>5 DEF Licensed
<1>7. /\ (Goes(e, "recording") => x = "recording") /\ (Goes(e, "failing") => x = "failing")
      /\ (Goes(e, "answered") => x = "answered") /\ (Goes(e, "over") => x = "over")
  BY <1>3, <1>4
<1>8. QED  BY <1>5, <1>6, <1>7

LEMMA PersistTraceInv == ASSUME IInv, NEW e \in Executions, PersistTrace(e)  PROVE IInv'
<1>1. Shape(call[e]) /\ call[e].pc = "tracing" /\ traced \subseteq Executions
  BY DEF IInv, TypeOK, CallInv, PersistTrace
<1>2. /\ UNCHANGED <<tier, record, stale, told, disturbed>> /\ Goes(e, "recording")
      /\ traced' = IF call[e].out = "done" THEN traced \cup {e} ELSE traced
  BY DEF PersistTrace, Durable
<1>3. PICK c \in Call :
         /\ call' = [call EXCEPT ![e] = c] /\ c.task = call[e].task /\ c.acted = call[e].acted
         /\ c.out = call[e].out /\ Licensed(e)' = Licensed(e) /\ c.pc = "recording"
  BY <1>2, GoesRecord
<1>4. Shape(c) /\ (c.acted => Licensed(e))
  BY <1>1, <1>3 DEF Shape, IInv, CallInv
<1>5. QED  BY <1>1, <1>2, <1>3, <1>4, Progress DEF Running, IInv, TypeOK

LEMMA ThrowInv == ASSUME IInv, NEW e \in Executions, Throw(e)  PROVE IInv'
<1>1. /\ Shape(call[e]) /\ call[e].pc \in {"recording", "tracing"} /\ call[e].task \in Tasks
      /\ disturbed \subseteq Tasks /\ traced \subseteq Executions
  BY DEF IInv, TypeOK, CallInv, Throw, Shape
<1>2. /\ UNCHANGED <<tier, record, stale, traced, told>> /\ Goes(e, "failing")
      /\ disturbed' = disturbed \cup {t \in {call[e].task} : call[e].acted}
  BY DEF Throw, Disturbs
<1>3. PICK c \in Call :
         /\ call' = [call EXCEPT ![e] = c] /\ c.task = call[e].task /\ c.acted = call[e].acted
         /\ c.out = call[e].out /\ Licensed(e)' = Licensed(e) /\ c.pc = "failing"
  BY <1>2, GoesRecord
<1>4. Shape(c) /\ (c.acted => Licensed(e))
  BY <1>1, <1>3 DEF Shape, IInv, CallInv
<1>5. /\ disturbed \subseteq disturbed' /\ disturbed' \subseteq Tasks
      /\ c.acted => c.task \in disturbed'
  BY <1>1, <1>2, <1>3
<1>6. QED  BY <1>1, <1>2, <1>3, <1>4, <1>5, Progress DEF Running

\* What holds of every execution but the one that moves.
LEMMA Others ==
    ASSUME IInv, NEW e \in Executions, NEW c \in Call, call'[e] = c,
           \A f \in Executions \ {e} : call'[f] = call[f], tier' = tier,
           c.task = call[e].task, Shape(c), c.acted \/ c.pc = "acting" => Licensed(e)',
           c.pc \in {"recording", "answered"} /\ c.out = "done" => e \in traced,
           c.acted /\ c.pc \in {"failing", "over"} => c.task \in disturbed',
           traced' = traced, disturbed \subseteq disturbed'
    PROVE  CallInv'
<1> SUFFICES ASSUME NEW f \in Executions
             PROVE  /\ Shape(call[f])'
                    /\ (call[f].acted \/ call[f].pc = "acting" => Licensed(f))'
                    /\ (call[f].pc \in {"recording", "answered"} /\ call[f].out = "done"
                           => f \in traced)'
                    /\ (call[f].acted /\ call[f].pc \in {"failing", "over"}
                           => call[f].task \in disturbed)'
  BY DEF CallInv
<1>1. CASE f = e
  BY <1>1 DEF Shape
<1>2. CASE f # e
  <2>1. Licensed(f) => Licensed(f)'
    BY <1>2 DEF Licensed
  <2>2. QED  BY <1>2, <2>1 DEF CallInv, Shape, IInv
<1>3. QED  BY <1>1, <1>2

\* The result lands: acknowledged and answered, or lost and bound to fail.
LEMMA RecordResultInv ==
    ASSUME IInv, NEW e \in Executions, RecordResult(e) \/ RecordResultLost(e)  PROVE IInv'
<1> USE DEF IInv
<1> PICK t : t = call[e].task
  OBVIOUS
<1>1. /\ Shape(call[e]) /\ call[e].pc = "recording" /\ t \in Tasks
      /\ call[e].out = "done" => call[e].acted /\ e \in traced
  BY DEF TypeOK, CallInv, RecordResult, RecordResultLost, Shape
<1>2. /\ UNCHANGED <<tier, stale, traced>>
      /\ record' = [record EXCEPT ![t] = [status |-> "completed", result |-> e]]
  BY DEF RecordResult, RecordResultLost, Complete
<1>3. \/ Goes(e, "answered") /\ told' = told \cup {e} /\ disturbed' = disturbed
      \/ Goes(e, "failing") /\ told' = told /\ disturbed' = disturbed \cup {t}
  BY DEF RecordResult, RecordResultLost
<1>4. PICK c \in Call :
         /\ call' = [call EXCEPT ![e] = c] /\ call'[e] = c
         /\ \A f \in Executions \ {e} : call'[f] = call[f]
         /\ c.task = t /\ c.acted = call[e].acted
         /\ c.out = call[e].out /\ Licensed(e)' = Licensed(e)
         /\ (Goes(e, "answered") => c.pc = "answered") /\ (Goes(e, "failing") => c.pc = "failing")
  BY <1>2, <1>3, GoesRecord
<1>5. Shape(c) /\ (c.acted => Licensed(e)) /\ c.pc \in {"answered", "failing"}
  BY <1>1, <1>3, <1>4 DEF Shape, CallInv
<1>6. TypeOK'
  BY <1>1, <1>2, <1>3, <1>4, RecordType DEF TypeOK
<1>7. CallInv'
  BY <1>1, <1>2, <1>3, <1>4, <1>5, Others
<1>8. \A f \in Executions : Landed(f) => Landed(f)'
  BY <1>1, <1>2, <1>4 DEF Landed
<1>9. Landed(e)'
  BY <1>1, <1>2, <1>4, <1>5 DEF Landed
<1>10. \A f \in Executions : call'[f].task = call[f].task
  BY <1>4
<1>11. RecordInv'
  <2> SUFFICES ASSUME NEW u \in Tasks, record'[u].status = "completed"
               PROVE  (/\ record[u].result \in Executions
                       /\ Landed(record[u].result) /\ call[record[u].result].task = u)'
    BY DEF RecordInv
  <2>1. CASE u = t
    <3>1. record'[u].result = e
      BY <1>1, <1>2, <2>1 DEF TypeOK
    <3>2. QED  BY <1>4, <1>9, <2>1, <3>1 DEF Landed
  <2>2. CASE u # t
    <3>1. record'[u] = record[u]
      BY <1>2, <2>2 DEF TypeOK
    <3>2. QED  BY <1>8, <1>10, <3>1 DEF RecordInv, Landed
  <2>3. QED  BY <2>1, <2>2
<1>12. ToldInv'
  <2>1. told' \subseteq told \cup {e} /\ told \subseteq Executions
    BY <1>3 DEF TypeOK
  <2>2. QED  BY <1>1, <1>4, <1>8, <1>9, <1>10, <2>1 DEF ToldInv
<1>13. QuietInv'
  <2> SUFFICES ASSUME NEW u \in Tasks, u \notin disturbed'  PROVE Quiet(u)'
    BY DEF QuietInv
  <2>1. Quiet(u)
    BY <1>3 DEF QuietInv
  <2>2. CASE u = t
    <3>1. Goes(e, "answered") /\ told' = told \cup {e} /\ c.pc = "answered"
      BY <1>3, <1>4, <2>2
    <3>2. Holds(e, t) /\ record[t].status = "in_progress" /\ \A f \in Executions : Holds(f, t) => f = e
      BY <1>1, <2>1, <2>2 DEF Quiet, Holds
    <3>3. \A f \in Executions \ {e} : /\ Holds(f, t)' <=> Holds(f, t)
                                      /\ f \in told' <=> f \in told
      BY <1>4, <3>1 DEF Holds
    <3>4. ~ Holds(e, t)'
      BY <1>4, <3>1 DEF Holds
    <3>5. \A f \in Executions : ~ Holds(f, t)'
      BY <3>2, <3>3, <3>4
    <3>6. \A f \in Executions \ {e} : call'[f].task = t => f \notin told' /\ call'[f].pc # "answered"
      BY <1>4, <2>1, <2>2, <3>2, <3>3 DEF Quiet
    <3>7. record'[t].status = "completed" /\ record'[t].result = e
      BY <1>1, <1>2 DEF TypeOK
    <3>8. QED  BY <2>2, <3>5, <3>6, <3>7 DEF Quiet
  <2>3. CASE u # t
    <3>1. record'[u] = record[u] /\ (u \in stale' <=> u \in stale)
      BY <1>2, <2>3 DEF TypeOK
    <3>2. \A f \in Executions : Holds(f, u)' <=> Holds(f, u)
      BY <1>4, <2>3 DEF Holds
    <3>3. \A f \in Executions : call'[f].task = u /\ (f \in told' \/ call'[f].pc = "answered")
              => call[f].task = u /\ (f \in told \/ call[f].pc = "answered")
      BY <1>3, <1>4, <2>3
    <3>4. QED  BY <2>1, <3>1, <3>2, <3>3 DEF Quiet
  <2>4. QED  BY <2>2, <2>3
<1>14. QED  BY <1>6, <1>7, <1>11, <1>12, <1>13

\* An execution ends without an answer, its task recorded as failed or left as it is.
LEMMA EndInv ==
    ASSUME IInv, NEW e \in Executions, RecordFailure(e) \/ Die(e)  PROVE IInv'
<1> USE DEF IInv
<1> PICK t : t = call[e].task
  OBVIOUS
<1>1. /\ Shape(call[e]) /\ call[e].pc \notin {"new", "answered", "over"} /\ t \in Tasks
      /\ disturbed \subseteq Tasks
  BY DEF TypeOK, CallInv, RecordFailure, Die, Shape
<1>2. /\ UNCHANGED <<tier, stale, traced, told>> /\ Goes(e, "over")
      /\ \/ record' = record
         \/ record' = [record EXCEPT ![t] = [status |-> "failed", result |-> None]]
      /\ disturbed \subseteq disturbed' /\ disturbed' \subseteq Tasks
      /\ call[e].acted => t \in disturbed'
  <2>1. CASE RecordFailure(e)
    BY <1>1, <2>1 DEF RecordFailure, CallInv
  <2>2. CASE Die(e)
    BY <1>1, <2>2 DEF Die, Disturbs
  <2>3. QED  BY <2>1, <2>2
<1>3. PICK c \in Call :
         /\ call' = [call EXCEPT ![e] = c] /\ call'[e] = c
         /\ \A f \in Executions \ {e} : call'[f] = call[f]
         /\ c.task = t /\ c.acted = call[e].acted
         /\ c.out = call[e].out /\ Licensed(e)' = Licensed(e) /\ c.pc = "over"
  BY <1>2, GoesRecord
<1>4. Shape(c) /\ (c.acted => Licensed(e))
  BY <1>1, <1>3 DEF Shape, CallInv
<1>5. TypeOK'
  BY <1>1, <1>2, <1>3, RecordType DEF TypeOK
<1>6. CallInv'
  BY <1>1, <1>2, <1>3, <1>4, Others
<1>7. \A f \in Executions : /\ Landed(f) => Landed(f)'
                            /\ call'[f].task = call[f].task
  BY <1>1, <1>2, <1>3 DEF Landed
<1>8. RecordInv'
  <2>1. \A u \in Tasks : record'[u].status = "completed" => record'[u] = record[u]
    BY <1>2 DEF TypeOK
  <2>2. QED  BY <1>7, <2>1 DEF RecordInv
<1>9. ToldInv'
  BY <1>2, <1>7 DEF ToldInv, TypeOK
<1>10. QuietInv'
  <2> SUFFICES ASSUME NEW u \in Tasks, u \notin disturbed'  PROVE Quiet(u)'
    BY DEF QuietInv
  <2>1. Quiet(u)
    BY <1>2 DEF QuietInv
  <2>2. \A f \in Executions : Holds(f, u)' => f # e /\ Holds(f, u)
    BY <1>3 DEF Holds
  <2>3. \A f \in Executions : call'[f].pc = "answered" => f # e /\ call[f].pc = "answered"
    BY <1>3
  <2>4. CASE u = t
    <3>1. Holds(e, t) /\ record[t].status = "in_progress" /\ \A f \in Executions : Holds(f, t) => f = e
      BY <1>1, <2>1, <2>4 DEF Quiet, Holds
    <3>2. \A f \in Executions : ~ Holds(f, t)'
      BY <2>2, <2>4, <3>1
    <3>3. \A f \in Executions : call'[f].task = t => f \notin told' /\ call'[f].pc # "answered"
      BY <1>2, <1>7, <2>1, <2>3, <2>4, <3>1 DEF Quiet
    <3>4. QED  BY <2>4, <3>2, <3>3 DEF Quiet
  <2>5. CASE u # t
    <3>1. record'[u] = record[u] /\ (u \in stale' <=> u \in stale)
      BY <1>2, <2>5 DEF TypeOK
    <3>2. QED  BY <1>2, <1>7, <2>1, <2>2, <2>3, <3>1 DEF Quiet
  <2>6. QED  BY <2>4, <2>5
<1>11. QED  BY <1>5, <1>6, <1>8, <1>9, <1>10

LEMMA ReplayInv == ASSUME IInv, NEW t \in Tasks, Replay(t)  PROVE IInv'
<1> USE DEF IInv
<1>1. /\ record[t].status = "completed" /\ told' = told \cup {record[t].result}
      /\ UNCHANGED <<tier, record, stale, call, traced, disturbed>>
  BY DEF Replay
<1>2. /\ record[t].result \in Executions /\ Landed(record[t].result)
      /\ call[record[t].result].task = t
  BY <1>1 DEF RecordInv
<1>3. TypeOK'
  BY <1>1, <1>2 DEF TypeOK
<1>4. CallInv'
  BY <1>1 DEF CallInv, Licensed, Shape
<1>5. RecordInv'
  BY <1>1 DEF RecordInv, Landed
<1>6. ToldInv'
  BY <1>1, <1>2 DEF ToldInv, Landed
<1>7. QuietInv'
  <2> SUFFICES ASSUME NEW u \in Tasks, u \notin disturbed'  PROVE Quiet(u)'
    BY DEF QuietInv
  <2>1. Quiet(u)
    BY <1>1 DEF QuietInv
  <2>2. \A f \in Executions : Holds(f, u)' <=> Holds(f, u)
    BY <1>1 DEF Holds
  <2>3. \A f \in Executions : call[f].task = u /\ f \in told' => f \in told \/ (f = record[u].result /\ u = t)
    BY <1>1, <1>2
  <2>4. QED  BY <1>1, <2>1, <2>2, <2>3 DEF Quiet
<1>8. QED  BY <1>3, <1>4, <1>5, <1>6, <1>7

LEMMA GoStaleInv == ASSUME IInv, NEW t \in Tasks, GoStale(t)  PROVE IInv'
<1> USE DEF IInv
<1>1. /\ stale' = stale \cup {t} /\ UNCHANGED <<tier, record, call, traced, told>>
      /\ disturbed' = disturbed \cup {x \in {t} : \E e \in Executions : Holds(e, x)}
  BY DEF GoStale
<1>2. TypeOK'
  BY <1>1 DEF TypeOK
<1>3. CallInv'
  BY <1>1 DEF CallInv, Licensed, Shape
<1>4. RecordInv' /\ ToldInv'
  BY <1>1 DEF RecordInv, ToldInv, Landed
<1>5. QuietInv'
  <2> SUFFICES ASSUME NEW u \in Tasks, u \notin disturbed'  PROVE Quiet(u)'
    BY DEF QuietInv
  <2>1. Quiet(u)
    BY <1>1 DEF QuietInv
  <2>2. \A f \in Executions : Holds(f, u)' <=> Holds(f, u)
    BY <1>1 DEF Holds
  <2>3. \A f \in Executions : Holds(f, u) => u # t
    BY <1>1
  <2>4. QED  BY <1>1, <2>1, <2>2, <2>3 DEF Quiet
<1>6. QED  BY <1>2, <1>3, <1>4, <1>5

-----------------------------------------------------------------------------
(* The theorems *)

LEMMA NextInv == IInv /\ [Next]_vars => IInv'
<1> SUFFICES ASSUME IInv, [Next]_vars  PROVE IInv'
  OBVIOUS
<1>1. ASSUME NEW e \in Executions, NEW t \in Tasks, Begin(e, t)  PROVE IInv'
  BY <1>1, BeginInv
<1>2. ASSUME NEW e \in Executions, Gmail(e)  PROVE IInv'
  BY <1>2, ConnectorInv DEF Gmail
<1>3. ASSUME NEW e \in Executions, Calendar(e)  PROVE IInv'
  BY <1>3, ConnectorInv DEF Calendar
<1>4. ASSUME NEW e \in Executions, Workflow(e)  PROVE IInv'
  BY <1>4, WorkflowInv
<1>5. ASSUME NEW e \in Executions, Plan(e) \/ Decide(e) \/ Execute(e)  PROVE IInv'
  BY <1>5, PlanInv, DecideInv, ExecuteInv
<1>6. ASSUME NEW e \in Executions, PersistTrace(e) \/ Throw(e)  PROVE IInv'
  BY <1>6, PersistTraceInv, ThrowInv
<1>7. ASSUME NEW e \in Executions, RecordResult(e) \/ RecordResultLost(e)  PROVE IInv'
  BY <1>7, RecordResultInv
<1>8. ASSUME NEW e \in Executions, RecordFailure(e) \/ Die(e)  PROVE IInv'
  BY <1>8, EndInv
<1>9. ASSUME NEW t \in Tasks, Replay(t) \/ GoStale(t)  PROVE IInv'
  BY <1>9, ReplayInv, GoStaleInv
<1>10. CASE UNCHANGED vars
  <2>1. TypeOK'
    BY <1>10 DEF IInv, TypeOK, vars
  <2>2. CallInv'
    BY <1>10 DEF IInv, CallInv, Licensed, Shape, vars
  <2>3. RecordInv' /\ ToldInv'
    BY <1>10 DEF IInv, RecordInv, ToldInv, Landed, vars
  <2>4. QuietInv'
    BY <1>10 DEF IInv, QuietInv, Quiet, Holds, vars
  <2>5. QED  BY <2>1, <2>2, <2>3, <2>4 DEF IInv
<1>11. QED
  BY <1>1, <1>2, <1>3, <1>4, <1>5, <1>6, <1>7, <1>8, <1>9, <1>10 DEF Next, Step

LEMMA Invariance == Spec => []IInv
<1>1. QED  BY InitInv, NextInv, PTL DEF Spec

\* Every task, execution and record keeps its type.
THEOREM TypeCorrect == Spec => []TypeOK
<1>1. IInv => TypeOK
  BY DEF IInv
<1>2. QED  BY <1>1, Invariance, PTL

\* Nothing runs unattended on a tier that needs a person, on evidence that
\* contradicts itself, or, for an automatic write, on the planner's fallback.
THEOREM ActsLicensed == Spec => []ActsAreLicensed
<1>1. IInv => ActsAreLicensed
  BY DEF IInv, CallInv, Licensed, ActsAreLicensed
<1>2. QED  BY <1>1, Invariance, PTL

\* What the approval threshold says of a plan that needs no approval.
LEMMA AutoIsLowRisk ==
    ASSUME NEW plan, AutoPlan(plan)
    PROVE  \E i \in DOMAIN plan :
               /\ Best(plan, i) /\ LeadAtLeast(plan, i, 10)
               /\ plan[i].downsideRisk <= 34 /\ plan[i].ambiguity <= 62
               /\ plan[i].contradictions <= 1 /\ ~ plan[i].blockers
<1>1. plan \in Seq(Candidate) /\ plan # <<>>
  BY TaskRunnerAssumption DEF AutoPlan
<1>2. PICK i : i = Top(plan)
  OBVIOUS
<1>3. i \in DOMAIN plan /\ Best(plan, i)
  BY <1>1, <1>2, TopIsBest
<1>4. plan[i] \in Candidate
  BY <1>1, <1>3
<1>5. LeadAtLeast(plan, i, 10) /\ ~ (Score(plan[i]) < 85)
  BY <1>2 DEF AutoPlan
<1>6. Score(plan[i]) >= 85
  BY <1>4, <1>5, ScoreType
<1>7. QED  BY <1>3, <1>4, <1>5, <1>6, HighScoreIsLowRisk

\* An automatic write runs on the first of the best candidates, ahead of the
\* others, with little risk and ambiguity and without a blocker: stricter than
\* the risk of 60 that verifyCandidate allows.
AutomaticWritesAreLowRisk ==
    \A e \in Executions :
        call[e].acted /\ tier[call[e].task] = "A3_LOW_RISK_AUTO" =>
            \E i \in DOMAIN call[e].plan :
                /\ Best(call[e].plan, i) /\ LeadAtLeast(call[e].plan, i, 10)
                /\ call[e].plan[i].downsideRisk <= 34 /\ call[e].plan[i].ambiguity <= 62
                /\ call[e].plan[i].contradictions <= 1 /\ ~ call[e].plan[i].blockers

\* The score alone keeps a risky candidate from running unattended.
THEOREM AutomaticIsLowRisk == Spec => []AutomaticWritesAreLowRisk
<1>1. IInv => AutomaticWritesAreLowRisk
  BY AutoIsLowRisk DEF IInv, CallInv, Licensed, AutomaticWritesAreLowRisk
<1>2. QED  BY <1>1, Invariance, PTL

\* Of two executions of one task that acted, each has answered or still holds
\* it, or the task was disturbed.
LEMMA ActedStands ==
    ASSUME IInv, NEW e \in Executions, call[e].acted, call[e].task \notin disturbed
    PROVE  /\ call[e].task \in Tasks
           /\ Holds(e, call[e].task) \/ call[e].pc = "answered"
BY DEF IInv, CallInv, Shape, Holds

\* Executions of an undisturbed task do not act twice.
THEOREM ActedOnce == Spec => []ActsOnce
<1>1. IInv => ActsOnce
  <2> SUFFICES ASSUME IInv, NEW e \in Executions, NEW f \in Executions,
                      call[e].acted, call[f].acted, call[e].task = call[f].task, e # f,
                      call[e].task \notin disturbed
               PROVE  FALSE
    BY DEF ActsOnce
  <2>1. Quiet(call[e].task)
    BY ActedStands DEF IInv, QuietInv
  <2>2. QED  BY <2>1, ActedStands DEF Quiet
<1>2. QED  BY <1>1, Invariance, PTL

\* What callers are told of a task is what its executions did.
THEOREM AnswersTrue == Spec => []AnswersAreTrue
<1>1. IInv => AnswersAreTrue
  <2> SUFFICES ASSUME IInv, NEW e \in told
               PROVE  IF call[e].out = "done" THEN call[e].acted /\ e \in traced
                      ELSE \A f \in Executions :
                               call[f].acted /\ call[f].task = call[e].task
                                   => call[e].task \in disturbed
    BY DEF AnswersAreTrue
  <2>1. Landed(e) /\ call[e].task \in Tasks /\ e \in Executions
    BY DEF IInv, ToldInv, TypeOK
  <2>2. CASE call[e].out # "done"
    <3> SUFFICES ASSUME NEW f \in Executions, call[f].acted, call[f].task = call[e].task,
                        call[e].task \notin disturbed
                 PROVE  FALSE
      BY <2>2
    <3>1. Quiet(call[e].task)
      BY <2>1 DEF IInv, QuietInv
    <3>2. f # e
      BY <2>2 DEF IInv, CallInv, Shape
    <3>3. QED  BY <2>1, <3>1, <3>2, ActedStands DEF Quiet
  <2>3. QED  BY <2>1, <2>2 DEF Landed
<1>2. QED  BY <1>1, Invariance, PTL
=============================================================================
