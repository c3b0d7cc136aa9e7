----------------------------- MODULE TaskRunner -----------------------------
(***************************************************************************)
(* runAaliyahTask: the claim of the task in the idempotency table, the     *)
(* evidence from Gmail, the calendar and the workflow state, the planner   *)
(* with its fallback, the choice and verification of a candidate, the      *)
(* approval and shadow-mode gates, the execution, its trace and the result *)
(* in the table.  Several executions may be about the same task at once,   *)
(* in any number of processes; each may throw or die where the code can.   *)
(*                                                                         *)
(* One user's tasks and credential.  The payload of a task is fixed: its   *)
(* tier stands for it (ensureIdempotentExecution refuses the key with any  *)
(* other payload, and nothing changes; InboundDraft models the payloads).  *)
(* executeIdempotent always succeeds today, so verifyPostconditions always *)
(* holds and recoverOrEscalate is never reached.                           *)
(***************************************************************************)
EXTENDS Integers, Sequences, FiniteSets

CONSTANTS
    Tasks,        \* task ids, under their (tenant, workspace) scope
    Executions,   \* executionId: one per call of runAaliyahTask that claims its task
    Titles,       \* subjects of messages and events, as toLowerCase leaves them
    ShortTitles,  \* the titles validateSource refuses
    Excerpts,     \* the excerpts sources carry
    WorkflowTitle,\* the title of the workflow_state source
    MaxItems,     \* most messages, and most events, a connector finds (10)
    Limit,        \* most sources of a retrieval (10)
    Configured,   \* googleConnectorConfigured
    Plans,        \* the candidate lists the planner's provider may answer with
    None

Tiers == {"A0_READ", "A1_DRAFT", "A2_WRITE_APPROVED", "A3_LOW_RISK_AUTO", "A4_IRREVERSIBLE"}

Percent == 0..100

Candidate ==
    [goalFit : Percent, evidenceQuality : Percent, policyFit : Percent,
     expectedValue : Percent, reversibility : Percent, downsideRisk : Percent,
     ambiguity : Percent, contradictions : Nat, blockers : BOOLEAN]

\* PlannerResponseSchema refuses an empty list (tests/plannerClient.test.ts).
ASSUME TaskRunnerAssumption ==
    /\ MaxItems \in Nat /\ Limit \in Nat \ {0} /\ Configured \in BOOLEAN /\ None \notin Tasks
    /\ ShortTitles \subseteq Titles /\ WorkflowTitle \in Titles \ ShortTitles
    /\ \A plan \in Plans : plan \in Seq(Candidate) /\ plan # <<>>

VARIABLES
    tier,      \* riskTier of each task: part of its payload, it never changes
    record,    \* aaliyah_idempotency, with the execution whose result it holds
    stale,     \* tasks whose claim is older than STALE_IN_PROGRESS_MS
    call,      \* the executions
    traced,    \* executions with a row in observability_traces
    told,      \* executions whose result a caller has been given
    disturbed  \* tasks with an execution that outlived its claim, ended in an
               \* error after it acted, or lost the acknowledgement of its result:
               \* history, for the properties alone

vars == <<tier, record, stale, call, traced, told, disturbed>>

Outs == {"none", "escalated", "approval", "shadow", "done"}

Sources == [type : {"gmail", "calendar", "workflow_state"}, title : Titles, excerpt : Excerpts]

\* An EvidenceBundle: its quality, and whether its contradictionCount is above 0.
Evidence == [quality : Int, contradicted : BOOLEAN]

NoEvidence == [quality |-> 0, contradicted |-> FALSE]

Call ==
    [pc : {"new", "gmail", "calendar", "workflow", "planning", "deciding", "acting",
           "tracing", "recording", "failing", "answered", "over"},
     task : Tasks \cup {None}, retried : BOOLEAN, found : Seq(Sources),
     evidence : Evidence, plan : Seq(Candidate), out : Outs, acted : BOOLEAN]

New == [pc |-> "new", task |-> None, retried |-> FALSE, found |-> <<>>,
        evidence |-> NoEvidence, plan |-> <<>>, out |-> "none", acted |-> FALSE]

TypeOK ==
    /\ tier \in [Tasks -> Tiers]
    /\ record \in [Tasks -> [status : {"absent", "in_progress", "completed", "failed"},
                             result : Executions \cup {None}]]
    /\ stale \subseteq Tasks /\ disturbed \subseteq Tasks
    /\ call \in [Executions -> Call]
    /\ traced \subseteq Executions /\ told \subseteq Executions

Init ==
    /\ tier \in [Tasks -> Tiers]
    /\ record = [t \in Tasks |-> [status |-> "absent", result |-> None]]
    /\ call = [e \in Executions |-> New]
    /\ stale = {} /\ traced = {} /\ told = {} /\ disturbed = {}

-----------------------------------------------------------------------------
(* Evidence: retrievalBroker, detectContradictions, assertEvidenceQuality *)

\* Math.round of n / d: halves go up.
Round(n, d) == (2 * n + d) \div (2 * d)

CountOf(found, type) == Cardinality({i \in DOMAIN found : found[i].type = type})

\* The mean over one source or more, by the weights of retrieveEvidence and the
\* relevance, authority and recency each connector gives its sources.
EvidenceQuality(found) ==
    Round(CountOf(found, "gmail") * (40 * 85 + 35 * 80 + 25 * 88)
          + CountOf(found, "calendar") * (40 * 82 + 35 * 84 + 25 * 90)
          + CountOf(found, "workflow_state") * (40 * 86 + 35 * 95 + 25 * 88),
          100 * Len(found))

\* detectContradictions remembers the last excerpt under each title.
Contradicts(found, i) ==
    \E j \in 1..(i - 1) :
        /\ found[j].title = found[i].title /\ found[j].excerpt # found[i].excerpt
        /\ \A k \in (j + 1)..(i - 1) : found[k].title # found[i].title

Bundle(found) ==
    [quality |-> EvidenceQuality(found),
     contradicted |-> \E i \in DOMAIN found : Contradicts(found, i)]

WorkflowSource(x) == [type |-> "workflow_state", title |-> WorkflowTitle, excerpt |-> x]

\* The sources in the order of the connectors, cut off at the limit.
Brokered(found, x) ==
    LET all == Append(found, WorkflowSource(x)) IN
    SubSeq(all, 1, IF Len(all) <= Limit THEN Len(all) ELSE Limit)

\* What handleFailure makes of the errors the evidence can end in, by words of
\* their messages.
HandleFailure(error) ==
    CASE error \in {"timeout", "empty"}              -> "retry"
      [] error \in {"credential", "contradictions"} -> "fail"
      [] OTHER                                      -> "escalate"

\* assertEvidenceQuality, of a bundle that is never empty.
QualityErrors(t, b) ==
    IF tier[t] = "A0_READ" THEN {}
    ELSE IF b.quality < 70 THEN {"low_quality"}
    ELSE IF b.contradicted THEN {"contradictions"} ELSE {}

-----------------------------------------------------------------------------
(* Candidates: scoreCandidate, selectCandidate, verifyCandidate *)

Raw(c) ==
    28 * c.goalFit + 24 * c.evidenceQuality + 18 * c.policyFit + 12 * c.expectedValue
    + 10 * c.reversibility - 22 * c.downsideRisk - 12 * c.ambiguity
    - 400 * c.contradictions - (IF c.blockers THEN 1500 ELSE 0)

\* At most 100 by the weights: they add up to 92.
Score(c) == IF Raw(c) <= 0 THEN 0 ELSE Round(Raw(c), 100)

\* The first of the best: the sort is stable.
Best(plan, i) ==
    /\ \A j \in DOMAIN plan : Score(plan[j]) <= Score(plan[i])
    /\ \A j \in 1..(i - 1) : Score(plan[j]) < Score(plan[i])

Top(plan) == CHOOSE i \in DOMAIN plan : Best(plan, i)

\* The lead of the top candidate, over the runner-up or over nothing.
LeadAtLeast(plan, i, n) ==
    IF Len(plan) = 1 THEN Score(plan[i]) >= n
    ELSE \A j \in DOMAIN plan \ {i} : Score(plan[i]) - Score(plan[j]) >= n

FallbackPlan ==
    <<[goalFit |-> 78, evidenceQuality |-> 70, policyFit |-> 90, expectedValue |-> 60,
       reversibility |-> 85, downsideRisk |-> 15, ambiguity |-> 20, contradictions |-> 0,
       blockers |-> FALSE]>>

\* The hard blocks; the soft ones only lower the confidence shown.
Verified(t, b, c) ==
    /\ ~ c.blockers /\ ~ b.contradicted
    /\ tier[t] # "A0_READ" => b.quality >= 70 /\ c.downsideRisk <= 60

\* Mutant: a low score or a narrow lead is forgiven when the other is good.
RequiresApprovalBoth(t, plan, i) ==
    \/ tier[t] \in {"A2_WRITE_APPROVED", "A4_IRREVERSIBLE"}
    \/ /\ tier[t] = "A3_LOW_RISK_AUTO"
       /\ Score(plan[i]) < 85 /\ ~ LeadAtLeast(plan, i, 10)

RequiresApproval(t, plan, i) ==
    \/ tier[t] \in {"A2_WRITE_APPROVED", "A4_IRREVERSIBLE"}
    \/ /\ tier[t] = "A3_LOW_RISK_AUTO"
       /\ Score(plan[i]) < 85 \/ ~ LeadAtLeast(plan, i, 10)

\* shadow: AALIYAH_SHADOW_MODE is true in the process that decides.
Outcome(t, b, plan, shadow) ==
    LET i == Top(plan) IN
    IF ~ Verified(t, b, plan[i]) THEN "escalated"
    ELSE IF RequiresApproval(t, plan, i) THEN "approval"
    ELSE IF shadow THEN "shadow" ELSE "done"

-----------------------------------------------------------------------------
(* The claim: ensureIdempotentExecution, one transaction under table locks *)

\* An execution that holds its task, as long as it runs.
Holds(e, t) == call[e].pc \notin {"new", "answered", "over"} /\ call[e].task = t

\* Mutant: a completed task is claimed again.
MayClaimDone(t) ==
    \/ record[t].status \in {"absent", "completed", "failed"}
    \/ record[t].status = "in_progress" /\ t \in stale

MayClaim(t) ==
    \/ record[t].status \in {"absent", "failed"}
    \/ record[t].status = "in_progress" /\ t \in stale

Begin(e, t) ==
    /\ call[e].pc = "new" /\ MayClaim(t)
    /\ record' = [record EXCEPT ![t] = [status |-> "in_progress", result |-> None]]
    /\ stale' = stale \ {t}
    /\ call' = [call EXCEPT ![e] = [New EXCEPT !.pc = "gmail", !.task = t]]
    /\ UNCHANGED <<tier, traced, told, disturbed>>

\* The stored result of a completed task goes to a caller.
Replay(t) ==
    /\ record[t].status = "completed"
    /\ told' = told \cup {record[t].result}
    /\ UNCHANGED <<tier, record, stale, call, traced, disturbed>>

GoStale(t) ==
    /\ record[t].status = "in_progress"
    /\ stale' = stale \cup {t}
    /\ disturbed' = disturbed \cup {x \in {t} : \E e \in Executions : Holds(e, x)}
    /\ UNCHANGED <<tier, record, call, traced, told>>

-----------------------------------------------------------------------------
(* The execution, await by await *)

Goes(e, pc) == call' = [call EXCEPT ![e].pc = pc]

\* An execution that will not act forgets what led it there.
Cleared(c, out, pc) == [New EXCEPT !.task = c.task, !.out = out, !.pc = pc]

\* buildEvidenceWithPolicy: an error may be retried, once, from the start.
Fails(e, error) ==
    call' = [call EXCEPT ![e] =
                 IF HandleFailure(error) = "retry" /\ ~ @.retried
                 THEN [@ EXCEPT !.found = <<>>, !.retried = TRUE, !.pc = "gmail"]
                 ELSE Cleared(@, "none", "failing")]

Items(type) ==
    UNION {[1..n -> [type : {type}, title : Titles, excerpt : Excerpts]] : n \in 0..MaxItems}

\* The errors a connector rethrows, by the words of the provider's message that
\* handleFailure looks for.  A credential may be missing, revoked or past its
\* expiry at any connector, whatever it was at the one before.
ConnectorErrors == {"timeout", "empty", "malformed", "provider", "credential"}
TooShort(items) == \E i \in DOMAIN items : items[i].title \in ShortTitles

\* gmailConnector and calendarConnector: a list, and its messages or events.
Connector(e, type, next) ==
    IF ~ Configured THEN Goes(e, next)
    ELSE \/ \E error \in ConnectorErrors : Fails(e, error)
         \/ \E items \in Items(type) :
                IF TooShort(items) THEN Fails(e, "invalid_source")
                ELSE call' = [call EXCEPT ![e].found = @ \o items, ![e].pc = next]

Gmail(e) ==
    /\ call[e].pc = "gmail" /\ Connector(e, "gmail", "calendar")
    /\ UNCHANGED <<tier, record, stale, traced, told, disturbed>>

Calendar(e) ==
    /\ call[e].pc = "calendar" /\ Connector(e, "calendar", "workflow")
    /\ UNCHANGED <<tier, record, stale, traced, told, disturbed>>

\* The workflow state, then the quality of what was found.
Workflow(e) ==
    /\ call[e].pc = "workflow"
    /\ \E x \in Excerpts :
           LET b      == Bundle(Brokered(call[e].found, x))
               errors == QualityErrors(call[e].task, b)
           IN  IF errors = {}
               THEN call' = [call EXCEPT ![e].found = <<>>, ![e].evidence = b,
                                         ![e].pc = "planning"]
               ELSE \E error \in errors : Fails(e, error)
    /\ UNCHANGED <<tier, record, stale, traced, told, disturbed>>

\* plannerClient always answers: its provider's plan, or the fallback plan for an
\* unset key, a timeout, another error, or an answer the schema refuses.
Plan(e) ==
    /\ call[e].pc = "planning"
    /\ \E plan \in Plans \cup {FallbackPlan} :
           call' = [call EXCEPT ![e].plan = plan, ![e].pc = "deciding"]
    /\ UNCHANGED <<tier, record, stale, traced, told, disturbed>>

Decide(e) ==
    /\ call[e].pc = "deciding"
    /\ \E shadow \in BOOLEAN :
           LET out == Outcome(call[e].task, call[e].evidence, call[e].plan, shadow) IN
           call' = [call EXCEPT ![e] = IF out = "done" THEN [@ EXCEPT !.out = out, !.pc = "acting"]
                                       ELSE Cleared(@, out, "tracing")]
    /\ UNCHANGED <<tier, record, stale, traced, told, disturbed>>

\* executeIdempotent.
Execute(e) ==
    /\ call[e].pc = "acting"
    /\ call' = [call EXCEPT ![e].acted = TRUE, ![e].pc = "tracing"]
    /\ UNCHANGED <<tier, record, stale, traced, told, disturbed>>

\* Mutant: the trace of an execution names no workspace either.
NeverDurable(out) == FALSE

\* persistTrace writes a row only for a trace that names a workspace: the
\* traces of the three early answers do not.
Durable(out) == out = "done"

PersistTrace(e) ==
    /\ call[e].pc = "tracing"
    /\ traced' = IF Durable(call[e].out) THEN traced \cup {e} ELSE traced
    /\ Goes(e, "recording")
    /\ UNCHANGED <<tier, record, stale, told, disturbed>>

\* markCompleted: an UPDATE by key.
Complete(e) == record' = [record EXCEPT ![call[e].task] = [status |-> "completed", result |-> e]]

RecordResult(e) ==
    /\ call[e].pc = "recording" /\ Complete(e)
    /\ told' = told \cup {e} /\ Goes(e, "answered")
    /\ UNCHANGED <<tier, stale, traced, disturbed>>

\* The UPDATE is committed, its acknowledgement lost: the catch block follows.
RecordResultLost(e) ==
    /\ call[e].pc = "recording" /\ Complete(e) /\ Goes(e, "failing")
    /\ disturbed' = disturbed \cup {call[e].task}
    /\ UNCHANGED <<tier, stale, traced, told>>

\* The task of an execution that ends in an error after it has acted.
Disturbs(e) == disturbed' = disturbed \cup {t \in {call[e].task} : call[e].acted}

\* The row of the trace, or the result, cannot be written.
Throw(e) ==
    /\ call[e].pc = "recording" \/ (call[e].pc = "tracing" /\ Durable(call[e].out))
    /\ Goes(e, "failing") /\ Disturbs(e)
    /\ UNCHANGED <<tier, record, stale, traced, told>>

\* recordIdempotentFailure: an UPDATE by key too; the error goes to the caller.
RecordFailure(e) ==
    /\ call[e].pc = "failing" /\ Goes(e, "over")
    /\ record' = [record EXCEPT ![call[e].task] = [status |-> "failed", result |-> None]]
    /\ UNCHANGED <<tier, stale, traced, told, disturbed>>

\* The process dies, or the failure cannot be recorded either.
Die(e) ==
    /\ call[e].pc \notin {"new", "answered", "over"}
    /\ Goes(e, "over") /\ Disturbs(e)
    /\ UNCHANGED <<tier, record, stale, traced, told>>

-----------------------------------------------------------------------------

Step(e) ==
    \/ \E t \in Tasks : Begin(e, t)
    \/ Gmail(e) \/ Calendar(e) \/ Workflow(e) \/ Plan(e) \/ Decide(e) \/ Execute(e)
    \/ PersistTrace(e) \/ RecordResult(e) \/ RecordResultLost(e)
    \/ Throw(e) \/ RecordFailure(e) \/ Die(e)

Next ==
    \/ \E e \in Executions : Step(e)
    \/ \E t \in Tasks : Replay(t) \/ GoStale(t)

Spec == Init /\ [][Next]_vars

-----------------------------------------------------------------------------
(* Properties *)

\* An action runs without a person's approval only for a tier that allows it, on
\* evidence that does not contradict itself, and, for a write, on a plan of the
\* planner's provider: the fallback of plannerClient cannot score that high.
ActsAreLicensed ==
    \A e \in Executions : call[e].acted =>
        /\ tier[call[e].task] \notin {"A2_WRITE_APPROVED", "A4_IRREVERSIBLE"}
        /\ ~ call[e].evidence.contradicted
        /\ tier[call[e].task] = "A3_LOW_RISK_AUTO" => call[e].plan # FallbackPlan

\* A task acts once, unless one of its executions outlived its claim, lost an
\* acknowledgement or failed after it had acted.
ActsOnce ==
    \A e, f \in Executions :
        call[e].acted /\ call[f].acted /\ call[e].task = call[f].task /\ e # f
            => call[e].task \in disturbed

\* What callers are told is so: what is reported done was done, and is on the
\* task's durable trace; of a task said to be escalated, awaiting approval or
\* shadowed, no execution acts, before or after, unless it was disturbed.
AnswersAreTrue ==
    \A e \in told :
        IF call[e].out = "done" THEN call[e].acted /\ e \in traced
        ELSE \A f \in Executions :
                 call[f].acted /\ call[f].task = call[e].task => call[e].task \in disturbed
=============================================================================
