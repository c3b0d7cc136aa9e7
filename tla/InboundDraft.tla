---------------------------- MODULE InboundDraft ----------------------------
(***************************************************************************)
(* runInboundDraft over the idempotency table: ensureIdempotentExecution,  *)
(* the Gmail draft, the two traces, recordIdempotentResult and             *)
(* recordIdempotentFailure.  Any number of calls run at once, in any       *)
(* number of processes; a call may throw at any await, and die anywhere.   *)
(*                                                                         *)
(* ensureIdempotentExecution is one step: the ALTER TABLE statements of    *)
(* its transaction hold an ACCESS EXCLUSIVE lock until COMMIT, which keeps *)
(* every other transaction off the table, the result updates included.     *)
(***************************************************************************)
CONSTANTS
    Messages,     \* the idempotency keys: inbound:<messageId>, under a scope
    Requests,     \* request payloads, as their hash tells them apart
    ShouldDraft,  \* analyzeInbound: the requests that call for a reply
    Runs,         \* concurrent calls of runInboundDraft
    Drafts,       \* Gmail draft ids
    None          \* SQL NULL

ASSUME RequestAssumption == ShouldDraft \subseteq Requests
ASSUME DraftAssumption   == {None, "no_action"} \cap Drafts = {} /\ None # "no_action"
ASSUME KeyAssumption     == None \notin Messages \cup Requests

VARIABLES
    record,   \* aaliyah_idempotency: status, request_hash, result_payload
    stale,    \* keys whose claim is older than STALE_IN_PROGRESS_MS
    run,      \* the calls in progress
    gmail,    \* the drafts Gmail holds, and what they answer (external)
    log,      \* decision_traces and observability_traces
    answers,  \* what callers were told
    disturbed \* has a call outlived its claim, or lost the acknowledgement of its
              \* result?  History, for the properties alone

vars == <<record, stale, run, gmail, log, answers, disturbed>>

Outcome == Drafts \cup {"no_action"}

Record == [status : {"absent", "in_progress", "completed", "failed"},
           hash : Requests \cup {None}, result : Outcome \cup {None}]

Run == [pc : {"idle", "working", "drafted", "traced", "persisted", "failing"},
        key : Messages \cup {None}, request : Requests \cup {None},
        out : Outcome \cup {None}]

Idle == [pc |-> "idle", key |-> None, request |-> None, out |-> None]

TypeOK ==
    /\ record \in [Messages -> Record]
    /\ stale \subseteq Messages
    /\ run \in [Runs -> Run]
    /\ gmail \subseteq [draft : Drafts, key : Messages, request : Requests]
    /\ log \subseteq {"decision", "trace"} \X Outcome \X Messages
    /\ answers \subseteq [key : Messages, request : Requests, result : Outcome]
    /\ disturbed \in BOOLEAN

Init ==
    /\ record = [k \in Messages |-> [status |-> "absent", hash |-> None, result |-> None]]
    /\ stale = {}
    /\ run = [r \in Runs |-> Idle]
    /\ gmail = {} /\ log = {} /\ answers = {} /\ disturbed = FALSE

\* A call between its claim and the end of its work.
Holds(r, k) == run[r].pc # "idle" /\ run[r].key = k

-----------------------------------------------------------------------------
(* ensureIdempotentExecution *)

\* The claim of a key is five minutes old.
GoStale(k) ==
    /\ record[k].status = "in_progress"
    /\ stale' = stale \cup {k}
    /\ disturbed' = (disturbed \/ \E r \in Runs : Holds(r, k))
    /\ UNCHANGED <<record, run, gmail, log, answers>>

\* Mutant: a key in progress, or completed, is claimed again.
MayClaimAlways(k, q) == record[k].status = "absent" \/ record[k].hash = q

\* Mutant: a retry after a failure is not compared with the payload that failed.
MayClaimAnyPayload(k, q) ==
    \/ record[k].status \in {"absent", "failed"}
    \/ record[k].hash = q /\ record[k].status = "in_progress" /\ k \in stale

\* A new key, or one whose last execution failed or went stale.
MayClaim(k, q) ==
    \/ record[k].status = "absent"
    \/ /\ record[k].hash = q
       /\ \/ record[k].status = "failed"
          \/ record[k].status = "in_progress" /\ k \in stale

\* Mutant: the key is hashed, not the payload.
BeginHashesKey(r, k, q) ==
    /\ run[r].pc = "idle"
    /\ MayClaim(k, q)
    /\ record' = [record EXCEPT ![k] = [status |-> "in_progress", hash |-> k, result |-> None]]
    /\ stale' = stale \ {k}
    /\ run' = [run EXCEPT ![r] = [Idle EXCEPT !.pc = "working", !.key = k, !.request = q]]
    /\ UNCHANGED <<gmail, log, answers, disturbed>>

Begin(r, k, q) ==
    /\ run[r].pc = "idle"
    /\ MayClaim(k, q)
    /\ record' = [record EXCEPT ![k] = [status |-> "in_progress", hash |-> q, result |-> None]]
    /\ stale' = stale \ {k}
    /\ run' = [run EXCEPT ![r] = [Idle EXCEPT !.pc = "working", !.key = k, !.request = q]]
    /\ UNCHANGED <<gmail, log, answers, disturbed>>

\* Mutant: the payload of a completed key is not compared.
ReplayAnyPayload(k, q) ==
    /\ record[k].status = "completed"
    /\ answers' = answers \cup {[key |-> k, request |-> q, result |-> record[k].result]}
    /\ UNCHANGED <<record, stale, run, gmail, log, disturbed>>

\* The stored result goes back to the caller.  A key claimed by another call,
\* or used for another payload, is refused, and nothing changes.
Replay(k, q) ==
    /\ record[k].status = "completed" /\ record[k].hash = q
    /\ answers' = answers \cup {[key |-> k, request |-> q, result |-> record[k].result]}
    /\ UNCHANGED <<record, stale, run, gmail, log, disturbed>>

-----------------------------------------------------------------------------
(* The work: draft, decision trace, trace, result *)

Goes(r, pc, out) == run' = [run EXCEPT ![r] = [@ EXCEPT !.pc = pc, !.out = out]]

\* createGmailDraft; the answer may be lost after Gmail has saved the draft.
CreateDraft(r, d) ==
    /\ run[r].pc = "working" /\ run[r].request \in ShouldDraft
    /\ \A g \in gmail : g.draft # d
    /\ gmail' = gmail \cup {[draft |-> d, key |-> run[r].key, request |-> run[r].request]}
    /\ Goes(r, "drafted", d) \/ Goes(r, "failing", None)
    /\ UNCHANGED <<record, stale, log, answers, disturbed>>

\* Mutant: the decision trace is left out.
DecisionTraceSkipped(r) ==
    /\ run[r].pc = "drafted"
    /\ Goes(r, "traced", run[r].out)
    /\ UNCHANGED <<record, stale, gmail, log, answers, disturbed>>

DecisionTrace(r) ==
    /\ run[r].pc = "drafted"
    /\ log' = log \cup {<<"decision", run[r].out, run[r].key>>}
    /\ Goes(r, "traced", run[r].out)
    /\ UNCHANGED <<record, stale, gmail, answers, disturbed>>

PersistTrace(r) ==
    /\ \/ /\ run[r].pc = "traced"
          /\ Goes(r, "persisted", run[r].out)
          /\ log' = log \cup {<<"trace", run[r].out, run[r].key>>}
       \/ /\ run[r].pc = "working" /\ run[r].request \notin ShouldDraft
          /\ Goes(r, "persisted", "no_action")
          /\ log' = log \cup {<<"trace", "no_action", run[r].key>>}
    /\ UNCHANGED <<record, stale, gmail, answers, disturbed>>

\* Mutant: the result is not stored.
CompleteStatusOnly(r) == record' = [record EXCEPT ![run[r].key].status = "completed"]

\* markCompleted: an UPDATE by key, whoever holds the claim by now.
Complete(r) ==
    LET k == run[r].key IN
    record' = [record EXCEPT ![k].status = "completed", ![k].result = run[r].out]

RecordResult(r) ==
    /\ run[r].pc = "persisted"
    /\ Complete(r)
    /\ run' = [run EXCEPT ![r] = Idle]
    /\ answers' = answers \cup {[key |-> run[r].key, request |-> run[r].request,
                                 result |-> run[r].out]}
    /\ UNCHANGED <<stale, gmail, log, disturbed>>

\* The UPDATE is committed, its acknowledgement lost: the catch block follows.
RecordResultLost(r) ==
    /\ run[r].pc = "persisted"
    /\ Complete(r)
    /\ Goes(r, "failing", None)
    /\ disturbed' = TRUE
    /\ UNCHANGED <<stale, gmail, log, answers>>

Throw(r) ==
    /\ run[r].pc \in {"working", "drafted", "traced", "persisted"}
    /\ Goes(r, "failing", None)
    /\ UNCHANGED <<record, stale, gmail, log, answers, disturbed>>

\* recordIdempotentFailure: an UPDATE by key too; the error goes to the caller.
RecordFailure(r) ==
    LET k == run[r].key IN
    /\ run[r].pc = "failing"
    /\ record' = [record EXCEPT ![k].status = "failed", ![k].result = None]
    /\ run' = [run EXCEPT ![r] = Idle]
    /\ UNCHANGED <<stale, gmail, log, answers, disturbed>>

\* The process dies, or the failure cannot be recorded either.
Die(r) ==
    /\ run[r].pc # "idle"
    /\ run' = [run EXCEPT ![r] = Idle]
    /\ UNCHANGED <<record, stale, gmail, log, answers, disturbed>>

-----------------------------------------------------------------------------

RunStep(r) ==
    \/ \E k \in Messages, q \in Requests : Begin(r, k, q)
    \/ \E d \in Drafts : CreateDraft(r, d)
    \/ DecisionTrace(r) \/ PersistTrace(r) \/ RecordResult(r) \/ RecordResultLost(r)
    \/ Throw(r) \/ RecordFailure(r) \/ Die(r)

Next ==
    \/ \E r \in Runs : RunStep(r)
    \/ \E k \in Messages : GoStale(k) \/ \E q \in Requests : Replay(k, q)

Spec == Init /\ [][Next]_vars

-----------------------------------------------------------------------------
(* Properties *)

\* Every caller of a message gets the same answer, however calls overlap, fail
\* and are retried, while calls end within five minutes and acknowledgements
\* arrive (tests/inboundDraft.test.ts: first.draftId = second.draftId).
OneAnswer ==
    ~ disturbed => \A a, b \in answers : a.key = b.key => a.result = b.result

Fits(k, q, x) ==
    IF x = "no_action" THEN q \notin ShouldDraft
    ELSE [draft |-> x, key |-> k, request |-> q] \in gmail

\* What a caller is told was made for the request it sent: the draft of its own
\* payload, or no_action for a request that calls for none.
AnswersFitRequests == \A a \in answers : Fits(a.key, a.request, a.result)

Traced(k, x) ==
    /\ x \in Drafts => <<"decision", x, k>> \in log
    /\ <<"trace", x, k>> \in log

\* "Every inbound draft has a decision trace": before anyone learns of it.
AnsweredIsTraced == \A a \in answers : Traced(a.key, a.result)

SoleHolder ==
    \A r1, r2 \in Runs, k \in Messages : Holds(r1, k) /\ Holds(r2, k) => r1 = r2

\* While undisturbed, a key is worked on by one call at a time.
OneRunPerKey == ~ disturbed => SoleHolder

AnswersStand ==
    \A a \in answers :
        /\ record[a.key].status = "completed"
        /\ record[a.key].hash = a.request /\ record[a.key].result = a.result

\* While undisturbed, an answer once given is what the table replays from then on.
AnswerIsOnRecord == ~ disturbed => AnswersStand

\* All of it implements OneReply: a key keeps the payload it was first claimed
\* with through failures, stale claims and retries; an answer, the first or a
\* replay, is a draft that Gmail holds for that key and payload, or no_action;
\* and answers differ only once a call has outlived its claim or an
\* acknowledgement was lost.
Promise == INSTANCE OneReply WITH
    payload <- [k \in Messages |-> record[k].hash],
    saved   <- gmail,
    told    <- answers,
    steady  <- ~ disturbed

ImplementsOneReply == Promise!Spec

-----------------------------------------------------------------------------
(* The inductive invariants behind these: FaultyInv whatever happens,        *)
(* CleanInv while nothing has disturbed the calls.                           *)

\* Which fields a call has filled at each of its steps.
RunShape ==
    \A r \in Runs :
        /\ run[r].pc # "idle" => run[r].key \in Messages /\ run[r].request \in Requests
        /\ run[r].pc \in {"drafted", "traced", "persisted"} => run[r].out \in Outcome

\* A completed key has a result to replay.
ResultShape ==
    \A k \in Messages : record[k].status = "completed" => record[k].result \in Outcome

\* The hash of a key never changes: every call that holds it has that payload.
SamePayload ==
    \A r \in Runs, k \in Messages : Holds(r, k) =>
        record[k].status # "absent" /\ record[k].hash = run[r].request

\* What a call is about to record fits its request, and is traced as far as it got.
RunFits(r) ==
    LET c == run[r] IN
    /\ c.pc \in {"drafted", "traced", "persisted"} => Fits(c.key, c.request, c.out)
    /\ c.pc \in {"drafted", "traced"} => c.out \in Drafts
    /\ c.pc = "traced" => <<"decision", c.out, c.key>> \in log
    /\ c.pc = "persisted" => Traced(c.key, c.out)

WorkFits == \A r \in Runs : RunFits(r)

RecordFits ==
    \A k \in Messages : record[k].status = "completed" =>
        /\ Fits(k, record[k].hash, record[k].result)
        /\ Traced(k, record[k].result)

FaultyInv ==
    /\ TypeOK /\ RunShape /\ ResultShape /\ SamePayload /\ WorkFits /\ RecordFits
    /\ AnswersFitRequests /\ AnsweredIsTraced

\* A call holds a fresh claim until it has recorded its outcome.
Claims ==
    \A r \in Runs, k \in Messages : Holds(r, k) =>
        record[k].status = "in_progress" /\ k \notin stale

QuietInv ==
    /\ TypeOK /\ RunShape /\ ResultShape /\ SamePayload
    /\ Claims /\ SoleHolder /\ AnswersStand

CleanInv == ~ disturbed => QuietInv

\* A key nobody has claimed is bound to no payload.
Unbound == \A k \in Messages : record[k].status = "absent" => record[k].hash = None

PromiseInv == FaultyInv /\ CleanInv /\ Unbound

-----------------------------------------------------------------------------
(* What the tests say, and the code does not do. *)

\* tests/inboundDraft.test.ts: "idempotent on messageId (no duplicate drafts)".
OneDraftPerMessage == \A g, h \in gmail : g.key = h.key => g = h
=============================================================================
