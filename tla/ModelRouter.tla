---------------------------- MODULE ModelRouter ----------------------------
(***************************************************************************)
(* AaliyahModelRouter with its ProviderHealthTracker, the three provider   *)
(* adapters behind it and routerDraftGenerator in front of it.  Requests   *)
(* share the tracker and interleave at the await of each attempt; an       *)
(* attempt races a timer, and the answer that comes after the timer finds  *)
(* its promise settled.                                                    *)
(***************************************************************************)
EXTENDS Naturals

CONSTANTS
    Requests,   \* concurrent calls of generate
    Configured, \* the providers of the adapters
    Rank,       \* their places in the array of adapters
    Threshold,  \* failureThreshold
    Cooldown,   \* cooldownMs, in ticks of the model
    None

VARIABLES
    fails,  \* consecutiveFailures, up to Threshold: the code only compares them
    cool,   \* what is left of unhealthyUntil, in ticks
    req,    \* the requests in progress
    late,   \* attempts of these whose timer has fired and whose answer is still out
    streak  \* history: the attempts on a provider that failed since its last answer, up to Threshold

vars == <<fails, cool, req, late, streak>>

Providers == {"openai", "anthropic", "gemini"}
ASSUME ModelRouterAssumption ==
    /\ Configured \subseteq Providers /\ Configured # {}
    /\ Rank \in [Configured -> Nat] /\ \A p, q \in Configured : Rank[p] = Rank[q] => p = q
    /\ Threshold \in Nat \ {0} /\ Cooldown \in Nat \ {0}
    /\ None \notin Providers

Attempts == Requests \X Configured
Texts == {"text", "empty"}
Request == [pc : {"idle", "calling", "answered", "failed"},
            left : SUBSET Configured,       \* the attempt in progress and those to come
            tried : SUBSET Configured,      \* failures, in the code
            answer : Texts \cup {None}, by : Configured \cup {None},
            skipped : SUBSET Configured,    \* history: whom order() left out,
            wronged : SUBSET Configured]    \* and who of them had not failed Threshold times
Idle == [pc |-> "idle", left |-> {}, tried |-> {}, answer |-> None, by |-> None,
         skipped |-> {}, wronged |-> {}]

TypeOK ==
    /\ fails \in [Configured -> 0..Threshold]
    /\ cool \in [Configured -> 0..Cooldown]
    /\ req \in [Requests -> Request]
    /\ late \subseteq Attempts
    /\ streak \in [Configured -> 0..Threshold]

Init ==
    /\ fails = [p \in Configured |-> 0] /\ cool = [p \in Configured |-> 0]
    /\ req = [r \in Requests |-> Idle]
    /\ late = {}
    /\ streak = [p \in Configured |-> 0]

UpTo(n, max) == IF n > max THEN max ELSE n

-----------------------------------------------------------------------------
(* The health of a provider *)

IsHealthy(p) == cool[p] = 0

\* Mutant: the count starts again, the provider stays shunned.
RecordSuccessCountOnly(p) ==
    /\ fails' = [fails EXCEPT ![p] = 0]
    /\ cool' = cool
    /\ streak' = [streak EXCEPT ![p] = 0]

RecordSuccess(p) ==
    /\ fails' = [fails EXCEPT ![p] = 0]
    /\ cool' = [cool EXCEPT ![p] = 0]
    /\ streak' = [streak EXCEPT ![p] = 0]

\* The count is not reset when a cooldown is over: one failure starts the next.
RecordFailure(p) ==
    /\ fails' = [fails EXCEPT ![p] = UpTo(@ + 1, Threshold)]
    /\ cool' = IF fails[p] + 1 >= Threshold THEN [cool EXCEPT ![p] = Cooldown] ELSE cool
    /\ streak' = [streak EXCEPT ![p] = UpTo(@ + 1, Threshold)]

Tick ==
    /\ \E p \in Configured : cool[p] > 0
    /\ cool' = [p \in Configured |-> IF cool[p] = 0 THEN 0 ELSE cool[p] - 1]
    /\ UNCHANGED <<fails, req, late, streak>>

-----------------------------------------------------------------------------
(* The adapters *)

\* What a provider, or the lack of its key, can come back with.
Replies == {"text", "empty", "refusal", "http_error", "transport_error", "no_key"}

\* What generate of the adapter makes of it: a text or a throw.  Each asks for
\* its key first.  Only Anthropic's looks for a refusal; a refusal of OpenAI is
\* an answer without output text.  A missing text is the empty one.
OpenAIAdapter(reply) ==
    CASE reply \in {"no_key", "http_error", "transport_error"} -> "throw"
      [] reply = "refusal" -> "empty"
      [] OTHER -> reply
AnthropicAdapter(reply) ==
    IF reply \in {"no_key", "http_error", "transport_error", "refusal"} THEN "throw" ELSE reply
GeminiAdapter(reply) ==
    CASE reply \in {"no_key", "http_error", "transport_error"} -> "throw"
      [] reply = "refusal" -> "empty" \* no candidates
      [] OTHER -> reply
Generate(p, reply) ==
    CASE p = "openai"    -> OpenAIAdapter(reply)
      [] p = "anthropic" -> AnthropicAdapter(reply)
      [] p = "gemini"    -> GeminiAdapter(reply)

-----------------------------------------------------------------------------
(* generate of the router *)

\* Computed once, when the request begins.
Healthy == {p \in Configured : IsHealthy(p)}
Order == IF Healthy # {} THEN Healthy ELSE Configured

Begin(r) ==
    /\ req[r].pc = "idle"
    /\ req' = [req EXCEPT ![r] = [Idle EXCEPT !.pc = "calling", !.left = Order,
                                    !.skipped = Configured \ Order,
                                    !.wronged = {p \in Configured \ Order : streak[p] < Threshold}]]
    /\ UNCHANGED <<fails, cool, late, streak>>

Current(r) == CHOOSE p \in req[r].left : \A q \in req[r].left : Rank[p] <= Rank[q]

\* Mutant: the provider that failed is asked again.
SameProvider(r) ==
    /\ RecordFailure(Current(r))
    /\ req' = [req EXCEPT ![r].tried = @ \cup {Current(r)}]

\* The catch: on to the next of the order, or AllProvidersFailedError.
NextProvider(r) ==
    /\ RecordFailure(Current(r))
    /\ req' = [req EXCEPT ![r].tried = @ \cup {Current(r)},
                          ![r].left = @ \ {Current(r)},
                          ![r].pc = IF req[r].left = {Current(r)} THEN "failed" ELSE "calling"]

\* The attempt settles before its timer.
Settle(r, reply) ==
    /\ req[r].pc = "calling"
    /\ LET result == Generate(Current(r), reply) IN
       IF result = "throw" THEN NextProvider(r)
       ELSE /\ RecordSuccess(Current(r))
            /\ req' = [req EXCEPT ![r].pc = "answered", ![r].answer = result, ![r].by = Current(r)]
    /\ UNCHANGED late

\* The timer of withTimeout: the call goes on, nobody listens to it.
Timeout(r) ==
    /\ req[r].pc = "calling"
    /\ NextProvider(r)
    /\ late' = late \cup {<<r, Current(r)>>}

\* Mutant: whatever answers is the answer of the request.
LateReplyWins(r, p, reply) ==
    /\ <<r, p>> \in late
    /\ late' = late \ {<<r, p>>}
    /\ req' = IF req[r].pc = "calling" /\ Generate(p, reply) # "throw"
              THEN [req EXCEPT ![r].pc = "answered", ![r].answer = Generate(p, reply), ![r].by = p]
              ELSE req
    /\ UNCHANGED <<fails, cool, streak>>

\* The call of a settled promise ends: neither the request nor the health hears of it.
LateReply(r, p, reply) ==
    /\ <<r, p>> \in late
    /\ late' = late \ {<<r, p>>}
    /\ UNCHANGED <<fails, cool, req, streak>>

\* routerDraftGenerator: an empty text becomes the fixed sentence, a throw is the caller's.
DraftBody(q) == IF q.answer = "empty" THEN "Thank you for your message." ELSE "text"
Deliver(r, body) ==
    /\ req[r].pc \in {"answered", "failed"}
    /\ req[r].pc = "answered" => body = DraftBody(req[r])
    /\ req' = [req EXCEPT ![r] = Idle]
    /\ late' = {a \in late : a[1] # r}
    /\ UNCHANGED <<fails, cool, streak>>

Bodies == {"text", "Thank you for your message."}
RequestStep(r) ==
    \/ Timeout(r)
    \/ \E reply \in Replies : Settle(r, reply)
    \/ \E body \in Bodies : Deliver(r, body)
Next ==
    \/ \E r \in Requests : Begin(r) \/ RequestStep(r)
    \/ \E r \in Requests, p \in Configured, reply \in Replies : LateReply(r, p, reply)
    \/ Tick

\* Timers fire and callers take their results; no provider owes an answer.
Spec == Init /\ [][Next]_vars /\ \A r \in Requests : WF_vars(RequestStep(r))

-----------------------------------------------------------------------------
(* What must hold *)

\* generate (AaliyahModelRouter): a request fails only when it has tried every
\* provider of a non-empty order and left out only some that cooled down when
\* it began; its answer is the one of the attempt it was waiting for, whatever
\* answers of its earlier attempts are still out.
ResultsAreEarned ==
    \A r \in Requests :
        /\ req[r].pc = "failed" =>
              req[r].tried # {} /\ req[r].tried \cup req[r].skipped = Configured
        /\ req[r].pc = "answered" =>
              /\ req[r].answer \in Texts
              /\ req[r].by = Current(r) /\ req[r].by \notin req[r].tried \cup req[r].skipped

\* ProviderHealthTracker: whom a request leaves out has failed Threshold times
\* since it last answered anybody, however the outcomes of concurrent requests
\* come in.
SkippedHadFailed == \A r \in Requests : req[r].wronged = {}

\* Every request ends: its attempts are bounded by timers, its order is finite.
RequestsEnd == \A r \in Requests : req[r].pc = "calling" ~> req[r].pc = "idle"
=============================================================================
