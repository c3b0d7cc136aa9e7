------------------------------ MODULE OneReply ------------------------------
(***************************************************************************)
(* What runInboundDraft promises to whoever asks it to draft a reply: a    *)
(* message is bound to the first payload it comes with; an answer is a     *)
(* draft saved for that message and payload, or no_action where it calls   *)
(* for none; and, while the executions are steady, every caller is told    *)
(* the same.  Nothing is said of claims, retries, crashes, replays or      *)
(* traces.                                                                 *)
(***************************************************************************)
CONSTANTS
    Messages,     \* idempotency keys
    Requests,     \* request payloads
    ShouldDraft,  \* the requests that call for a reply
    Drafts,       \* Gmail draft ids
    None          \* a message nobody has asked about

VARIABLES
    payload,      \* the request each message is bound to
    saved,        \* drafts [draft, key, request] at Gmail
    told,         \* answers [key, request, result] callers have had
    steady        \* no call has outlived its claim, no acknowledgement was lost

promise == <<payload, saved, told, steady>>

Init ==
    /\ payload = [k \in Messages |-> None]
    /\ saved = {} /\ told = {} /\ steady = TRUE

Bind(k, q) ==
    /\ payload[k] = None
    /\ payload' = [payload EXCEPT ![k] = q]
    /\ UNCHANGED <<saved, told, steady>>

Save(k, d) ==
    /\ payload[k] \in ShouldDraft
    /\ \A s \in saved : s.draft # d
    /\ saved' = saved \cup {[draft |-> d, key |-> k, request |-> payload[k]]}
    /\ UNCHANGED <<payload, told, steady>>

Made(k, x) ==
    \/ x = "no_action" /\ payload[k] \in Requests \ ShouldDraft
    \/ \E s \in saved : s = [draft |-> x, key |-> k, request |-> payload[k]]

Answer(k, x) ==
    /\ Made(k, x)
    /\ steady => \A a \in told : a.key = k => a.result = x
    /\ told' = told \cup {[key |-> k, request |-> payload[k], result |-> x]}
    /\ UNCHANGED <<payload, saved, steady>>

Unsettle == steady' = FALSE /\ UNCHANGED <<payload, saved, told>>

Next ==
    \/ Unsettle
    \/ \E k \in Messages :
           \/ \E q \in Requests : Bind(k, q)
           \/ \E d \in Drafts : Save(k, d) \/ Answer(k, d)
           \/ Answer(k, "no_action")

Spec == Init /\ [][Next]_promise
=============================================================================
