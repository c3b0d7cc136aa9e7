------------------------------ MODULE SendOnce ------------------------------
(***************************************************************************)
(* What the send plane promises to the person who approves a message: an   *)
(* approval authorises ONE specific message, and it lands at most once.    *)
(* (sendApproval.ts: "Record a human approval to send ONE specific         *)
(* message".)  Nothing is said of claims, retries, audits or operators.    *)
(***************************************************************************)
CONSTANTS
    Approvals,   \* approval ids
    Operations,  \* operation ids, one per attempt
    Messages,    \* recipients, subject and body, as one value
    Bound        \* the message each approval was issued for

VARIABLES
    granted,     \* approvals a caller holds
    landed       \* deliveries [approval, operation, message]

promise == <<granted, landed>>

Delivery == [approval : Approvals, operation : Operations, message : Messages]

Init == granted = {} /\ landed = {}

Grant(a) ==
    /\ a \notin granted
    /\ granted' = granted \cup {a}
    /\ UNCHANGED landed

\* The provider accepts the message of a granted approval nothing landed for.
Land(a, o) ==
    /\ a \in granted
    /\ \A d \in landed : d.approval # a
    /\ landed' = landed \cup
         {[approval |-> a, operation |-> o, message |-> Bound[a]]}
    /\ UNCHANGED granted

Next ==
    \E a \in Approvals :
        \/ Grant(a)
        \/ \E o \in Operations : Land(a, o)

Spec == Init /\ [][Next]_promise
=============================================================================
