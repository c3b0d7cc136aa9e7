--------------------------- MODULE MCSendApproval ---------------------------
(* SendApproval for TLC: one approval of one of two messages.                *)
EXTENDS SendApproval, TLC

CONSTANTS a1, c1, m1, m2

OneConn  == (a1 :> c1)
OneBound == (a1 :> m1)

\* Calls, operation ids and operators are interchangeable.
Interchangeable ==
    Permutations(Senders) \cup Permutations(Operations) \cup Permutations(Reconcilers)
=============================================================================
