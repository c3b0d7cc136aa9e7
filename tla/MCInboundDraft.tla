--------------------------- MODULE MCInboundDraft ---------------------------
EXTENDS InboundDraft, TLC

CONSTANTS m1, m2, q1, q2, r1, r2, r3, d1, d2, d3

\* One request that calls for a reply, and one that does not.
MCShouldDraft == {q1}

Interchangeable ==
    Permutations(Runs) \cup Permutations(Drafts) \cup Permutations(Messages)
=============================================================================
