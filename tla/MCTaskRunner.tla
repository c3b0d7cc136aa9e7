---------------------------- MODULE MCTaskRunner ----------------------------
EXTENDS TaskRunner, TLC

CONSTANTS t1, e1, e2, e3, subject, status, short, x1, x2

Sure == [goalFit |-> 98, evidenceQuality |-> 98, policyFit |-> 98, expectedValue |-> 98,
         reversibility |-> 98, downsideRisk |-> 2, ambiguity |-> 2, contradictions |-> 0,
         blockers |-> FALSE]

\* A sure candidate; two of them, so close that a person must choose; one with a
\* blocker; one whose downside is too risky.
MCPlans ==
    {<<Sure>>, <<[Sure EXCEPT !.goalFit = 90], Sure>>, <<[Sure EXCEPT !.blockers = TRUE]>>,
     <<[Sure EXCEPT !.downsideRisk = 70]>>}

Interchangeable == Permutations(Executions)
=============================================================================
