----------------------- MODULE MCCredentialLifecycle -----------------------
(* CredentialLifecycle for TLC: instances, refreshes and callers are alike,  *)
(* and so are consents.                                                      *)
EXTENDS CredentialLifecycle, TLC

Interchangeable ==
    Permutations(Instances) \cup Permutations(Flights)
    \cup Permutations(Requests) \cup Permutations(Grants)
=============================================================================
