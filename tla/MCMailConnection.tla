-------------------------- MODULE MCMailConnection --------------------------
(* MailConnection for TLC: states, grants and calls are alike.               *)
EXTENDS MailConnection, TLC

Interchangeable == Permutations(States) \cup Permutations(Grants) \cup Permutations(Calls)
=============================================================================
