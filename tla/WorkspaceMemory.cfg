SPECIFICATION Spec
CONSTANTS
    None = None
    Followups = {"f1"}
    Calls = {c1, c2, c3}
    Contacts = {k1, k2}
    MAX_SUMMARIES = 2
    c1 = c1
    c2 = c2
    c3 = c3
    c4 = c4
    k1 = k1
    k2 = k2
SYMMETRY Interchangeable
INVARIANTS OutcomesArePaths InteractionsAreKept
