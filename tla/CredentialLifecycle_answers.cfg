CONSTANTS
    None = None
    Instances = {i1}
    Flights = {f1, f2}
    Requests = {r1, r2}
    Grants = {g1}
SPECIFICATION FairSpec
PROPERTY CallersAnswered
