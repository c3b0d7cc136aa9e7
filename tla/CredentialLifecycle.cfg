CONSTANTS
    None = None
    Instances = {i1, i2}
    Flights = {f1, f2}
    Requests = {r1, r2}
    Grants = {g1, g2}
SYMMETRY Interchangeable
SPECIFICATION Spec
INVARIANTS TypeOK SingleFlight NoDeadGrantIsUsed HealthSettles
PROPERTY DestroyedUntilConnect
