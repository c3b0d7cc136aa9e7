CONSTANTS
    a1 = a1  c1 = c1  m1 = m1  m2 = m2
    None = None
    Approvals = {a1}
    Connections = {c1}
    Messages = {m1, m2}
    Operations = {o1, o2, o3}
    Senders = {s1}
    Reconcilers = {r1, r2}
    ConnOf <- OneConn
    Bound <- OneBound
SYMMETRY Interchangeable
SPECIFICATION Spec
INVARIANT
    NoDoubleSend
