CONSTANTS
    a1 = a1  c1 = c1  m1 = m1  m2 = m2
    None = None
    Approvals = {a1}
    Connections = {c1}
    Messages = {m1, m2}
    Operations = {o1, o2}
    Senders = {s1, s2}
    Reconcilers = {r1}
    ConnOf <- OneConn
    Bound <- OneBound
SYMMETRY Interchangeable
SPECIFICATION Spec
INVARIANTS
    TypeOK
    NoDoubleSend
    RowsTellTheTruth
    AuditBeforeProvider
    LogsTellTheTruth
PROPERTIES
    SpentStaysSpent
    ImplementsSendOnce
