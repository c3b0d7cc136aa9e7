CONSTANTS
    m1 = m1  m2 = m2  q1 = q1  q2 = q2
    r1 = r1  r2 = r2  r3 = r3  d1 = d1  d2 = d2  d3 = d3
    None = None
    Messages = {m1, m2}
    Requests = {q1, q2}
    ShouldDraft <- MCShouldDraft
    Runs = {r1, r2, r3}
    Drafts = {d1, d2, d3}
SPECIFICATION Spec
SYMMETRY Interchangeable
CHECK_DEADLOCK FALSE
INVARIANTS
    TypeOK OneRunPerKey AnswerIsOnRecord
    AnswersFitRequests AnsweredIsTraced
PROPERTY ImplementsOneReply
