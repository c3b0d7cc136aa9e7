SPECIFICATION Spec
CONSTANTS
    t1 = t1
    e1 = e1
    e2 = e2
    e3 = e3
    subject = subject
    status = status
    short = short
    x1 = x1
    x2 = x2
    None = None
    Tasks = {t1}
    Executions = {e1, e2}
    Titles = {subject, status, short}
    ShortTitles = {short}
    Excerpts = {x1, x2}
    WorkflowTitle = status
    MaxItems = 1
    Limit = 2
    Configured = TRUE
    Plans <- MCPlans
SYMMETRY Interchangeable
CHECK_DEADLOCK FALSE
INVARIANTS ActsAreLicensed ActsOnce AnswersAreTrue
