CONSTANTS
    None = None
    States = {t1, t2}
    Grants = {g1, g2}
    Calls = {c1, c2}
SYMMETRY Interchangeable
SPECIFICATION Spec
CHECK_DEADLOCK FALSE
INVARIANTS
    TypeOK ExchangedOnce ExchangedIsAudited ListedIsAudited GrantsAccountedFor
    MailboxIsWhole DisconnectIsComplete
PROPERTY RowAsAssumed
