CONSTANTS
    Requests = {r1}
    Users = {u1}
    Tenants = {t1, t2}
    Workspaces = {w1}
    Services = {s1}
    RoleSets <- MembersAndAdmins
    Ops = {"login", "call", "logout"}
    MaxTokens = 2
    MaxChanges = 2
    None = None
SYMMETRY Interchangeable
SPECIFICATION Spec
INVARIANTS AnswersAreRecent
