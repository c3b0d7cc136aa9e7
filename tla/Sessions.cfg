CONSTANTS
    Requests = {r1, r2}
    Users = {u1}
    Tenants = {t1}
    Workspaces = {w1}
    Services = {}
    RoleSets <- Members
    Ops = {"login", "rotate", "logout"}
    MaxTokens = 3
    MaxChanges = 1
    None = None
SYMMETRY Interchangeable
SPECIFICATION Spec
INVARIANTS RotatedIsDead SurvivorsOvertook
