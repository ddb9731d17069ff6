SPECIFICATION Spec
CONSTANTS
    None = None
    s1 = s1
    s2 = s2
    Syncers = {s1}
    Editors = {}
    Disconnecters = {d1}
    Cells = {1, 2}
    Windows = {{1, 2}}
    Policies = {p1}
    DefaultPolicy = p1
    Overrides = {o1}
    Accounts = {g1, g2}
    Ids <- MCIds
    Budgets <- MCReadBudgets
INVARIANTS
    NoFormerAccount
    DisconnectedIsErased
    AnswersAreConsistent
PROPERTIES
    ImplementsAvailability
CHECK_DEADLOCK FALSE
