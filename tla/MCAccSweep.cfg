SPECIFICATION Spec
CONSTANTS
    None = None
    s1 = s1
    s2 = s2
    b1 = b1
    b2 = b2
    Users = {1, 2, 3, 4}
    Subjects = {s1, s2}
    FirstId <- MCTwoIds
    Established <- MCTwo
    Browsers = {b1, b2}
    Cookies <- MCTwoCookies
    Deleters = {d1}
    Operator = op
    Offered = {"ADMIN"}
    PageLimit = 1
    Budgets <- MCSweepBudgets
INVARIANTS
    TypeOK
    ErasedOnceComplete
    MembershipsCoherent
    OneAccount
PROPERTIES
    NeverAbandoned
CHECK_DEADLOCK FALSE
