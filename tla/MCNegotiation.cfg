SPECIFICATION Spec
CONSTANTS
    u1 = u1
    u2 = u2
    u3 = u3
    r1 = r1
    r2 = r2
    o1 = o1
    None = None
    Org = {o1}
    Requester <- MCRequester
    OrgOf <- MCOrgOf
    ProposalId = {p1, p2}
    CandidateLimit = 1
    MaxStoredOptions = 2
    ReservationRoleLimit = 2
    User = {u1, u2, u3}
    Request = {r1}
    MaxTime = 3
    Durations = {1}
    Deadlines = {3}
    MayLeave = {u2}
    Calendars <- MCAllFree
    Skew = 0
    MaxRequestOptions = 2
INVARIANTS
    TypeOK
    OptionsOfTarget
    EffectIdsFree
    ReplaysAreTrue
    NotesToOthers
PROPERTIES
    FencedDocuments
CHECK_DEADLOCK FALSE
