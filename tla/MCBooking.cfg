SPECIFICATION Spec
CONSTANTS
    u1 = u1
    u2 = u2
    u3 = u3
    r1 = r1
    r2 = r2
    o1 = o1
    None = None
    Org = {o1}
    Requester <- MCRequester
    OrgOf <- MCOrgOf
    ProposalId = {p1}
    CandidateLimit = 1
    MaxStoredOptions = 3
    ReservationRoleLimit = 2
    User = {u1, u2}
    Request = {r1, r2}
    MaxTime = 3
    Durations = {1, 2}
    Deadlines = {3}
    MayLeave = {}
    Calendars <- MCAllFree
    Skew = 1
    MaxRequestOptions = 1
INVARIANTS
    NoDoubleBooking
    HistoryDisjoint
PROPERTIES
    StartedMeetingIsFixed
    ImplementsLedger
CHECK_DEADLOCK FALSE
