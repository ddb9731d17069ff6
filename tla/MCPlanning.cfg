SPECIFICATION Spec
CONSTANTS
    None = None
    Cases <- MCCases
    Step = 2
    MaxOffers = 3
    SourceMaxAge = 4
    EvidenceLimit = 3
    ProjectionTTL = 4
INVARIANTS
    RowsStayTrue
    ViewShowsRows
    OfferedIsConfirmable
    BestAreOffered
    OffersKeepClear
CHECK_DEADLOCK FALSE
