SPECIFICATION DeskSpec
SYMMETRY Requests
CONSTANTS
    d1 = d1
    r1 = r1
    r2 = r2
    Leads = {1, 2, 3}
    Early = {1, 3}
    Paged = 1
    Deliveries = {d1}
    Numbers = {1, 2}
    Reviewers = {r1, r2}
    Texts = {{1, 2, 3}}
    PageSize = 1
    TicksPerSecond = 2
    TicketLife = 1
    MaxTime = 2
INVARIANTS
    DeskTypeOK
    ToldTheTruth
    NoLeadTwice
    ListingComplete
    PageCoherent
PROPERTIES
    AuditKept
    TicketLifetime
