SPECIFICATION WebSpec
CONSTANTS
    d1 = d1
    d2 = d2
    r1 = r1
    r2 = r2
    Deliveries = {d1}
    Reviewers = {r1}
    MaxRetries = 1
    Lease = 2
    Cooldown = 1
    ClaimTime = 1
    DayLength = 3
    RetryCreditLimit = 1
    MaxTime = 5
    ServerErrorMayFollowAcceptance = TRUE
PROPERTIES
    ProcessingResolves
CHECK_DEADLOCK FALSE
