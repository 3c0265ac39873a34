SPECIFICATION Spec
CONSTANTS
    s1 = s1
    s2 = s2
    s3 = s3
    Submissions = {s1, s2}
    Size <- SizeValues
    LeadLimit = 2
    ByteLimit = 2
    CreditLimit = 2
    DayLength = 2
    ReservationWindow = 1
    Grace = 1
    PlanAge = 1
    MaxTime = 3
    CommitAnswerMayBeLost = TRUE
INVARIANTS
    TypeOK
    AcknowledgedDurable
    CountersExact
    PlanCarriedOut
PROPERTIES
    AuditSparesLeads
