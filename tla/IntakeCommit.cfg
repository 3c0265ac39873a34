SPECIFICATION Spec
CONSTANTS
    s1 = s1
    s2 = s2
    s3 = s3
    Submissions = {s1}
    Size <- SizeValues
    LeadLimit = 1
    ByteLimit = 1
    CreditLimit = 2
    DayLength = 2
    ReservationWindow = 1
    Grace = 1
    PlanAge = 1
    MaxTime = 3
    CommitAnswerMayBeLost = TRUE
INVARIANTS
    LeadHasResume
