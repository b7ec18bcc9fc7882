\* Two tasks, the second depending on the first, one repair and one amendment.
CONSTANTS
    t1 = t1
    t2 = t2
    m1 = m1
    Tasks = {t1, t2}
    depends_on <- Chain
    Repairs = {m1}
    Interruptible = {"prepare_develop", "finish_develop", "finish_review", "finish_plan", "finish_amendment_review", "finish_maintenance_review"}
    MaxAttempts = 2
    MaxAmendments = 1
    MaxFaults = 1
    NoTask = NoTask
    None = None
SPECIFICATION Spec
INVARIANTS TypeOK ConfigsLoad DeliveredWasReviewed ClaimedContractsHold
PROPERTIES ApprovedIsFinal AttemptsNeverReused AmendmentsLandOnPlans LandsBesideNoTask
CHECK_DEADLOCK FALSE
