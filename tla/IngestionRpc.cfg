SPECIFICATION Spec
CHECK_DEADLOCK FALSE
CONSTANTS
    Names = {"robinhood_public", "alchemy_free", "archive_node"}
    weight <- Weights
    Logs <- FiveLogs
    LastBlock = 3
    MaxRows <- Rows
    AnswersNull = FALSE
    retry_limit = 1
    initial_backoff = 1
    max_backoff = 2
    failover_order <- Order
    Clients = {"robinhood_public", "alchemy_free"}
    cap <- Caps
    Unobservable = {}
    remaining_calls <- Calls
    remaining_quota <- Quota
    max_response_bytes = 3
    batch_size = 2
    MaxCovers = 2
INVARIANTS TypeOK DecisionIsTrue MetricsReconcile HeaderCallsWithinBlocks GoesOnWithHeaders
PROPERTIES CoverEnds
