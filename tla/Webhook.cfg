SPECIFICATION Spec
CONSTANTS
    MaxAttempts = 5
    Lasts = {0, 10, 40, 21600}
    Durable = TRUE
    JobTimeout = 21600
    Outages = {0, 1, 14, 15, 16, 65, 66, 600}
    Refuses = TRUE
    MaxDeaths = 2
INVARIANTS TypeOK BriefOutageSurvived BackoffSpent
CHECK_DEADLOCK FALSE
