SPECIFICATION Spec
CONSTANTS
    MaxAttempts = 5
    Lasts = {0, 10, 40, 21600}
    Durable = TRUE
    JobTimeout = 21600
    Outages = {600}
    Refuses = FALSE
    MaxDeaths = 0
INVARIANT TenMinutesSurvived
CHECK_DEADLOCK FALSE
