\* One worker that crashes, loses leases and retries, two jobs.
CONSTANTS
    j1 = j1  j2 = j2  t1 = t1  t2 = t2  w1 = w1  w2 = w2  d1 = d1  d2 = d2
    Jobs = {j1, j2}
    Tokens = {t1, t2}
    Data = {d1}
    Unreadable = {}
    Workers = {w1}
    Outcomes <- LiveOutcomes
    LocalConcurrency = 1
    AlwaysPoll = FALSE
    MaxSuccess = 1
    MaxFailed = 1
    MaxJobErrors = 1
    IdempotencyMode = "Permanent"
    MaxAttempts = 4
    MaxList = 3
    None = None
SPECIFICATION LiveSpec
PROPERTIES
    EveryJobFinishes
    ShutdownEnds
