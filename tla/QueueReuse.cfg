\* One worker with one permit, an id that is freed once its job failed and
\* pushed again, and a failed list of length one.
CONSTANTS
    j1 = j1  j2 = j2  t1 = t1  t2 = t2  w1 = w1  w2 = w2  d1 = d1  d2 = d2
    Jobs = {j1, j2}
    Tokens = {t1, t2}
    Data = {d1}
    Unreadable = {}
    Workers = {w1}
    Outcomes <- SomeOutcomes
    LocalConcurrency = 1
    AlwaysPoll = FALSE
    MaxSuccess = 1
    MaxFailed = 1
    MaxJobErrors = 1
    IdempotencyMode = "Permanent"
    MaxAttempts = 2
    MaxList = 4
    None = None
SYMMETRY Symmetry
SPECIFICATION EngineSpec
INVARIANTS
    QueuedJobHasData
