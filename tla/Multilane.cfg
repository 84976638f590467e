\* Two lanes, two jobs, two workers with one permit each.
CONSTANTS
    a = a  b = b  j1 = j1  j2 = j2  t1 = t1  t2 = t2  w1 = w1  w2 = w2
    Lanes = {a, b}
    Jobs = {j1, j2}
    Tokens = {t1, t2}
    Workers = {w1, w2}
    Unreadable = {}
    Outcomes <- SomeOutcomes
    LocalConcurrency = 1
    AlwaysPoll = FALSE
    MaxSuccess = 1
    MaxFailed = 1
    IdempotencyMode = "Permanent"
    MaxList = 1
    None = None
SYMMETRY Symmetry
SPECIFICATION Spec
INVARIANTS
    TypeOK
    LanesWithJobsAreListed
    JobIsInItsLane
