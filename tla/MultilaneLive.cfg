\* Two lanes, two jobs, one worker with one permit.
CONSTANTS
    a = a  b = b  j1 = j1  j2 = j2  t1 = t1  t2 = t2  w1 = w1  w2 = w2
    Lanes = {a, b}
    Jobs = {j1, j2}
    Tokens = {t1}
    Workers = {w1}
    Unreadable = {}
    Outcomes <- SomeOutcomes
    LocalConcurrency = 1
    AlwaysPoll = TRUE
    MaxSuccess = 1
    MaxFailed = 1
    IdempotencyMode = "Permanent"
    MaxList = 1
    None = None
SPECIFICATION LiveSpec
PROPERTIES
    LaneIsServed
