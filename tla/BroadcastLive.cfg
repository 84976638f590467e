\* A slot that waits for its predecessor, and two malformed ones.
CONSTANTS
    a = a  b = b  c = c  d = d  k1 = k1  k2 = k2  v1 = v1  v2 = v2  r1 = r1  r2 = r2
    Jobs = {b, c, d}
    Data = {v1}
    Unsendable = {d}
    Unencodable = {c}
    NonceKeys = {k1, k2}
    KeysOf <- Keys
    SeqOf <- Seqs
    Runs = {r1}
    MaxNonceHold = 1
    MaxBroadcastAttempts = 2
    MaxLag = 0
    MaxSeq = 1
    None = None
CHECK_DEADLOCK FALSE
SPECIFICATION LiveSpec
PROPERTIES
    EveryJobSettles
