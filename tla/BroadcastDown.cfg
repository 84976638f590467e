\* One slot, and a node that need not answer.
CONSTANTS
    a = a  b = b  c = c  d = d  k1 = k1  k2 = k2  v1 = v1  v2 = v2  r1 = r1  r2 = r2
    Jobs = {b}
    Data = {v1}
    Unsendable = {}
    Unencodable = {}
    NonceKeys = {k1, k2}
    KeysOf <- Keys
    SeqOf <- Seqs
    Runs = {r1, r2}
    MaxNonceHold = 1
    MaxBroadcastAttempts = 2
    MaxLag = 0
    MaxSeq = 2
    None = None
CHECK_DEADLOCK FALSE
SPECIFICATION DownSpec
PROPERTIES
    EveryJobSettles
