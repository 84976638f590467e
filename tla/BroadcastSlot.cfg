\* One slot with two keys and two payloads: overlapping handlers, lagging reads.
CONSTANTS
    a = a  b = b  c = c  d = d  k1 = k1  k2 = k2  v1 = v1  v2 = v2  r1 = r1  r2 = r2
    Jobs = {b}
    Data = {v1, v2}
    Unsendable = {}
    Unencodable = {}
    NonceKeys = {k1, k2}
    KeysOf <- Keys
    SeqOf <- Seqs
    Runs = {r1, r2}
    MaxNonceHold = 1
    MaxBroadcastAttempts = 2
    MaxLag = 1
    MaxSeq = 2
    None = None
SYMMETRY Symmetry
CHECK_DEADLOCK FALSE
SPECIFICATION Spec
INVARIANTS
    TypeOK
    NeverSentAhead
    BroadcastWasAccepted
    SupersededIsFinal
