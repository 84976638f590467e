\* Two requests at a time for one slot, a quota per sender and no budget; 2 wei
\* are a gwei, so that rounding shows.
SPECIFICATION Spec
CONSTANTS
    s1 = s1
    a1 = a1
    None = None
    Requests = {r1, r2}
    Slots = {s1}
    SenderOf <- MCSenderOf
    Txs <- MCTxs
    Malformed <- MCMalformed
    Allowlist = {a1}
    MaxCostWei = 3
    QuotaWei = 5
    BudgetWei = None
    WeiPerGwei = 2
    MaxCopies = 2
    MaxHistory = 1
SYMMETRY Symmetry
INVARIANTS
    TypeOK
    
    QueuedAsAgreed
    HeldSlotHasJob
