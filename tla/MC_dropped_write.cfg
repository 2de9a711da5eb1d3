CONSTANTS
    l1 = l1
    t1 = t1
    t2 = t2
    q1 = q1
    Launch = l1
    Txs <- MCTxs
    Queries <- MCNoQueries
    ShimOps <- MCWriteOps
    QueryOps <- MCWriteOps
    ShimPipelines = TRUE
    MaxReqs = 2
    MaxIters = 1
    MaxRange = 1
    K = 1
    SecHelper = FALSE
    LedgerFaults = FALSE
    CryptoFaults = FALSE
    ExecFaults = FALSE
SPECIFICATION Spec
INVARIANT BusyHasOwner
CHECK_DEADLOCK FALSE
