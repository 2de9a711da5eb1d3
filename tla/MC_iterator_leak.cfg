CONSTANTS
    l1 = l1
    t1 = t1
    t2 = t2
    q1 = q1
    Launch = l1
    Txs <- MCTxs
    Queries <- MCQueries
    ShimOps <- MCRangeOps
    QueryOps <- MCRangeOps
    ShimPipelines = TRUE
    MaxReqs = 3
    MaxIters = 2
    MaxRange = 2
    K = 1
    SecHelper = FALSE
    LedgerFaults = FALSE
    CryptoFaults = FALSE
    ExecFaults = FALSE
SPECIFICATION Spec
INVARIANT LeakOnlyAfterTimeout
CHECK_DEADLOCK FALSE
