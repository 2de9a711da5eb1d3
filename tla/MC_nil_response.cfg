CONSTANTS
    l1 = l1
    t1 = t1
    t2 = t2
    q1 = q1
    Launch = l1
    Txs <- MCTxs
    Queries <- MCQueries
    ShimOps <- MCWriteOps
    QueryOps <- MCWriteOps
    ShimPipelines = FALSE
    MaxReqs = 1
    MaxIters = 1
    MaxRange = 1
    K = 1
    SecHelper = FALSE
    LedgerFaults = FALSE
    CryptoFaults = FALSE
    ExecFaults = TRUE
SPECIFICATION Spec
INVARIANT ExecuteFailureAnswered
CHECK_DEADLOCK FALSE
