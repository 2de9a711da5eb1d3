CONSTANTS
    l1 = l1
    t1 = t1
    t2 = t2
    q1 = q1
    Launch = l1
    Txs <- MCTxs
    Queries <- MCQueries
    ShimOps <- MCLiveOps
    QueryOps <- MCQueryReadOps
    ShimPipelines = FALSE
    MaxReqs = 1
    MaxIters = 1
    MaxRange = 2
    K = 1
    SecHelper = FALSE
    LedgerFaults = TRUE
    CryptoFaults = FALSE
    ExecFaults = FALSE
SPECIFICATION Spec
PROPERTIES RequestAnswered FinishedCallerReleased IteratorReleased LifecycleRefined
CHECK_DEADLOCK FALSE
