CONSTANTS
    l1 = l1
    t1 = t1
    t2 = t2
    q1 = q1
    Launch = l1
    Txs <- MCTxs
    Queries <- MCQueries
    ShimOps <- MCRangeOps
    QueryOps <- MCRangeOps
    ShimPipelines = FALSE
    MaxReqs = 2
    MaxIters = 2
    MaxRange = 2
    K = 1
    SecHelper = TRUE
    LedgerFaults = TRUE
    CryptoFaults = TRUE
    ExecFaults = TRUE
SPECIFICATION Spec
INVARIANTS OneAnswerPerRequest LeakOnlyAfterTimeout RangePagingCorrect
CHECK_DEADLOCK FALSE
