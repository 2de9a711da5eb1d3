CONSTANTS
    l1 = l1
    t1 = t1
    t2 = t2
    q1 = q1
    Launch = l1
    Txs <- MCTxs
    Queries <- MCQueries
    ShimOps <- MCWriteOps
    QueryOps <- MCWriteOps
    ShimPipelines = FALSE
    MaxReqs = 2
    MaxIters = 1
    MaxRange = 1
    K = 1
    SecHelper = TRUE
    LedgerFaults = TRUE
    CryptoFaults = TRUE
    ExecFaults = TRUE
SPECIFICATION Spec
INVARIANTS TypeOK QueryNeverWrites OneAnswerPerRequest BusyHasOwner LaunchedIsRunning
CHECK_DEADLOCK FALSE
