------------------------- MODULE MC_ChaincodeHandler -------------------------
(* Model values for the launch uuid, two transactions and one query, and  *)
(* the request repertoires the runs give the shim.                        *)
EXTENDS ChaincodeHandler

CONSTANTS l1, t1, t2, q1

MCTxs == {t1}
\* Two transactions, executed one after the other.
MCTwoTxs == {t1, t2}
MCQueries == {q1}
MCNoQueries == {}
\* Writes, a read, and a nested invoke.
MCWriteOps == {"PUT_STATE", "GET_STATE", "INVOKE_CHAINCODE"}
\* Range scans.
MCRangeOps == {"RANGE_QUERY_STATE", "RANGE_QUERY_STATE_NEXT", "RANGE_QUERY_STATE_CLOSE"}
\* A query whose chaincode keeps the query contract: it only reads.
MCQueryReadOps == {"GET_STATE"}
\* A transaction's write and range scan, for the liveness run.
MCLiveOps == {"PUT_STATE", "RANGE_QUERY_STATE"}

\* The paging operators for other values of maxRangeQueryStateLimit.
Scan(l) == INSTANCE RangePaging WITH Limit <- l

\* The replies of handleRangeQueryState and handleRangeQueryStateNext page
\* every range of up to 7 keys as spec section 8 says, for limits 1 to 3
\* (full pages while HasMore, each key once and in order, HasMore false on
\* the last reply only), and every iterator the handler has used stands at
\* the end of one of those replies of its own scan.
RangePagingCorrect ==
    /\ \A l \in 1..3, n \in 0..7 : Scan(l)!ScanCorrect(n)
    /\ \A i \in IterIds :
         iters[i].st # "free" => iters[i].pos \in Range(Scan(K)!PageEnds(iters[i].n, 0))
=============================================================================
