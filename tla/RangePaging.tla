----------------------------- MODULE RangePaging -----------------------------
(***************************************************************************)
(* The paging of a ledger range scan by handleRangeQueryState and          *)
(* handleRangeQueryStateNext (handler.go).  A scan of n keys is an         *)
(* iterator position pos in 0..n: the number of keys already sent.  Each   *)
(* reply takes at most Limit (maxRangeQueryStateLimit) pairs from the      *)
(* iterator, and its HasMore is the iterator's Next() after the last pair  *)
(* taken; when HasMore is false the iterator is closed and deleted.        *)
(***************************************************************************)
EXTENDS Naturals, Sequences, FiniteSets

CONSTANT Limit   \* maxRangeQueryStateLimit

ASSUME Limit \in Nat \ {0}

\* Variant of PageEnd whose loop runs while i <= Limit.
PageEndInclusive(n, pos) == IF n - pos <= Limit THEN n ELSE pos + Limit + 1

\* The position after one reply: the loop "for ; hasNext && i < Limit; i++"
\* takes pairs until the range is exhausted or Limit pairs are taken.
PageEnd(n, pos) == IF n - pos < Limit THEN n ELSE pos + Limit

\* HasMore of the reply that starts at pos.
HasMore(n, pos) == PageEnd(n, pos) < n

\* The positions after each reply of a scan: the RANGE_QUERY_STATE reply,
\* then one reply per RANGE_QUERY_STATE_NEXT while HasMore is true.
RECURSIVE PageEnds(_, _)
PageEnds(n, pos) ==
    IF HasMore(n, pos) THEN <<PageEnd(n, pos)>> \o PageEnds(n, PageEnd(n, pos))
    ELSE <<PageEnd(n, pos)>>

\* What a scan promises (spec section 8): its replies carry the keys 1..n
\* in order, each key once; every reply that says HasMore is full (Limit
\* pairs); the last one says HasMore false, holds at most Limit pairs, and
\* is empty only if the range is.
ScanCorrect(n) ==
    LET e == PageEnds(n, 0)
        m == Len(e)
        from(j) == IF j = 1 THEN 0 ELSE e[j - 1]
        keys(j) == from(j) + 1 .. e[j]
    IN /\ e[m] = n
       /\ \A j \in 1..m : from(j) <= e[j]
       /\ \A j \in 1..m : HasMore(n, from(j)) <=> j < m
       /\ \A j \in 1..m - 1 : Cardinality(keys(j)) = Limit
       /\ Cardinality(keys(m)) <= Limit
       /\ n > 0 => keys(m) # {}

=============================================================================
