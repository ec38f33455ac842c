---------------------------- MODULE MCRetryPaths ----------------------------
(***************************************************************************)
(* Values of the function constants for RetryPaths.                        *)
(***************************************************************************)
EXTENDS RetryPaths

OneLogEach == [x \in Txs |-> 1]
EqualAmounts == [x \in Txs |-> 1]
DistinctHashes == [x \in Txs |-> x]

\* The first deposit goes through the queue, the second through executeBurnOnly.
BothWays == [x \in Txs |-> IF x = 1 THEN "queue" ELSE "burnOnly"]
=============================================================================
