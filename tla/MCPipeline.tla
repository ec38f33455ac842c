------------------------------ MODULE MCPipeline ------------------------------
(***************************************************************************)
(* Values of the function constants for the instances of CctpPipeline.     *)
(***************************************************************************)
EXTENDS PipelineProperties

OneLogEach == [x \in Txs |-> 1]

\* The first transaction is a contract's that calls deposit() twice.
FirstTxTwoLogs == [x \in Txs |-> IF x = 1 THEN 2 ELSE 1]

EqualAmounts == [x \in Txs |-> 1]

\* The second amount is beyond the approval of the first.
GrowingAmounts == [x \in Txs |-> IF x = 1 THEN 1 ELSE 3]

\* Burns of different content have different message hashes, ...
DistinctHashes == [x \in Txs |-> x]

\* ... burns of equal amounts to the same recipient have the same.
SameHash == [x \in Txs |-> 1]
=============================================================================
