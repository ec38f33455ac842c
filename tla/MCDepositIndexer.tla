-------------------------- MODULE MCDepositIndexer --------------------------
(***************************************************************************)
(* Values of LogsOf for the instances of DepositIndexer.                   *)
(***************************************************************************)
EXTENDS DepositIndexer

\* A depositor calls deposit() directly: one Deposited log per transaction.
OneLogEach == [x \in Txs |-> 1]

\* The first transaction is a contract's that calls deposit() twice.
FirstTxTwoLogs == [x \in Txs |-> IF x = 1 THEN 2 ELSE 1]
=============================================================================
