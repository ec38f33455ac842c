-------------------------- MODULE MCLegacyListener --------------------------
(***************************************************************************)
(* Values for the instance of LegacyListener.                              *)
(***************************************************************************)
EXTENDS LegacyListener, TLC

\* The first transaction is a contract's that calls deposit() twice.
FirstTxTwoLogs == [x \in Txs |-> IF x = 1 THEN 2 ELSE 1]

Symmetry == Permutations(Handlers)
=============================================================================
