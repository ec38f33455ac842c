-------------------------- MODULE PipelineProperties --------------------------
(***************************************************************************)
(* What is checked of CctpPipeline.  IndexerSpec, inherited from           *)
(* DepositIndexer, is one of the properties: the pipeline's steps are      *)
(* steps of the listener's module or leave its state alone.                *)
(***************************************************************************)
EXTENDS CctpPipeline

CallStages == {"none", "submit", "mark", "wait", "confirm", "fail"}
BeforeBurn == {"balance", "approve", "approving", "burn"}
AfterSave == {"attest", "saveAttestation", "saveLegacy", "attestationFailed", "mint",
              "receive", "minting", "complete", "giza", "mintFailed"}
WfStages == BeforeBurn \union AfterSave
              \union {"none", "burning", "burnFailed", "saveBurn", "done", "lost"}

TypeOK ==
    /\ IndexerTypeOK
    /\ rows \in Rows(Txs)
    /\ \A x \in Txs : Exists(rows, x) <=> x \in transfers
    /\ vault \in Nat /\ withdrawn \subseteq Txs
    /\ bridgeWallet \in Nat /\ allowance \in Nat /\ arbWallet \in Nat
    /\ vaultTx \in [Runs -> TxStates]
    /\ approveTx \in [Runs -> TxStates]
    /\ burnTx \in [Runs -> TxStates]
    /\ mintTx \in [Runs -> TxStates]
    /\ call \in [stage : CallStages, pre : Nat]
    /\ wf \in [Runs -> [stage : WfStages, pre : Nat, minted : Nat]]
    /\ principal \in [Txs -> Nat]

-----------------------------------------------------------------------------
(* Custody: the chains' transactions, whatever the rows say.               *)

MinedFor(tx, x) == \E k \in 1 .. MaxRuns : tx[<<x, k>>] = "mined"

PlaceOf(x) ==
    CASE MinedFor(mintTx, x) -> "arbitrum"
      [] MinedFor(burnTx, x) /\ ~MinedFor(mintTx, x) -> "burned"
      [] MinedFor(vaultTx, x) /\ ~MinedFor(burnTx, x) /\ ~MinedFor(mintTx, x)
           -> "bridgeWallet"
      [] Mined(x) /\ ~MinedFor(vaultTx, x) /\ ~MinedFor(burnTx, x)
           /\ ~MinedFor(mintTx, x) -> "vault"
      [] OTHER -> "depositor"

Custody == INSTANCE CustodyFlow
             WITH Deposits <- Txs, place <- [x \in Txs |-> PlaceOf(x)]

\* With one log per transaction, the pipeline moves the USDC of a deposit vault
\* -> bridge wallet -> burned -> Arbitrum, each step at most once and never out
\* of order, through crashes, refused and delayed transactions and lost updates.
CustodySpec == Custody!Spec

\* No second transaction is ever accepted for a deposit at any of the stages.
OneTransactionEach ==
    \A x \in Txs : \A tx \in {vaultTx, burnTx, mintTx} :
        Cardinality({ k \in 1 .. MaxRuns : tx[<<x, k>>] # "none" }) <= 1

\* The wallet never spends what it was not paid: a workflow burns only USDC that
\* was bridged for it, so what is left covers the deposits bridged and not burned.
WalletHoldsUnburned ==
    bridgeWallet = MapThenSumSet(LAMBDA x : Amount[x],
                       { x \in Txs : MinedFor(vaultTx, x) /\ ~MinedFor(burnTx, x) })

-----------------------------------------------------------------------------
(* Rows against chains.                                                    *)

\* A row never claims what did not happen: no row goes past the bridge before USDC
\* of its deposit was bridged, the columns of the burn and of the mint name
\* transactions of this deposit that were mined, and COMPLETED comes with its mint.
\* The bridge column does so while the row is CONFIRMED; later a second log's call may
\* have put its own transaction there, which is not mined yet or never will be.
RowsTellTheTruth ==
    \A x \in Txs :
        LET r == rows[x]
        IN  /\ r.status = "VAULT_TO_BRIDGE_TRANSFER_CONFIRMED" =>
                   vaultTx[<<x, r.bridgeTx>>] = "mined"
            /\ r.status \notin BeforeWorkflow \union {NoRow} => MinedFor(vaultTx, x)
            /\ r.burnTx # 0 => burnTx[<<x, r.burnTx>>] = "mined"
            /\ r.attested => MinedFor(burnTx, x)
            /\ r.mintTx # 0 => mintTx[<<x, r.mintTx>>] = "mined"
            /\ r.status = "TRANSFER_COMPLETED" => r.mintTx # 0

\* A row past the burn has the burn's evidence (hash and transaction), unless
\* another row had claimed the same message hash first.
LaterStagesHaveBurn ==
    \A x \in Txs : rows[x].status \in PastBurn =>
        \/ rows[x].burnTx # 0 /\ rows[x].hash # NoHash
        \/ \E y \in Txs \ {x} : rows[y].hash = HashOf[x]

\* "Burn failed permanently": FAILED is only written for a deposit that was not
\* burned.
FailedMeansNotBurned ==
    \A x \in Txs : rows[x].status = "TRANSFER_FAILED" => ~MinedFor(burnTx, x)

\* As long as chain calls, the database and the message extraction work, a deposit
\* that was burned is only marked FAILED when USDC of another deposit has come into the
\* wallet: alone in it, no deposit is given up after its burn.
FalseFailureNeedsOverlap ==
    \A x \in Txs : rows[x].status = "TRANSFER_FAILED" /\ MinedFor(burnTx, x) =>
        \E y \in Txs \ {x} : MinedFor(vaultTx, y)

\* With one log per transaction FAILED is final: neither a workflow that still runs
\* nor a listener that comes back after a restart writes over it.  COMPLETED may only
\* fall back to MINT_PENDING, when its own update was committed and reported as
\* failed.  (A second log of the transaction does bring a FAILED row back: the
\* listener's duplicate path does not tell FAILED from a bridge that failed.)
FinalStatusStays ==
    [][\A x \in Txs :
          /\ rows[x].status = "TRANSFER_FAILED" =>
                 rows'[x].status = "TRANSFER_FAILED"
          /\ rows[x].status = "TRANSFER_COMPLETED" =>
                 rows'[x].status \in {"TRANSFER_COMPLETED", "MINT_PENDING"}]_rows

\* The recorded principal is what was minted for the deposit, plus what was minted
\* for some of the others: never less, never another's without its own, never the
\* same deposit twice.
PrincipalExplained ==
    \A x \in Txs : principal[x] # 0 =>
        /\ MinedFor(mintTx, x)
        /\ \E others \in SUBSET { y \in Txs \ {x} : MinedFor(mintTx, y) } :
              principal[x] = Amount[x] + MapThenSumSet(LAMBDA y : Amount[y], others)

-----------------------------------------------------------------------------
(* Liveness.                                                               *)

Resting(x) ==
    \/ rows[x].status \in {"TRANSFER_COMPLETED", "TRANSFER_FAILED",
                           "MINT_PENDING", "ATTESTATION_PENDING"}
    \/ rows[x].bridgeError

\* Without crashes and database errors every deposit comes to rest: completed,
\* failed, waiting for a retry, or with a recorded bridge error. No interleaving
\* of the listener, the workflows and the chains leaves it in between.
EveryDepositRests == \A x \in Txs : Mined(x) ~> Resting(x)
=============================================================================
