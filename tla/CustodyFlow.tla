----------------------------- MODULE CustodyFlow -----------------------------
(***************************************************************************)
(* What the pipeline promises about the USDC of a deposit: it is in one    *)
(* place, it only moves forward, and it arrives on Arbitrum at most once.  *)
(* Nothing is said of rows, processes or failures; a deposit may stay      *)
(* anywhere.                                                               *)
(***************************************************************************)
CONSTANT Deposits

VARIABLE place   \* where the USDC of each deposit is

Init == place = [d \in Deposits |-> "depositor"]

Move(d, from, to) ==
    /\ place[d] = from
    /\ place' = [place EXCEPT ![d] = to]

\* Several depositors' transactions may share a block.
Deposit ==
    \E D \in SUBSET { d \in Deposits : place[d] = "depositor" } :
        place' = [d \in Deposits |-> IF d \in D THEN "vault" ELSE place[d]]

Next ==
    \/ Deposit
    \/ \E d \in Deposits :
          \/ Move(d, "vault", "bridgeWallet")
          \/ Move(d, "bridgeWallet", "burned")
          \/ Move(d, "burned", "arbitrum")

Spec == Init /\ [][Next]_place
=============================================================================
