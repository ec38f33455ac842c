-------------------------- MODULE MCBurnToAttestation --------------------------
(***************************************************************************)
(* Receipts and environments for TLC.  A burn's receipt has its own        *)
(* MessageSent; around it, in any order, may be logs of the token, of      *)
(* another contract that logs the same event, and ones that do not decode. *)
(***************************************************************************)
EXTENDS BurnToAttestation

CONSTANTS transmitter, messenger, other, own, foreign, garbled, burnTopic

MCAddresses == {transmitter, messenger, other}
MCMessages == {own, foreign}
MCTopics == {MessageSent, burnTopic}
MCPayloads == MCMessages \union {garbled}

Log(e, t, p) == [emitter |-> e, topic |-> t, payload |-> p]

Noise == { Log(messenger, burnTopic, garbled), Log(other, MessageSent, foreign),
           Log(messenger, MessageSent, garbled), Log(transmitter, MessageSent, foreign) }

Own == Log(transmitter, MessageSent, own)

MCReceipts == {<< >>, <<Own>>} \union { <<a, Own>> : a \in Noise }
                 \union { <<a, Own, b>> : a \in Noise, b \in Noise }

MCEnvironments ==
    { <<transmitter, Unset, Unset, Unset>>, <<Unset, Unset, transmitter, other>>,
      <<other, transmitter, Unset, Unset>>, <<Malformed, transmitter, Unset, Unset>>,
      <<Unset, Unset, Unset, Unset>> }
=============================================================================
