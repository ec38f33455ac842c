--------------------------- MODULE BurnToAttestation ---------------------------
(***************************************************************************)
(* From the receipt of a mined burn to Circle's answer: MessageExtraction  *)
(* and then AttestationPoll, as executeBurn and executeAttestationPhase    *)
(* call them.  Circle sees the burn on its own, whether or not its message *)
(* is found here.                                                          *)
(***************************************************************************)
EXTENDS AttestationPoll, MessageExtraction

burnVars == <<vars, extractionVars>>

BurnInit == Init /\ ExtractionInit

extract == extractionStep /\ UNCHANGED vars

circleStep == CircleAdvances /\ UNCHANGED extractionVars

\* The poll also decodes the message's header for its log lines; every message of a
\* MessageTransmitter is long enough for that.
poll ==
    /\ stage = "extracted"
    /\ Query
    /\ UNCHANGED extractionVars

BurnNext == extract \/ circleStep \/ poll

BurnSpec == BurnInit /\ [][BurnNext]_burnVars

\* A request times out after ten seconds, a sleep ends, and what is not awaited
\* runs on: the next step comes.
FairBurnSpec == BurnSpec /\ WF_burnVars(extract \/ poll)

-----------------------------------------------------------------------------
\* Every mined burn comes to an answer, a timeout or an error.
EveryBurnSettles == <>(stage = "failed" \/ outcome # "none")
=============================================================================
