--------------------------- MODULE MessageExtraction ---------------------------
(***************************************************************************)
(* extractMessageFromReceipt (cctp/burn.service.ts): how the message of a  *)
(* burn is found among the logs of its receipt.  The addresses a log may   *)
(* come from depend on the environment; the logs are tested one after the  *)
(* other, those that pass are collected, and a second loop picks one.      *)
(*                                                                         *)
(* A log's payload is what MessageSent(bytes) decodes it to: a message, or *)
(* something else when it does not decode or decodes to no bytes.          *)
(***************************************************************************)
EXTENDS Naturals, Sequences

CONSTANTS
    Addresses,
    TokenMessenger,  \* address in the configuration of the contracts
    Unset,           \* an environment variable without a value
    Malformed,       \* one whose value is no address
    Messages,        \* message bytes, not empty
    Topics,          \* first topics of logs
    MessageSent,     \* the topic of MessageSent(bytes)
    Payloads,        \* what logs decode to
    Receipts,        \* receipts a burn may have
    Environments     \* values of the four variables for the MessageTransmitter

ASSUME ExtractionAssumption ==
    /\ TokenMessenger \in Addresses
    /\ {Unset, Malformed} \cap Addresses = {}
    /\ Receipts \subseteq Seq([emitter : Addresses, topic : Topics,
                               payload : Payloads])
    /\ Environments \subseteq [1 .. 4 -> Addresses \union {Unset, Malformed}]

VARIABLES
    receipt,      \* logs of the burn's transaction
    env,          \* MSGTX_ADDRESS_XDC and its three older names
    stage,        \* "start", "collect", "select", "extracted" or "failed"
    next,         \* index of the next log, or candidate, to look at
    candidates,   \* log indexes collected, in the order of collection
    selected      \* log index of the candidate picked so far, 0: none

extractionVars == <<receipt, env, stage, next, candidates, selected>>

ExtractionInit ==
    /\ receipt \in Receipts
    /\ env \in Environments
    /\ stage = "start"
    /\ next = 1
    /\ candidates = << >>
    /\ selected = 0

\* The first variable that is set counts, also when it is malformed and a later
\* one is not.
IsTransmitterSetting(n) ==
    /\ n \in 1 .. 4
    /\ env[n] # Unset
    /\ \A m \in 1 .. 4 : m < n => env[m] = Unset

Configured == \E n \in 1 .. 4 : IsTransmitterSetting(n) /\ env[n] # Malformed

\* TokenMessenger is an allowed emitter, too.
getAllowedCctpEmitterAddresses ==
    {TokenMessenger} \union { env[n] : n \in { m \in 1 .. 4 : IsTransmitterSetting(m) } }

\* What the tests on one log let through.
Passes(log) ==
    /\ log.emitter \in getAllowedCctpEmitterAddresses
    /\ log.topic = MessageSent
    /\ log.payload \in Messages

Fail ==
    /\ stage' = "failed"
    /\ UNCHANGED <<receipt, env, next, candidates, selected>>

\* Without logs, or without a usable address, nothing is looked at.
beginExtraction ==
    /\ stage = "start"
    /\ IF receipt # << >> /\ Configured
         THEN /\ stage' = "collect"
              /\ UNCHANGED <<receipt, env, next, candidates, selected>>
         ELSE Fail

collectMessageCandidate ==
    /\ stage = "collect"
    /\ next \in DOMAIN receipt
    /\ candidates' = IF Passes(receipt[next]) THEN Append(candidates, next)
                                              ELSE candidates
    /\ next' = next + 1
    /\ UNCHANGED <<receipt, env, stage, selected>>

\* The loop over the logs is over.
beginSelection ==
    /\ stage = "collect"
    /\ next \notin DOMAIN receipt
    /\ IF candidates = << >>
         THEN Fail
         ELSE /\ stage' = "select"
              /\ selected' = candidates[1]
              /\ next' = 2
              /\ UNCHANGED <<receipt, env, candidates>>

\* Wrong variant: a later log replaces an earlier one.
selectLaterCandidate ==
    /\ stage = "select"
    /\ next \in DOMAIN candidates
    /\ selected' = IF candidates[next] > selected THEN candidates[next] ELSE selected
    /\ next' = next + 1
    /\ UNCHANGED <<receipt, env, stage, candidates>>

\* There is one candidate event, so priorities never decide.
selectMessageCandidate ==
    /\ stage = "select"
    /\ next \in DOMAIN candidates
    /\ selected' = IF candidates[next] < selected THEN candidates[next] ELSE selected
    /\ next' = next + 1
    /\ UNCHANGED <<receipt, env, stage, candidates>>

endExtraction ==
    /\ stage = "select"
    /\ next \notin DOMAIN candidates
    /\ stage' = "extracted"
    /\ UNCHANGED <<receipt, env, next, candidates, selected>>

extractionStep ==
    \/ beginExtraction \/ collectMessageCandidate
    \/ beginSelection \/ selectMessageCandidate \/ endExtraction

ExtractionSpec == ExtractionInit /\ [][extractionStep]_extractionVars

Extracted == receipt[selected].payload

-----------------------------------------------------------------------------
ExtractionTypeOK ==
    /\ receipt \in Receipts
    /\ env \in Environments
    /\ stage \in {"start", "collect", "select", "extracted", "failed"}
    /\ next \in Nat \ {0}
    /\ candidates \in Seq(DOMAIN receipt)
    /\ selected \in DOMAIN receipt \union {0}

\* What extraction promises, whatever else the transaction logged: the message of
\* the first log that passes, and a failure only when there is none or the
\* environment names no transmitter.  A failure here comes after a mined burn.
ExtractsFirst ==
    /\ stage = "extracted" =>
          /\ selected \in DOMAIN receipt
          /\ Passes(receipt[selected])
          /\ \A n \in DOMAIN receipt : n < selected => ~Passes(receipt[n])
    /\ stage = "failed" =>
          \/ ~Configured
          \/ \A n \in DOMAIN receipt : ~Passes(receipt[n])
=============================================================================
