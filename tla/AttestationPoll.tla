--------------------------- MODULE AttestationPoll ---------------------------
(***************************************************************************)
(* pollForAttestation (cctp/attestation.service.ts) for one burn: first a  *)
(* loop that asks Circle's V2 API by transaction hash, then, whatever went *)
(* wrong there, a loop of as many attempts that asks the V1 API by message *)
(* hash.  V2's answer brings the message that receiveMessage needs; V1's   *)
(* does not.  Circle and the network are external.                         *)
(*                                                                         *)
(* CctpPipeline has the three outcomes of this module as one step each.    *)
(***************************************************************************)
EXTENDS Integers, FiniteSetsExt

CONSTANTS
    MaxAttempts,   \* ATTESTATION_MAX_RETRIES
    Mishaps,       \* subset of {"outage", "rejected", "invalid", "partial"}
    ClockLimit     \* bound: `elapsed` counts up to here

ASSUME AttemptsAssumption == MaxAttempts \in Nat \ {0} /\ ClockLimit \in Nat

VARIABLES
    circle,    \* what Circle has: nothing, a pending, failed or signed message
    phase,     \* which loop runs: "byTx", "byHash", or "ended"
    attempt,   \* its attempt counter
    elapsed,   \* seconds slept so far
    outcome,   \* "none", "message", "noMessage" or "error"
    signedAt,  \* history: attempt of the V2 loop when Circle signed, or 0
    missed,    \* history: V2 queries after the signature that failed all the same
    cut        \* history: a permanent error ended the V2 loop

vars == <<circle, phase, attempt, elapsed, outcome, signedAt, missed, cut>>

Init ==
    /\ circle = "unknown"
    /\ phase = "byTx"
    /\ attempt = 1
    /\ elapsed = 0
    /\ outcome = "none"
    /\ signedAt = 0
    /\ missed = 0
    /\ cut = FALSE

-----------------------------------------------------------------------------
(* Circle sees the burn, and signs it or finds it ineligible.              *)

CircleAdvances ==
    /\ \/ circle = "unknown" /\ circle' = "pending"
       \/ circle = "pending" /\ circle' \in {"signed", "failed"}
    /\ phase # "ended"
    /\ signedAt' = IF circle' = "signed" /\ phase = "byTx" THEN attempt ELSE signedAt
    /\ UNCHANGED <<phase, attempt, elapsed, outcome, missed, cut>>

\* The replies a query may get.  "partial": complete, but without the message or
\* the attestation yet; "outage": 503, timeout, no network; "rejected": 400, 401
\* or 403; "invalid": any failure whose text says "Invalid".  404 is "pending".
Reply ==
    (CASE circle = "signed" -> {"complete"}
       [] circle = "failed" -> {"failed"}
       [] OTHER -> {"pending"}) \union Mishaps

\* isPermanentError sees the wrapped error, which has lost the HTTP response:
\* of the errors queryAttestation throws only the text can still tell.
isPermanentError(reply) == reply = "invalid"

\* calculateBackoffDelay in whole seconds: 5 * attempt^1.5, give or take a tenth,
\* never above two minutes.  (An exponential above 200 is cut to 200: the cap
\* cuts both to 120.)
BaseDelay == 5
MaxDelay == 120

exponentialDelay(n) ==
    LET square == BaseDelay * BaseDelay * n * n * n
    IN  CHOOSE e \in 0 .. 200 :
            e * e <= square /\ (e = 200 \/ (e + 1) * (e + 1) > square)

calculateBackoffDelay(n, jitter) ==
    LET jittered == (exponentialDelay(n) * (100 + jitter)) \div 100
    IN  IF jittered < MaxDelay THEN jittered ELSE MaxDelay

Jitter == {-10, 0, 10}

-----------------------------------------------------------------------------
\* Wrong variant: the fallback, exhausted, starts the whole poll again.
LoopExitRestarts ==
    /\ phase' = IF phase = "byTx" THEN "byHash" ELSE "byTx"
    /\ attempt' = 1
    /\ UNCHANGED outcome

\* The next attempt; after the last one of a loop, the next loop or the end.
LoopExit ==
    IF phase = "byTx"
      THEN phase' = "byHash" /\ attempt' = 1 /\ UNCHANGED outcome
      ELSE phase' = "ended" /\ outcome' = "error" /\ UNCHANGED attempt

Capped(n, limit) == IF n < limit THEN n ELSE limit

Sleep ==
    \E j \in Jitter :
        elapsed' = Capped(elapsed + calculateBackoffDelay(attempt, j), ClockLimit)

\* Wrong variant: one attempt too few.
sleepAndRetryShort ==
    /\ Sleep
    /\ IF attempt < MaxAttempts - 1
         THEN attempt' = attempt + 1 /\ UNCHANGED <<phase, outcome>>
         ELSE LoopExit

sleepAndRetry ==
    /\ Sleep
    /\ IF attempt < MaxAttempts
         THEN attempt' = attempt + 1 /\ UNCHANGED <<phase, outcome>>
         ELSE LoopExit

\* What the histories keep of a query.
Note(reply) ==
    /\ missed' = IF phase = "byTx" /\ circle = "signed" /\ reply # "complete"
                   THEN Capped(missed + 1, MaxAttempts + 1) ELSE missed
    /\ cut' = (cut \/ (phase = "byTx" /\ isPermanentError(reply)))
    /\ UNCHANGED <<circle, signedAt>>

\* Attested: the loop returns.
answered ==
    /\ phase # "ended"
    /\ "complete" \in Reply
    /\ phase' = "ended"
    /\ outcome' = IF phase = "byTx" THEN "message" ELSE "noMessage"
    /\ Note("complete")
    /\ UNCHANGED <<attempt, elapsed>>

\* Wrong variant: only a pending answer is waited for.
tryAgainImpatient ==
    /\ phase # "ended"
    /\ \E reply \in Reply \ {"complete"} :
          /\ ~isPermanentError(reply) /\ Note(reply)
          /\ IF reply = "pending" \/ attempt = MaxAttempts
               THEN sleepAndRetry
               ELSE attempt' = attempt + 1 /\ UNCHANGED <<phase, outcome, elapsed>>

\* Pending, or an error that counts as temporary: also Circle's 'failed'.
tryAgain ==
    /\ phase # "ended"
    /\ \E reply \in Reply \ {"complete"} :
          ~isPermanentError(reply) /\ Note(reply)
    /\ sleepAndRetry

\* A permanent error leaves the loop at once; V2's ends up in the V1 loop.
giveUpLoop ==
    /\ phase # "ended"
    /\ \E reply \in Reply : isPermanentError(reply) /\ Note(reply)
    /\ LoopExit
    /\ UNCHANGED elapsed

Query == answered \/ tryAgain \/ giveUpLoop

Next == CircleAdvances \/ Query

Spec == Init /\ [][Next]_vars

-----------------------------------------------------------------------------
\* A signature that the loop by transaction hash can still find is not lost to
\* the fallback: when Circle signed at that loop's attempt s, and no permanent
\* error cut it short, the fallback is only reached after all MaxAttempts - s + 1
\* queries that were left have failed.
SignedInTimeBringsMessage ==
    signedAt # 0 /\ phase # "byTx" /\ outcome # "message" /\ ~cut =>
        missed = MaxAttempts - signedAt + 1

\* The queries of a loop are spaced by the backoff, with jitter either way: no kind of
\* failure lets the next one come at once, and none is waited for twice.  (A permanent
\* error of the loop by transaction hash starts the other loop at once.)
Delays(jitter) == [a \in 1 .. MaxAttempts |-> calculateBackoffDelay(a, jitter)]

Waited(n, jitter) ==
    LET delay == Delays(jitter)
    IN  MapThenSumSet(LAMBDA a : delay[a], 1 .. n - 1)

BacksOff ==
    /\ phase = "byTx" => /\ Waited(attempt, -10) <= elapsed
                         /\ elapsed <= Waited(attempt, 10)
    /\ phase = "byHash" =>
          /\ Waited(attempt, -10) <= elapsed
          /\ elapsed <= Waited(MaxAttempts + 1, 10) + Waited(attempt, 10)
=============================================================================
