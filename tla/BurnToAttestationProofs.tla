------------------------ MODULE BurnToAttestationProofs ------------------------
(***************************************************************************)
(* MessageExtraction finds the first message that passes, for receipts of  *)
(* any length and any values of the environment; AttestationPoll loses no  *)
(* signature and keeps its distance, for any number of attempts.  Both are *)
(* proved of the two modules together.                                     *)
(***************************************************************************)
EXTENDS BurnToAttestation, SetSums, SequenceTheorems

\* What the two loops have seen so far.
CandidatesPass ==
    \A k \in DOMAIN candidates : Passes(receipt[candidates[k]])

Collected(n) == \E k \in DOMAIN candidates : candidates[k] = n

CollectedBefore ==
    stage = "collect" =>
        \A n \in DOMAIN receipt : n < next /\ Passes(receipt[n]) => Collected(n)

CollectedAll ==
    stage \in {"select", "extracted"} =>
        \A n \in DOMAIN receipt : Passes(receipt[n]) => Collected(n)

SelectedIsLeast ==
    /\ stage \in {"select", "extracted"} =>
          /\ Collected(selected)
          /\ \A k \in DOMAIN candidates : k < next => selected <= candidates[k]
    /\ stage = "extracted" => next \notin DOMAIN candidates /\ next > 1
    /\ stage = "select" => next > 1

FailedForACause ==
    stage = "failed" =>
        \/ ~Configured
        \/ \A n \in DOMAIN receipt : ~Passes(receipt[n])

StartsAtOne == stage = "start" => next = 1 /\ candidates = << >>

ExtractionInv ==
    /\ ExtractionTypeOK /\ StartsAtOne
    /\ CandidatesPass /\ CollectedBefore /\ CollectedAll /\ SelectedIsLeast
    /\ FailedForACause

-----------------------------------------------------------------------------
\* The test on a log only depends on the log and the environment.
LEMMA SameTests ==
    ASSUME env' = env
    PROVE  /\ Configured' <=> Configured
           /\ \A log : Passes(log)' <=> Passes(log)
  BY DEF Configured, Passes, getAllowedCctpEmitterAddresses, IsTransmitterSetting

\* The loop over the logs stops exactly behind the last one.
LEMMA DomainIsPrefix ==
    ASSUME ExtractionTypeOK
    PROVE  /\ receipt \in Seq([emitter : Addresses, topic : Topics,
                               payload : Payloads])
           /\ DOMAIN receipt = 1 .. Len(receipt)
           /\ Len(receipt) \in Nat
           /\ DOMAIN candidates = 1 .. Len(candidates)
           /\ Len(candidates) \in Nat
           /\ \A k \in DOMAIN candidates : candidates[k] \in DOMAIN receipt
  <1>1. receipt \in Seq([emitter : Addresses, topic : Topics, payload : Payloads])
    BY ExtractionAssumption DEF ExtractionTypeOK
  <1>2. candidates \in Seq(DOMAIN receipt)
    BY DEF ExtractionTypeOK
  <1>. QED
    BY <1>1, <1>2

LEMMA InitExtraction == ExtractionInit => ExtractionInv
  <1>. SUFFICES ASSUME ExtractionInit PROVE ExtractionInv
    OBVIOUS
  <1>1. ExtractionTypeOK
    BY DEF ExtractionInit, ExtractionTypeOK
  <1>. QED
    BY <1>1 DEF ExtractionInit, ExtractionInv, StartsAtOne, CandidatesPass, CollectedBefore,
        CollectedAll, SelectedIsLeast, FailedForACause

LEMMA BeginKeeps ==
    ASSUME ExtractionInv, beginExtraction
    PROVE  ExtractionInv'
  <1>. USE DEF ExtractionInv
  <1>1. UNCHANGED <<receipt, env, next, candidates, selected>>
    BY DEF beginExtraction, Fail
  <1>2. /\ Configured' <=> Configured
        /\ \A log : Passes(log)' <=> Passes(log)
    BY <1>1, SameTests
  <1>3. stage = "start" /\ stage' \in {"collect", "failed"}
    BY DEF beginExtraction, Fail
  <1>4. ExtractionTypeOK'
    BY <1>1, <1>3 DEF ExtractionTypeOK
  <1>5. CandidatesPass'
    BY <1>1, <1>2 DEF CandidatesPass
  <1>6. CollectedBefore'
    BY <1>1, <1>3, DomainIsPrefix DEF CollectedBefore, StartsAtOne
  <1>7. FailedForACause'
    <2>1. stage' = "failed" => receipt = << >> \/ ~Configured
      BY DEF beginExtraction, Fail
    <2>. QED
      BY <1>1, <1>2, <2>1 DEF FailedForACause
  <1>. QED
    BY <1>3, <1>4, <1>5, <1>6, <1>7 DEF StartsAtOne, CollectedAll, SelectedIsLeast

LEMMA CollectKeeps ==
    ASSUME ExtractionInv, collectMessageCandidate
    PROVE  ExtractionInv'
  <1>. USE DEF ExtractionInv
  <1>1. /\ UNCHANGED <<receipt, env, stage, selected>>
        /\ stage = "collect" /\ next \in DOMAIN receipt /\ next' = next + 1
    BY DEF collectMessageCandidate
  <1>2. /\ Configured' <=> Configured
        /\ \A log : Passes(log)' <=> Passes(log)
    BY <1>1, SameTests
  <1>3. candidates' = IF Passes(receipt[next]) THEN Append(candidates, next)
                                                 ELSE candidates
    BY DEF collectMessageCandidate
  <1>4. /\ candidates' \in Seq(DOMAIN receipt)
        /\ Passes(receipt[next]) =>
              /\ DOMAIN candidates' = 1 .. Len(candidates) + 1
              /\ candidates'[Len(candidates) + 1] = next
    <2>1. candidates \in Seq(DOMAIN receipt) /\ next \in DOMAIN receipt
      BY <1>1 DEF ExtractionTypeOK
    <2>2. /\ Append(candidates, next) \in Seq(DOMAIN receipt)
          /\ Append(candidates, next)[Len(candidates) + 1] = next
          /\ Len(Append(candidates, next)) = Len(candidates) + 1
      BY <2>1, AppendProperties, Zenon
    <2>3. DOMAIN Append(candidates, next) = 1 .. Len(Append(candidates, next))
      BY <2>2
    <2>. QED
      BY <1>3, <2>1, <2>2, <2>3, Zenon
  <1>5. ExtractionTypeOK'
    BY <1>1, <1>4, DomainIsPrefix DEF ExtractionTypeOK
  <1>6. CandidatesPass'
    BY <1>1, <1>2, <1>3, DomainIsPrefix DEF CandidatesPass
  <1>7. \A n \in DOMAIN receipt : Collected(n) => Collected(n)'
    BY <1>3, DomainIsPrefix DEF Collected
  <1>8. Passes(receipt[next]) => \E k \in DOMAIN candidates' : candidates'[k] = next
    <2>. HAVE Passes(receipt[next])
    <2>1. Len(candidates) + 1 \in DOMAIN candidates'
      BY <1>4, DomainIsPrefix
    <2>. QED
      BY <1>4, <2>1
  <1>9. CollectedBefore'
    <2>. SUFFICES ASSUME NEW n \in DOMAIN receipt, n < next + 1, Passes(receipt[n])
                  PROVE  Collected(n)'
      BY <1>1, <1>2 DEF CollectedBefore
    <2>1. CASE n = next
      BY <2>1, <1>8 DEF Collected
    <2>2. CASE n # next
      BY <2>2, <1>1, <1>7, DomainIsPrefix DEF CollectedBefore, ExtractionTypeOK
    <2>. QED
      BY <2>1, <2>2
  <1>. QED
    BY <1>1, <1>5, <1>6, <1>9 DEF StartsAtOne, CollectedAll, SelectedIsLeast,
        FailedForACause

LEMMA BeginSelectionKeeps ==
    ASSUME ExtractionInv, beginSelection
    PROVE  ExtractionInv'
  <1>. USE DEF ExtractionInv
  <1>1. /\ UNCHANGED <<receipt, env, candidates>>
        /\ stage = "collect" /\ next \notin DOMAIN receipt
        /\ stage' \in {"select", "failed"}
    BY DEF beginSelection, Fail
  <1>2. /\ Configured' <=> Configured
        /\ \A log : Passes(log)' <=> Passes(log)
    BY <1>1, SameTests
  <1>3. \A n \in DOMAIN receipt : Passes(receipt[n]) => Collected(n)
    BY <1>1, DomainIsPrefix DEF CollectedBefore, ExtractionTypeOK
  <1>4. CASE candidates = << >>
    <2>1. stage' = "failed" /\ UNCHANGED <<next, selected>>
      BY <1>4 DEF beginSelection, Fail
    <2>2. \A n \in DOMAIN receipt : ~Passes(receipt[n])
      BY <1>3, <1>4 DEF Collected
    <2>. QED
      BY <1>1, <1>2, <2>1, <2>2 DEF ExtractionTypeOK, StartsAtOne,
          CandidatesPass, CollectedBefore, CollectedAll, SelectedIsLeast, FailedForACause
  <1>5. CASE candidates # << >>
    <2>1. stage' = "select" /\ selected' = candidates[1] /\ next' = 2
      BY <1>5 DEF beginSelection
    <2>2. 1 \in DOMAIN candidates
      BY <1>5, DomainIsPrefix DEF ExtractionTypeOK
    <2>3. ExtractionTypeOK'
      BY <1>1, <2>1, <2>2, DomainIsPrefix DEF ExtractionTypeOK
    <2>4. SelectedIsLeast'
      BY <1>1, <2>1, <2>2, DomainIsPrefix DEF SelectedIsLeast, Collected
    <2>5. CollectedAll'
      BY <1>1, <1>2, <1>3 DEF CollectedAll, Collected
    <2>. QED
      BY <1>1, <1>2, <2>1, <2>3, <2>4, <2>5 DEF StartsAtOne, CandidatesPass,
          CollectedBefore, FailedForACause
  <1>. QED
    BY <1>4, <1>5

LEMMA SelectKeeps ==
    ASSUME ExtractionInv, selectMessageCandidate
    PROVE  ExtractionInv'
  <1>. USE DEF ExtractionInv
  <1>1. /\ UNCHANGED <<receipt, env, stage, candidates>>
        /\ stage = "select" /\ next \in DOMAIN candidates /\ next' = next + 1
        /\ selected' = IF candidates[next] < selected THEN candidates[next]
                                                        ELSE selected
    BY DEF selectMessageCandidate
  <1>2. /\ Configured' <=> Configured
        /\ \A log : Passes(log)' <=> Passes(log)
    BY <1>1, SameTests
  <1>3. ExtractionTypeOK'
    BY <1>1, DomainIsPrefix DEF ExtractionTypeOK
  <1>4. Collected(selected)'
    BY <1>1 DEF SelectedIsLeast, Collected
  <1>5. \A k \in DOMAIN candidates : k < next + 1 => selected' <= candidates[k]
    <2>. TAKE k \in DOMAIN candidates
    <2>. HAVE k < next + 1
    <2>1. /\ k \in Nat /\ next \in Nat
          /\ candidates[k] \in Nat /\ candidates[next] \in Nat /\ selected \in Nat
      BY <1>1, DomainIsPrefix DEF ExtractionTypeOK
    <2>2. k < next => selected <= candidates[k]
      BY <1>1 DEF SelectedIsLeast
    <2>. QED
      BY <1>1, <2>1, <2>2
  <1>6. SelectedIsLeast'
    BY <1>1, <1>4, <1>5, DomainIsPrefix DEF SelectedIsLeast
  <1>. QED
    BY <1>1, <1>2, <1>3, <1>6 DEF StartsAtOne, CandidatesPass, CollectedBefore,
        CollectedAll, Collected, FailedForACause

LEMMA EndKeeps ==
    ASSUME ExtractionInv, endExtraction
    PROVE  ExtractionInv'
  <1>. USE DEF ExtractionInv
  <1>1. /\ UNCHANGED <<receipt, env, next, candidates, selected>>
        /\ stage = "select" /\ next \notin DOMAIN candidates /\ stage' = "extracted"
    BY DEF endExtraction
  <1>2. /\ Configured' <=> Configured
        /\ \A log : Passes(log)' <=> Passes(log)
    BY <1>1, SameTests
  <1>. QED
    BY <1>1, <1>2 DEF ExtractionTypeOK, StartsAtOne, CandidatesPass, CollectedBefore,
        CollectedAll, SelectedIsLeast, Collected, FailedForACause

LEMMA StutterKeeps ==
    ASSUME ExtractionInv, UNCHANGED extractionVars
    PROVE  ExtractionInv'
  <1>1. UNCHANGED <<receipt, env, stage, next, candidates, selected>>
    BY DEF extractionVars
  <1>2. /\ Configured' <=> Configured
        /\ \A log : Passes(log)' <=> Passes(log)
    BY <1>1, SameTests
  <1>. QED
    BY <1>1, <1>2 DEF ExtractionInv, ExtractionTypeOK, StartsAtOne, CandidatesPass,
        CollectedBefore, CollectedAll, SelectedIsLeast, Collected, FailedForACause

LEMMA ExtractionInductive == ExtractionInv /\ [BurnNext]_burnVars => ExtractionInv'
  <1>1. [BurnNext]_burnVars => [extractionStep]_extractionVars
    BY DEF BurnNext, burnVars, extract, circleStep, poll
  <1>. QED
    BY <1>1, BeginKeeps, CollectKeeps, BeginSelectionKeeps, SelectKeeps, EndKeeps,
       StutterKeeps DEF extractionStep

\* No log before the selected one passes: it would be a candidate, and the
\* selected one is the least of all.
LEMMA InvImpliesFirst == ExtractionInv => ExtractsFirst
  <1>. SUFFICES ASSUME ExtractionInv PROVE ExtractsFirst
    OBVIOUS
  <1>. USE DEF ExtractionInv
  <1>1. ASSUME stage = "extracted"
        PROVE  /\ selected \in DOMAIN receipt
               /\ Passes(receipt[selected])
               /\ \A n \in DOMAIN receipt : n < selected => ~Passes(receipt[n])
    <2>1. Collected(selected)
      BY <1>1 DEF SelectedIsLeast
    <2>2. selected \in DOMAIN receipt /\ Passes(receipt[selected])
      BY <2>1, DomainIsPrefix DEF Collected, CandidatesPass
    <2>3. \A k \in DOMAIN candidates : selected <= candidates[k]
      BY <1>1, DomainIsPrefix DEF SelectedIsLeast, ExtractionTypeOK
    <2>4. \A n \in DOMAIN receipt : Passes(receipt[n]) => selected <= n
      BY <1>1, <2>3 DEF CollectedAll, Collected
    <2>. QED
      BY <2>2, <2>4, DomainIsPrefix
  <1>. QED
    BY <1>1 DEF ExtractsFirst, FailedForACause

\* Whatever the receipt and the environment, extraction ends with the message of
\* the first log that passes, or fails for want of one, with Circle and the poll going
\* on beside it.
THEOREM ExtractionFindsFirst == BurnSpec => []ExtractsFirst
  BY InitExtraction, ExtractionInductive, InvImpliesFirst, PTL DEF BurnSpec, BurnInit

-----------------------------------------------------------------------------
(* The poll: its counters.                                                 *)

PollTypes ==
    /\ circle \in {"unknown", "pending", "failed", "signed"}
    /\ phase \in {"byTx", "byHash", "ended"}
    /\ attempt \in 1 .. MaxAttempts /\ elapsed \in Nat
    /\ outcome \in {"none", "message", "noMessage", "error"}
    /\ phase # "ended" => outcome = "none"
    /\ signedAt \in 0 .. MaxAttempts /\ missed \in Nat /\ cut \in BOOLEAN

\* In the first loop, every attempt since the signature was one that failed.
MissedSoFar ==
    phase = "byTx" => IF circle = "signed"
                        THEN signedAt \in 1 .. attempt /\ missed = attempt - signedAt
                        ELSE signedAt = 0 /\ missed = 0

PollInv == PollTypes /\ MissedSoFar /\ SignedInTimeBringsMessage

\* The whole number whose square is just below a number, up to 200.
LEMMA SquareRoot ==
    ASSUME NEW n \in Nat
    PROVE  \E e \in 0 .. 200 : e * e <= n /\ (e = 200 \/ (e + 1) * (e + 1) > n)
<1> DEFINE C == { e \in 0 .. 200 : e = 200 \/ (e + 1) * (e + 1) > n }
           B == { T \in SUBSET (0 .. 200) : \E e \in C : T = 0 .. e }
<1>1. PICK e \in C : \A d \in C : 0 .. d \subseteq 0 .. e => 0 .. d = 0 .. e
  <2>1. IsFiniteSet(0 .. 200)
    <3>1. 0 \in Int /\ 200 \in Int
      OBVIOUS
    <3>2. QED
      BY <3>1, FS_Interval, Zenon
  <2>2. 200 \in C /\ C \subseteq 0 .. 200
    OBVIOUS
  <2> HIDE DEF C
  <2>3. \A e \in C : 0 .. e \in B
    BY <2>2
  <2>4. B \subseteq SUBSET (0 .. 200) /\ B # {}
    BY <2>2, <2>3
  <2>5. \A T \in B : \E e \in C : T = 0 .. e
    OBVIOUS
  <2> HIDE DEF B
  <2>6. PICK T \in B : \A U \in B : U \subseteq T => U = T
    <3> DEFINE S == 0 .. 200
    <3>1. IsFiniteSet(S) /\ B \subseteq SUBSET S /\ B # {}
      BY <2>1, <2>4
    <3> HIDE DEF S
    <3>2. QED
      BY <3>1, LeastSubset
  <2>7. PICK e \in C : T = 0 .. e
    BY <2>5
  <2>8. QED
    BY <2>3, <2>6, <2>7, Zenon
<1>2. CASE e = 0
  BY <1>1, <1>2
<1>3. CASE e # 0
  <2>1. e - 1 \in 0 .. 200 /\ e \in 0 .. 200
    BY <1>3
  <2>2. e - 1 \notin C
    <3>1. 0 .. (e - 1) \subseteq 0 .. e /\ e \in 0 .. e /\ e \notin 0 .. (e - 1)
      BY <2>1
    <3> HIDE DEF C
    <3>2. QED
      BY <1>1, <3>1
  <2>3. ~(((e - 1) + 1) * ((e - 1) + 1) > n)
    BY <2>1, <2>2
  <2>4. e * e <= n
    BY <2>1, <2>3
  <2>5. QED
    BY <2>1, <2>4
<1>4. QED
  BY <1>2, <1>3

\* More jitter never shortens a wait.
LEMMA DelayBounds ==
    ASSUME NEW n \in Nat, NEW j \in Jitter
    PROVE  /\ calculateBackoffDelay(n, j) \in Nat
           /\ calculateBackoffDelay(n, -10) <= calculateBackoffDelay(n, j)
           /\ calculateBackoffDelay(n, j) <= calculateBackoffDelay(n, 10)
<1>1. exponentialDelay(n) \in 0 .. 200
  <2>1. BaseDelay * BaseDelay * n * n * n \in Nat
    BY DEF BaseDelay
  <2>2. QED
    BY <2>1, SquareRoot DEF exponentialDelay
<1>2. PICK e \in 0 .. 200 : e = exponentialDelay(n)
  BY <1>1
<1>3. /\ (e * 90) \div 100 \in Nat /\ (e * 100) \div 100 \in Nat
      /\ (e * 110) \div 100 \in Nat
      /\ (e * 90) \div 100 <= (e * 100) \div 100
      /\ (e * 100) \div 100 <= (e * 110) \div 100
  OBVIOUS
<1> DEFINE Cut(d) == IF d < 120 THEN d ELSE 120
<1>4. /\ calculateBackoffDelay(n, -10) = Cut((e * 90) \div 100)
      /\ calculateBackoffDelay(n, 0) = Cut((e * 100) \div 100)
      /\ calculateBackoffDelay(n, 10) = Cut((e * 110) \div 100)
  <2>1. 100 + -10 = 90 /\ 100 + 0 = 100 /\ 100 + 10 = 110
    OBVIOUS
  <2>2. QED
    BY <1>2, <2>1 DEF calculateBackoffDelay, MaxDelay
<1>5. j = -10 \/ j = 0 \/ j = 10
  BY DEF Jitter
<1>6. QED
  BY <1>3, <1>4, <1>5

LEMMA WaitedGrows ==
    ASSUME NEW n \in 1 .. MaxAttempts, NEW j \in Jitter
    PROVE  /\ Waited(n, j) \in Nat
           /\ Waited(n + 1, j) = Waited(n, j) + calculateBackoffDelay(n, j)
<1> DEFINE S == 1 .. n - 1
<1>1. MaxAttempts \in Nat /\ n \in Nat
  BY AttemptsAssumption
<1>2. /\ IsFiniteSet(S) /\ n \notin S
      /\ 1 .. (n + 1) - 1 = S \union {n} /\ S \union {n} \subseteq 1 .. MaxAttempts
  BY <1>1, FS_Interval
<1>3. \A a \in S \union {n} : /\ Delays(j)[a] = calculateBackoffDelay(a, j)
                              /\ Delays(j)[a] \in Nat
  BY <1>1, <1>2, DelayBounds DEF Delays
<1>4. Waited(n, j) = Sum(Delays(j), S)
  BY DEF Waited, Sum
<1>5. Waited(n + 1, j) = Sum(Delays(j), S \union {n})
  BY <1>2 DEF Waited, Sum
<1> HIDE DEF S
<1>6. QED
  BY <1>2, <1>3, <1>4, <1>5, SumInsert

LEMMA WaitedAtFirst == ASSUME NEW j PROVE Waited(1, j) = 0
<1>1. 1 .. 1 - 1 = {}
  OBVIOUS
<1>2. Waited(1, j) = Sum(Delays(j), 1 .. 1 - 1)
  BY DEF Waited, Sum
<1>3. Sum(Delays(j), {}) = 0
  BY SumEmpty
<1>4. QED
  BY <1>1, <1>2, <1>3

LEMMA WaitedBelowAll ==
    ASSUME NEW n \in 1 .. MaxAttempts + 1
    PROVE  /\ Waited(n, 10) <= Waited(MaxAttempts + 1, 10)
           /\ Waited(n, 10) \in Nat /\ Waited(MaxAttempts + 1, 10) \in Nat
<1> DEFINE S == 1 .. (MaxAttempts + 1) - 1
           M == 1 .. n - 1
<1>1. MaxAttempts \in Nat /\ n \in Nat
  BY AttemptsAssumption
<1>2. IsFiniteSet(S) /\ M \in SUBSET S /\ S = 1 .. MaxAttempts
  BY <1>1, FS_Interval
<1>3. 10 \in Jitter
  BY DEF Jitter
<1>4. \A a \in S : Delays(10)[a] \in Nat
  BY <1>1, <1>2, <1>3, DelayBounds DEF Delays
<1>5. Waited(n, 10) = Sum(Delays(10), M)
      /\ Waited(MaxAttempts + 1, 10) = Sum(Delays(10), S)
  BY DEF Waited, Sum
<1> HIDE DEF S, M
<1> DEFINE f == Delays(10)
<1>6. IsFiniteSet(S) /\ M \in SUBSET S /\ \A a \in S : f[a] \in Nat
  BY <1>2, <1>4
<1> HIDE DEF f
<1>7. /\ Sum(f, S) = Sum(f, M) + Sum(f, S \ M)
      /\ Sum(f, M) \in Nat /\ Sum(f, S \ M) \in Nat
  BY <1>6, SumSplit
<1>8. QED
  BY <1>5, <1>7 DEF f


-----------------------------------------------------------------------------
(* The poll: its steps.                                                    *)

LEMMA PollInit == Init => PollInv
<1> SUFFICES ASSUME Init PROVE PollInv
  OBVIOUS
<1>1. 1 \in 1 .. MaxAttempts /\ 0 \in 0 .. MaxAttempts
  BY AttemptsAssumption
<1>2. PollTypes
  BY <1>1 DEF Init, PollTypes
<1>3. MissedSoFar /\ SignedInTimeBringsMessage
  BY DEF Init, MissedSoFar, SignedInTimeBringsMessage
<1>4. QED
  BY <1>2, <1>3 DEF PollInv

\* What a query does to the counters and histories.
LEMMA SleepAdds ==
    ASSUME PollTypes, Sleep
    PROVE  \E j \in Jitter :
              /\ calculateBackoffDelay(attempt, j) \in Nat
              /\ elapsed' = Capped(elapsed + calculateBackoffDelay(attempt, j), ClockLimit)
              /\ elapsed' \in Nat
<1>1. PICK j \in Jitter :
         elapsed' = Capped(elapsed + calculateBackoffDelay(attempt, j), ClockLimit)
  BY DEF Sleep
<1>2. attempt \in Nat /\ elapsed \in Nat /\ ClockLimit \in Nat
  BY AttemptsAssumption DEF PollTypes
<1>3. calculateBackoffDelay(attempt, j) \in Nat
  BY <1>2, DelayBounds
<1>4. QED
  BY <1>1, <1>2, <1>3 DEF Capped

\* The first loop goes on or gives way to the second, the second goes on or ends the
\* poll with an error.
Moves(last) ==
    \/ /\ ~last /\ attempt < MaxAttempts
       /\ attempt' = attempt + 1 /\ phase' = phase /\ outcome' = outcome
    \/ /\ last /\ phase = "byTx"
       /\ phase' = "byHash" /\ attempt' = 1 /\ outcome' = outcome
    \/ /\ last /\ phase = "byHash"
       /\ phase' = "ended" /\ outcome' = "error" /\ attempt' = attempt

LEMMA QueryForms ==
    ASSUME PollTypes, Query
    PROVE  /\ phase # "ended" /\ circle' = circle /\ signedAt' = signedAt
           /\ \/ /\ phase' = "ended" /\ attempt' = attempt /\ elapsed' = elapsed
                 /\ outcome' = (IF phase = "byTx" THEN "message" ELSE "noMessage")
                 /\ missed' = missed /\ cut' = cut
              \/ /\ circle = "signed" /\ phase = "byTx"
                    => missed' = Capped(missed + 1, MaxAttempts + 1)
                 /\ circle # "signed" \/ phase # "byTx" => missed' = missed
                 /\ cut' = cut /\ Sleep
                 /\ Moves(attempt = MaxAttempts)
              \/ /\ phase = "byTx" => cut' = TRUE
                 /\ phase = "byHash" => cut' = cut /\ missed' = missed
                 /\ elapsed' = elapsed /\ Moves(TRUE) /\ missed' \in Nat
                 /\ circle # "signed" => missed' = missed
<1> USE AttemptsAssumption DEF PollTypes, Note, isPermanentError, LoopExit, Moves
<1>1. CASE answered
  BY <1>1 DEF answered
<1>2. CASE tryAgain
  BY <1>2 DEF tryAgain, sleepAndRetry
<1>3. CASE giveUpLoop
  <2>1. PICK reply \in Reply : isPermanentError(reply) /\ Note(reply)
    BY <1>3 DEF giveUpLoop
  <2>2. /\ phase = "byTx" => cut' = TRUE
        /\ phase = "byHash" => cut' = cut
    BY <2>1
  <2>3. /\ circle # "signed" \/ phase # "byTx" => missed' = missed
        /\ missed' \in Nat /\ circle' = circle /\ signedAt' = signedAt
    BY <2>1 DEF Capped
  <2>4. phase # "ended" /\ elapsed' = elapsed /\ Moves(TRUE)
    BY <1>3 DEF giveUpLoop
  <2>5. QED
    BY <2>2, <2>3, <2>4
<1>4. QED
  BY <1>1, <1>2, <1>3 DEF Query

LEMMA CirclePollInv ==
    ASSUME PollInv, CircleAdvances
    PROVE  PollInv'
  BY AttemptsAssumption
     DEF CircleAdvances, PollInv, PollTypes, MissedSoFar, SignedInTimeBringsMessage

LEMMA QueryPollInv ==
    ASSUME PollInv, Query
    PROVE  PollInv'
<1> USE AttemptsAssumption
        DEF PollInv, PollTypes, MissedSoFar, SignedInTimeBringsMessage, Moves
<1>1. PollTypes
  BY DEF PollInv
<1>2. phase # "ended" /\ circle' = circle /\ signedAt' = signedAt
  BY <1>1, QueryForms
<1>3. ASSUME phase' = "ended", attempt' = attempt, elapsed' = elapsed,
             outcome' = (IF phase = "byTx" THEN "message" ELSE "noMessage"),
             missed' = missed, cut' = cut
      PROVE  PollInv'
  BY <1>2, <1>3
<1>4. ASSUME circle = "signed" /\ phase = "byTx"
                => missed' = Capped(missed + 1, MaxAttempts + 1),
             circle # "signed" \/ phase # "byTx" => missed' = missed,
             cut' = cut, Sleep, Moves(attempt = MaxAttempts)
      PROVE  PollInv'
  <2>1. elapsed' \in Nat
    BY <1>1, <1>4, SleepAdds
  <2>2. circle = "signed" /\ phase = "byTx" => missed' = missed + 1
    BY <1>4 DEF Capped
  <2>3. CASE attempt = MaxAttempts
    BY <1>2, <1>4, <2>1, <2>2, <2>3
  <2>4. CASE attempt # MaxAttempts
    BY <1>2, <1>4, <2>1, <2>2, <2>4
  <2>5. QED
    BY <2>3, <2>4
<1>5. ASSUME phase = "byTx" => cut' = TRUE,
             phase = "byHash" => cut' = cut /\ missed' = missed,
             elapsed' = elapsed, Moves(TRUE), missed' \in Nat
      PROVE  PollInv'
  <2>1. cut' \in BOOLEAN
    BY <1>5
  <2>2. CASE phase = "byTx"
    <3>1. cut' = TRUE
      BY <1>5, <2>2
    <3>2. SignedInTimeBringsMessage'
      BY <3>1
    <3>3. PollTypes' /\ MissedSoFar'
      BY <1>2, <1>5, <2>1, <2>2
    <3>4. QED
      BY <3>2, <3>3
  <2>3. CASE phase = "byHash"
    BY <1>2, <1>5, <2>1, <2>3
  <2>4. QED
    BY <1>2, <2>2, <2>3
<1>6. QED
  BY <1>1, <1>3, <1>4, <1>5, QueryForms

\* Steps of the two modules together.
LEMMA PollStep == PollInv /\ [BurnNext]_burnVars => PollInv'
<1>1. PollInv /\ UNCHANGED vars => PollInv'
  BY DEF PollInv, PollTypes, MissedSoFar, SignedInTimeBringsMessage, vars
<1>2. [BurnNext]_burnVars => CircleAdvances \/ Query \/ UNCHANGED vars
  BY DEF BurnNext, burnVars, extract, circleStep, poll
<1>3. QED
  BY <1>1, <1>2, CirclePollInv, QueryPollInv

\* A signature that comes while the first loop runs is found by it, unless every query
\* left fails or a permanent error cuts it short: for any number of attempts.
THEOREM SignatureIsFound == BurnSpec => []SignedInTimeBringsMessage
<1>1. PollInv => SignedInTimeBringsMessage
  BY DEF PollInv
<1>2. QED
  BY PollInit, PollStep, <1>1, PTL DEF BurnSpec, BurnInit

-----------------------------------------------------------------------------
\* The bound on `elapsed` is never reached.
ClockCovers ==
    Waited(MaxAttempts + 1, 10) + Waited(MaxAttempts + 1, 10) <= ClockLimit

LEMMA SleepKeepsBounds ==
    ASSUME PollTypes, Sleep, ClockCovers, NEW earlier \in Nat,
           Waited(attempt, -10) <= elapsed, elapsed <= earlier + Waited(attempt, 10),
           earlier <= Waited(MaxAttempts + 1, 10)
    PROVE  /\ Waited(attempt + 1, -10) <= elapsed'
           /\ elapsed' <= earlier + Waited(attempt + 1, 10)
           /\ Waited(attempt + 1, 10) <= Waited(MaxAttempts + 1, 10)
           /\ Waited(attempt + 1, 10) \in Nat /\ Waited(attempt + 1, -10) \in Nat
<1>1. PICK j \in Jitter :
          /\ calculateBackoffDelay(attempt, j) \in Nat
          /\ elapsed' = Capped(elapsed + calculateBackoffDelay(attempt, j), ClockLimit)
  BY SleepAdds
<1>2. /\ attempt \in 1 .. MaxAttempts /\ attempt \in Nat /\ elapsed \in Nat
      /\ ClockLimit \in Nat
      /\ attempt + 1 \in 1 .. MaxAttempts + 1 /\ -10 \in Jitter /\ 10 \in Jitter
  BY AttemptsAssumption DEF PollTypes, Jitter
<1>3. /\ calculateBackoffDelay(attempt, -10) \in Nat
      /\ calculateBackoffDelay(attempt, 10) \in Nat
      /\ calculateBackoffDelay(attempt, -10) <= calculateBackoffDelay(attempt, j)
      /\ calculateBackoffDelay(attempt, j) <= calculateBackoffDelay(attempt, 10)
  BY <1>2, DelayBounds
<1>4. /\ Waited(attempt, -10) \in Nat /\ Waited(attempt, 10) \in Nat
      /\ Waited(attempt + 1, -10)
           = Waited(attempt, -10) + calculateBackoffDelay(attempt, -10)
      /\ Waited(attempt + 1, 10)
           = Waited(attempt, 10) + calculateBackoffDelay(attempt, 10)
  BY <1>2, WaitedGrows
<1>5. /\ Waited(attempt + 1, 10) <= Waited(MaxAttempts + 1, 10)
      /\ Waited(MaxAttempts + 1, 10) \in Nat
  BY <1>2, WaitedBelowAll
<1>6. elapsed + calculateBackoffDelay(attempt, j) <= ClockLimit
  BY <1>1, <1>2, <1>3, <1>4, <1>5 DEF ClockCovers
<1>7. elapsed' = elapsed + calculateBackoffDelay(attempt, j)
  BY <1>1, <1>2, <1>6 DEF Capped
<1>8. QED
  BY <1>1, <1>2, <1>3, <1>4, <1>5, <1>7

LEMMA QueryBacksOff ==
    ASSUME PollTypes, BacksOff, ClockCovers, Query
    PROVE  BacksOff'
<1>1. /\ phase \in {"byTx", "byHash"} /\ attempt \in 1 .. MaxAttempts
      /\ elapsed \in Nat /\ MaxAttempts \in Nat
  BY QueryForms, AttemptsAssumption DEF PollTypes
<1>2. /\ Waited(1, 10) = 0 /\ Waited(1, -10) = 0
      /\ Waited(attempt, 10) \in Nat /\ Waited(MaxAttempts + 1, 10) \in Nat
      /\ Waited(attempt, 10) <= Waited(MaxAttempts + 1, 10)
  BY <1>1, WaitedAtFirst, WaitedBelowAll
<1> HIDE DEF Waited
\* Waited is a constant operator.
<1>3. BacksOff' <=>
         /\ phase' = "byTx" => /\ Waited(attempt', -10) <= elapsed'
                               /\ elapsed' <= Waited(attempt', 10)
         /\ phase' = "byHash" =>
               /\ Waited(attempt', -10) <= elapsed'
               /\ elapsed' <= Waited(MaxAttempts + 1, 10) + Waited(attempt', 10)
  BY DEF BacksOff
<1>4. ASSUME Sleep, Moves(attempt = MaxAttempts) PROVE BacksOff'
  <2>1. CASE phase = "byTx"
    <3>1. /\ Waited(attempt + 1, -10) <= elapsed'
          /\ elapsed' <= 0 + Waited(attempt + 1, 10)
          /\ Waited(attempt + 1, 10) \in Nat /\ Waited(attempt + 1, -10) \in Nat
      <4>1. /\ Waited(attempt, -10) <= elapsed
            /\ elapsed <= 0 + Waited(attempt, 10)
            /\ 0 \in Nat /\ 0 <= Waited(MaxAttempts + 1, 10)
        BY <1>1, <1>2, <2>1 DEF BacksOff
      <4>2. QED
        BY <1>4, <4>1, SleepKeepsBounds
    <3>2. elapsed' \in Nat
      BY <1>4, SleepAdds
    <3>3. CASE attempt = MaxAttempts
      <4>1. phase' = "byHash" /\ attempt' = 1
        BY <1>4, <2>1, <3>3 DEF Moves
      <4>2. Waited(attempt', -10) = 0 /\ Waited(attempt', 10) = 0
        BY <1>2, <4>1
      <4>3. elapsed' <= Waited(MaxAttempts + 1, 10)
        BY <1>2, <3>1, <3>2, <3>3
      <4>4. QED
        BY <1>2, <1>3, <3>2, <4>1, <4>2, <4>3
    <3>4. CASE attempt # MaxAttempts
      <4>1. phase' = "byTx" /\ attempt' = attempt + 1
        BY <1>4, <2>1, <3>4 DEF Moves
      <4>2. QED
        BY <1>3, <3>1, <3>2, <4>1
    <3>5. QED
      BY <3>3, <3>4
  <2>2. CASE phase = "byHash"
    <3>1. CASE attempt = MaxAttempts
      BY <1>3, <1>4, <2>2, <3>1 DEF Moves
    <3>2. CASE attempt # MaxAttempts
      <4> DEFINE all == Waited(MaxAttempts + 1, 10)
      <4>1. phase' = "byHash" /\ attempt' = attempt + 1
        BY <1>4, <2>2, <3>2 DEF Moves
      <4>2. /\ Waited(attempt, -10) <= elapsed /\ elapsed <= all + Waited(attempt, 10)
            /\ all \in Nat /\ all <= Waited(MaxAttempts + 1, 10)
        BY <1>2, <2>2 DEF BacksOff
      <4>3. /\ Waited(attempt + 1, -10) <= elapsed'
            /\ elapsed' <= all + Waited(attempt + 1, 10)
        BY <1>4, <4>2, SleepKeepsBounds
      <4>4. QED
        BY <1>3, <4>1, <4>3
    <3>3. QED
      BY <3>1, <3>2
  <2>3. QED
    BY <1>1, <2>1, <2>2
<1>5. ASSUME elapsed' = elapsed, Moves(TRUE) PROVE BacksOff'
  <2>1. CASE phase = "byTx"
    <3>1. phase' = "byHash" /\ attempt' = 1
      BY <1>5, <2>1 DEF Moves
    <3>2. Waited(attempt', -10) = 0 /\ Waited(attempt', 10) = 0
      BY <1>2, <3>1
    <3>3. elapsed <= Waited(attempt, 10)
      BY <2>1 DEF BacksOff
    <3>4. QED
      BY <1>1, <1>2, <1>3, <1>5, <3>1, <3>2, <3>3
  <2>2. CASE phase = "byHash"
    BY <1>3, <1>5, <2>2 DEF Moves
  <2>3. QED
    BY <1>1, <2>1, <2>2
<1>6. CASE phase' = "ended"
  BY <1>3, <1>6
<1>7. QED
  BY <1>4, <1>5, <1>6, QueryForms

LEMMA BacksOffStep ==
    ASSUME ClockCovers
    PROVE  PollInv /\ BacksOff /\ [BurnNext]_burnVars => BacksOff'
<1>1. BacksOff /\ UNCHANGED <<phase, attempt, elapsed>> => BacksOff'
  BY DEF BacksOff
<1>2. [BurnNext]_burnVars => Query \/ UNCHANGED <<phase, attempt, elapsed>>
  BY DEF BurnNext, burnVars, vars, extract, circleStep, poll, CircleAdvances
<1>3. QED
  BY <1>1, <1>2, QueryBacksOff DEF PollInv

\* Between two queries lies at least the shortest backoff of the attempt and never two
\* of them, for any number of attempts and any failures.
THEOREM QueriesKeepDistance ==
    ASSUME ClockCovers
    PROVE  BurnSpec => []BacksOff
<1>1. Init => BacksOff
  <2> SUFFICES ASSUME Init PROVE BacksOff
    OBVIOUS
  <2>1. Waited(1, -10) = 0 /\ Waited(1, 10) = 0
    BY WaitedAtFirst
  <2>2. QED
    BY <2>1 DEF Init, BacksOff
<1>2. PollInv /\ BacksOff /\ [BurnNext]_burnVars => BacksOff'
  BY BacksOffStep
<1>3. QED
  BY PollInit, PollStep, <1>1, <1>2, PTL DEF BurnSpec, BurnInit
=============================================================================
