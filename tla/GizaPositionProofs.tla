------------------------- MODULE GizaPositionProofs -------------------------
(***************************************************************************)
(* Proofs about GizaPosition for any number of calls, transfers, agents    *)
(* and lives.  A position is on record before an agent is activated for it *)
(* and nothing written afterwards takes its agent or principal away:       *)
(* RecordedFirst says so for the stages of a call.                         *)
(***************************************************************************)
EXTENDS GizaPosition, TLAPS

Own(t) == { j \in Calls : transfer[j] = t }

Recorded(t) ==
    /\ positions[t].status # "NONE"
    /\ positions[t].agent \in agents
    /\ positions[t].principal \in Own(t)

Invests(i) == stage[i] \in {"activate", "active", "portfolio", "sync"}

AgentObtained == \A i \in Calls : At(i, "save") => agent[i] \in agents

RecordedFirst ==
    \A i \in Calls : Invests(i) \/ Invested(i) =>
        transfer[i] \in Transfers /\ Recorded(transfer[i])

GizaInv == TypeOK /\ AgentObtained /\ RecordedFirst

LEMMA GizaInit == Init => GizaInv
  BY GizaAssumption DEF Init, GizaInv, TypeOK, AgentObtained, RecordedFirst, Invests,
     Invested, NoPosition, PositionRow, Stages, At

\* A step that neither writes to the table nor activates an agent keeps what is
\* on record, if it brings no call to a stage that relies on the record.
LEMMA TableUntouched ==
    ASSUME GizaInv, UNCHANGED <<positions, transfer, invested>>,
           agents \subseteq agents',
           \A i \in Calls : Invests(i)' => Invests(i)
    PROVE  RecordedFirst'
  BY DEF GizaInv, TypeOK, RecordedFirst, Recorded, Invested, Own

\* The two kinds of writes to a row: of its status and portfolio value, and of its
\* status, agent and principal.
StatusWritten(P, t, st, v) == [P EXCEPT ![t].status = st, ![t].value = v]
AgentWritten(P, t, a, p) ==
    [P EXCEPT ![t].status = "ACTIVATING", ![t].agent = a, ![t].principal = p]

LEMMA StatusWrite ==
    ASSUME NEW P \in [Transfers -> PositionRow], NEW t \in Transfers,
           NEW st \in {"ACTIVE", "SYNCED", "FAILED"}, NEW v \in SUBSET Calls
    PROVE  LET Q == StatusWritten(P, t, st, v)
           IN  /\ Q \in [Transfers -> PositionRow]
               /\ Q[t].status = st
               /\ \A u \in Transfers : /\ Q[u].agent = P[u].agent
                                       /\ Q[u].principal = P[u].principal
               /\ \A u \in Transfers \ {t} : Q[u].status = P[u].status
  BY DEF StatusWritten, PositionRow

LEMMA StatusOnly ==
    ASSUME NEW P \in [Transfers -> PositionRow], NEW t \in Transfers, NEW st
    PROVE  /\ [P EXCEPT ![t].status = st] = StatusWritten(P, t, st, P[t].value)
           /\ P[t].value \in SUBSET Calls
  BY DEF StatusWritten, PositionRow

LEMMA AgentWrite ==
    ASSUME NEW P \in [Transfers -> PositionRow], NEW t \in Transfers,
           NEW a \in Agents, NEW p \in Calls
    PROVE  LET Q == AgentWritten(P, t, a, p)
           IN  /\ Q \in [Transfers -> PositionRow]
               /\ Q[t].status = "ACTIVATING" /\ Q[t].agent = a /\ Q[t].principal = p
               /\ \A u \in Transfers \ {t} : Q[u] = P[u]
  BY DEF AgentWritten, PositionRow

LEMMA GizaStep == GizaInv /\ [Next]_vars => GizaInv'
<1> SUFFICES ASSUME GizaInv, [Next]_vars PROVE GizaInv'
  OBVIOUS
<1> USE DEF callVars, gizaVars, historyVars
<1>0. TypeOK /\ AgentObtained /\ RecordedFirst
  BY DEF GizaInv
<1>1. ASSUME NEW i \in Calls, NEW t \in Transfers, start(i, t) PROVE GizaInv'
  <2>1. TypeOK'
    BY <1>0, <1>1, GizaAssumption DEF start, TypeOK, Stages, At, To, Fail
  <2>2. AgentObtained'
    BY <1>0, <1>1 DEF start, TypeOK, AgentObtained, At, To, Fail
  <2>3. RecordedFirst'
    <3>1. /\ transfer[i] \notin Transfers /\ stage'[i] \in {"client", "fail"}
          /\ \A j \in Calls \ {i} : stage'[j] = stage[j] /\ transfer'[j] = transfer[j]
          /\ UNCHANGED <<positions, agents, invested>>
      BY <1>0, <1>1, GizaAssumption DEF start, TypeOK, At, To, Fail
    <3>2. SUFFICES ASSUME NEW j \in Calls, Invests(j)' \/ Invested(j)'
                   PROVE  transfer'[j] \in Transfers /\ Recorded(transfer[j])'
      BY DEF RecordedFirst
    <3>3. j # i /\ (Invests(j) \/ Invested(j))
      BY <1>0, <3>1, <3>2 DEF RecordedFirst, Invests, Invested
    <3>4. transfer[j] \in Transfers /\ Recorded(transfer[j])
      BY <1>0, <3>3 DEF RecordedFirst
    <3>5. Own(transfer[j]) \subseteq Own(transfer[j])'
      BY <3>1, <3>3, <3>4 DEF Own
    <3>6. QED
      BY <3>1, <3>3, <3>4, <3>5 DEF Recorded
  <2>4. QED
    BY <2>1, <2>2, <2>3 DEF GizaInv
<1>2. CASE initializeClient
  <2>1. TypeOK' /\ AgentObtained'
    BY <1>0, <1>2 DEF initializeClient, TypeOK, AgentObtained, At
  <2>2. RecordedFirst'
    BY <1>2, TableUntouched DEF initializeClient, Invests
  <2>3. QED
    BY <2>1, <2>2 DEF GizaInv
<1>3. ASSUME NEW i \in Calls, getClient(i) PROVE GizaInv'
  <2>1. TypeOK' /\ AgentObtained'
    BY <1>0, <1>3 DEF getClient, TypeOK, AgentObtained, Stages, At, To
  <2>2. RecordedFirst'
    BY <1>0, <1>3, TableUntouched DEF getClient, TypeOK, Invests, At, To
  <2>3. QED
    BY <2>1, <2>2 DEF GizaInv
<1>4. ASSUME NEW i \in Calls, fetchAgent(i) PROVE GizaInv'
  <2>1. TypeOK' /\ AgentObtained'
    BY <1>0, <1>4 DEF fetchAgent, Obtain, TypeOK, AgentObtained, Stages, At, To
  <2>2. RecordedFirst'
    BY <1>0, <1>4, TableUntouched DEF fetchAgent, Obtain, TypeOK, Invests, At, To
  <2>3. QED
    BY <2>1, <2>2 DEF GizaInv
<1>5. ASSUME NEW i \in Calls, createAgent(i) PROVE GizaInv'
  <2>1. TypeOK' /\ AgentObtained'
    BY <1>0, <1>5 DEF createAgent, Obtain, TypeOK, AgentObtained, Stages, At, To
  <2>2. RecordedFirst'
    BY <1>0, <1>5, TableUntouched DEF createAgent, Obtain, TypeOK, Invests, At, To
  <2>3. QED
    BY <2>1, <2>2 DEF GizaInv
<1>6. ASSUME NEW i \in Calls, At(i, "save"), positions' = Saved(i),
             To(i, "activate") \/ To(i, "fail"),
             UNCHANGED <<client, life, transfer, agent, fetched, agents, invested,
                         unsaved, rejectedIn, startedIn>>,
             trouble' \subseteq Calls
      PROVE  GizaInv'
  <2>1. transfer[i] \in Transfers /\ agent[i] \in agents /\ agent[i] \in Agents
    BY <1>0, <1>6 DEF TypeOK, AgentObtained, At
  <2>2. positions' = AgentWritten(positions, transfer[i], agent[i], i)
    BY <1>6 DEF Saved, AgentWritten
  <2>3. /\ positions' \in [Transfers -> PositionRow]
        /\ positions'[transfer[i]].status = "ACTIVATING"
        /\ positions'[transfer[i]].agent = agent[i]
        /\ positions'[transfer[i]].principal = i
        /\ \A u \in Transfers \ {transfer[i]} : positions'[u] = positions[u]
    BY <1>0, <2>1, <2>2, AgentWrite DEF TypeOK
  <2>4. TypeOK'
    BY <1>0, <1>6, <2>1, <2>3, GizaAssumption DEF TypeOK, Stages, At, To
  <2>5. AgentObtained'
    BY <1>0, <1>6 DEF TypeOK, AgentObtained, At, To
  <2>6. RecordedFirst'
    <3>1. SUFFICES ASSUME NEW j \in Calls, Invests(j)' \/ Invested(j)'
                   PROVE  transfer[j] \in Transfers /\ Recorded(transfer[j])'
      BY <1>6 DEF RecordedFirst
    <3>2. j = i \/ Invests(j) \/ Invested(j)
      BY <1>0, <1>6, <3>1 DEF TypeOK, Invests, Invested, To
    <3>3. transfer[j] \in Transfers
      BY <1>0, <2>1, <3>2 DEF RecordedFirst
    <3>4. CASE transfer[j] = transfer[i]
      BY <1>6, <2>1, <2>3, <3>4 DEF Recorded, Own
    <3>5. CASE transfer[j] # transfer[i]
      BY <1>0, <1>6, <2>3, <3>2, <3>3, <3>5 DEF RecordedFirst, Recorded, Own
    <3>6. QED
      BY <3>3, <3>4, <3>5
  <2>7. QED
    BY <2>4, <2>5, <2>6 DEF GizaInv
<1>7. ASSUME NEW i \in Calls, At(i, "activate"), To(i, "active") \/ To(i, "fail"),
             NEW a \in agents, invested' = invested \union {<<i, a>>},
             UNCHANGED <<client, life, transfer, agent, fetched, positions, agents,
                         unsaved, rejectedIn, startedIn>>,
             trouble' \subseteq Calls
      PROVE  GizaInv'
  <2>1. TypeOK' /\ AgentObtained'
    BY <1>0, <1>7 DEF TypeOK, AgentObtained, Stages, At, To
  <2>2. RecordedFirst'
    <3>1. SUFFICES ASSUME NEW j \in Calls, Invests(j)' \/ Invested(j)'
                   PROVE  transfer[j] \in Transfers /\ Recorded(transfer[j])'
      BY <1>7 DEF RecordedFirst
    <3>2. Invests(i)
      BY <1>7 DEF Invests, At
    <3>3. Invests(j) \/ Invested(j)
      BY <1>0, <1>7, <3>1, <3>2 DEF TypeOK, Invests, Invested, To
    <3>4. QED
      BY <1>0, <1>7, <3>3 DEF RecordedFirst, Recorded, Own
  <2>3. QED
    BY <2>1, <2>2 DEF GizaInv
\* Writes of a status, with or without a portfolio value.
<1>8. ASSUME NEW i \in Calls, NEW st \in {"ACTIVE", "SYNCED", "FAILED"},
             NEW v \in SUBSET Calls, NEW s \in Stages \ {"idle", "save", "activate"},
             ~At(i, "idle"), To(i, s), st # "FAILED" \/ ~Invests(i),
             st # "FAILED" => Invests(i), Invests(i)' => Invests(i),
             positions' = StatusWritten(positions, transfer[i], st, v),
             UNCHANGED <<client, life, transfer, agent, fetched, agents, invested,
                         rejectedIn, startedIn>>,
             trouble' \subseteq Calls, unsaved' \subseteq Calls
      PROVE  GizaInv'
  <2>1. transfer[i] \in Transfers
    BY <1>0, <1>8 DEF TypeOK
  <2>2. st # "FAILED" => positions[transfer[i]].agent # Unknown
    BY <1>0, <1>8, GizaAssumption DEF TypeOK, RecordedFirst, Recorded
  <2>3. /\ positions' \in [Transfers -> PositionRow]
        /\ positions'[transfer[i]].status = st
        /\ \A u \in Transfers : /\ positions'[u].agent = positions[u].agent
                                /\ positions'[u].principal = positions[u].principal
        /\ \A u \in Transfers \ {transfer[i]} :
              positions'[u].status = positions[u].status
    BY <1>0, <1>8, <2>1, StatusWrite DEF TypeOK
  <2>4. TypeOK'
    BY <1>0, <1>8, <2>1, <2>2, <2>3 DEF TypeOK, At, To
  <2>5. AgentObtained'
    BY <1>0, <1>8 DEF TypeOK, AgentObtained, At, To
  <2>6. \A j \in Calls : Invests(j)' => Invests(j)
    BY <1>0, <1>8 DEF TypeOK, Invests, To
  <2>7. RecordedFirst'
    BY <1>0, <1>8, <2>1, <2>3, <2>6
       DEF TypeOK, RecordedFirst, Recorded, Invested, Own
  <2>8. QED
    BY <2>4, <2>5, <2>7 DEF GizaInv
\* Steps of a call that leave the table and Giza's activations alone.
<1>9. ASSUME NEW i \in Calls, NEW s \in Stages \ {"idle", "save"}, ~At(i, "idle"),
             To(i, s), Invests(i)' => Invests(i), agents \subseteq agents',
             agents' \subseteq Agents, fetched' \in [Calls -> SUBSET Calls],
             UNCHANGED <<client, life, transfer, agent, positions, invested,
                         rejectedIn, startedIn>>,
             trouble' \subseteq Calls, unsaved' \subseteq Calls
      PROVE  GizaInv'
  <2>1. TypeOK'
    BY <1>0, <1>9 DEF TypeOK, At, To
  <2>2. AgentObtained'
    BY <1>0, <1>9 DEF TypeOK, AgentObtained, At, To
  <2>3. \A j \in Calls : Invests(j)' => Invests(j)
    BY <1>0, <1>9 DEF TypeOK, Invests, To
  <2>4. QED
    BY <1>9, <2>1, <2>2, <2>3, TableUntouched DEF GizaInv
<1>10. ASSUME NEW i \in Calls, callStep(i) \/ gizaRefuses(i) \/ writeFails(i)
       PROVE  GizaInv'
  <2>1. /\ trouble \subseteq Calls /\ unsaved \subseteq Calls
        /\ agents \subseteq Agents /\ fetched \in [Calls -> SUBSET Calls]
        /\ stage \in [Calls -> Stages] /\ positions \in [Transfers -> PositionRow]
        /\ ~At(i, "idle") => transfer[i] \in Transfers
    BY <1>0 DEF TypeOK
  <2>2. ~At(i, "idle") => \A st : [positions EXCEPT ![transfer[i]].status = st]
           = StatusWritten(positions, transfer[i], st, Position(i).value)
    BY <2>1, StatusOnly DEF Position
  <2>3. ~At(i, "idle") => Position(i).value \in SUBSET Calls
    BY <2>1, StatusOnly DEF Position
  <2>4. \A s \in Stages : To(i, s) => stage'[i] = s
    BY <2>1 DEF To
  <2>5. CASE savePosition(i)
    BY <1>6, <2>1, <2>5 DEF savePosition
  <2>6. CASE activateAgent(i)
    BY <1>7, <2>1, <2>6 DEF activateAgent
  <2>7. CASE markActive(i)
    <3>1. ~At(i, "idle") /\ Invests(i) /\ "portfolio" \in Stages \ {"idle", "save", "activate"}
      BY <2>7 DEF markActive, At, Invests, Stages
    <3>2. positions' = StatusWritten(positions, transfer[i], "ACTIVE", Position(i).value)
      BY <2>2, <2>7, <3>1 DEF markActive, Activated
    <3>3. QED
      BY <1>8, <2>1, <2>3, <2>7, <3>1, <3>2 DEF markActive
  <2>8. CASE fetchPortfolio(i)
    <3>1. ~At(i, "idle") /\ Invests(i) /\ "sync" \in Stages \ {"idle", "save"}
      BY <2>8 DEF fetchPortfolio, At, Invests, Stages
    <3>2. fetched' \in [Calls -> SUBSET Calls]
      BY <2>1, <2>8 DEF fetchPortfolio
    <3>3. QED
      BY <1>9, <2>1, <2>8, <3>1, <3>2 DEF fetchPortfolio
  <2>9. CASE At(i, "sync") /\ positions' = Synced(i)
             /\ (syncPortfolio(i) \/ writeFails(i))
    <3>1. /\ ~At(i, "idle") /\ Invests(i) /\ fetched[i] \in SUBSET Calls
          /\ {"done", "fail"} \subseteq Stages \ {"idle", "save", "activate"}
      BY <2>1, <2>9 DEF At, Invests, Stages
    <3>2. positions' = StatusWritten(positions, transfer[i], "SYNCED", fetched[i])
      BY <2>9 DEF Synced, StatusWritten
    <3>3. CASE syncPortfolio(i)
      BY <1>8, <2>1, <3>1, <3>2, <3>3 DEF syncPortfolio
    <3>4. CASE writeFails(i)
      BY <1>8, <2>1, <3>1, <3>2, <3>4 DEF writeFails, Fail
    <3>5. QED
      BY <2>9, <3>3, <3>4
  <2>10. CASE At(i, "active") /\ positions' = Activated(i) /\ writeFails(i)
    <3>1. ~At(i, "idle") /\ Invests(i) /\ "fail" \in Stages \ {"idle", "save", "activate"}
      BY <2>10 DEF At, Invests, Stages
    <3>2. positions' = StatusWritten(positions, transfer[i], "ACTIVE", Position(i).value)
      BY <2>2, <2>10, <3>1 DEF Activated
    <3>3. QED
      BY <1>8, <2>1, <2>3, <2>10, <3>1, <3>2 DEF writeFails, Fail
  <2>11. CASE At(i, "save") /\ positions' = Saved(i) /\ writeFails(i)
    BY <1>6, <2>1, <2>11 DEF writeFails, Fail
  <2>12. ASSUME UNCHANGED positions, writeFails(i) PROVE GizaInv'
    <3>1. ~At(i, "idle") /\ "fail" \in Stages \ {"idle", "save"}
      BY <2>12 DEF writeFails, At, Stages
    <3>2. ~Invests(i)'
      BY <2>1, <2>4, <2>12 DEF writeFails, Fail, To, Invests, Stages
    <3>3. QED
      BY <1>9, <2>1, <2>12, <3>1, <3>2 DEF writeFails, Fail
  <2>13. CASE gizaRefuses(i)
    <3>1. ~At(i, "idle") /\ "fail" \in Stages \ {"idle", "save"}
      BY <2>13 DEF gizaRefuses, At, Stages
    <3>2. ~Invests(i)'
      BY <2>1, <2>13 DEF gizaRefuses, Fail, To, Invests, Stages
    <3>3. ASSUME NEW a \in agents, At(i, "activate"),
                 invested' = invested \union {<<i, a>>}, UNCHANGED agents
          PROVE  GizaInv'
      BY <1>7, <2>1, <2>13, <3>3 DEF gizaRefuses, Fail
    <3>4. ASSUME UNCHANGED invested, agents \subseteq agents', agents' \subseteq Agents
          PROVE  GizaInv'
      BY <1>9, <2>1, <2>13, <3>1, <3>2, <3>4 DEF gizaRefuses, Fail
    <3>5. QED
      BY <2>1, <2>13, <3>3, <3>4 DEF gizaRefuses
  <2>14. CASE markFailedInitialization(i)
    <3>1. /\ ~At(i, "idle") /\ ~Invests(i)
          /\ "done" \in Stages \ {"idle", "save", "activate"}
      BY <2>14 DEF markFailedInitialization, At, Invests, Stages
    <3>2. ~Invests(i)'
      BY <2>1, <2>14 DEF markFailedInitialization, To, Invests, Stages
    <3>3. CASE positions' = MarkedFailed(i) /\ UNCHANGED unsaved
      <4>1. positions' = StatusWritten(positions, transfer[i], "FAILED", Position(i).value)
        BY <2>2, <3>1, <3>3 DEF MarkedFailed
      <4>2. QED
        BY <1>8, <2>1, <2>3, <2>14, <3>1, <3>2, <3>3, <4>1 DEF markFailedInitialization
    <3>4. CASE UNCHANGED positions /\ unsaved' = unsaved \union {i}
      BY <1>9, <2>1, <2>14, <3>1, <3>2, <3>4 DEF markFailedInitialization
    <3>5. QED
      BY <2>14, <3>3, <3>4 DEF markFailedInitialization
  <2>15. CASE writeFails(i)
    BY <2>9, <2>10, <2>11, <2>12, <2>15 DEF writeFails
  <2>16. CASE syncPortfolio(i)
    BY <2>9, <2>16 DEF syncPortfolio
  <2>17. QED
    BY <1>3, <1>4, <1>5, <1>10, <2>5, <2>6, <2>7, <2>8, <2>13, <2>14, <2>15, <2>16
       DEF callStep
<1>11. CASE crash
  <2>1. \A i \in Calls : stage'[i] \in {"idle", "done", "lost"}
          /\ (stage'[i] = "idle" <=> stage[i] = "idle")
    BY <1>11 DEF crash
  <2>2. TypeOK'
    <3>1. life' \in 1 .. MaxLives /\ client' \in {"none", "connecting"}
      BY <1>0, <1>11, GizaAssumption DEF crash, TypeOK
    <3>2. /\ stage' \in [Calls -> Stages]
          /\ agent' \in [Calls -> Agents \union {Unknown}]
          /\ fetched' \in [Calls -> SUBSET Calls]
      BY <1>0, <1>11 DEF crash, TypeOK, Stages
    <3>3. UNCHANGED <<transfer, positions, agents, invested, trouble, unsaved,
                      rejectedIn, startedIn>>
      BY <1>11 DEF crash
    <3>4. QED
      BY <1>0, <2>1, <3>1, <3>2, <3>3 DEF TypeOK, At
  <2>3. AgentObtained'
    BY <2>1 DEF AgentObtained, At
  <2>4. RecordedFirst'
    BY <1>11, <2>1, TableUntouched DEF crash, Invests
  <2>5. QED
    BY <2>2, <2>3, <2>4 DEF GizaInv
<1>12. CASE UNCHANGED vars
  <2>1. TypeOK'
    BY <1>0, <1>12 DEF vars, TypeOK, At
  <2>2. AgentObtained'
    BY <1>0, <1>12 DEF vars, AgentObtained, At
  <2>3. RecordedFirst'
    BY <1>12, TableUntouched DEF vars, Invests
  <2>4. QED
    BY <2>1, <2>2, <2>3 DEF GizaInv
<1>13. QED
  BY <1>1, <1>2, <1>10, <1>11, <1>12 DEF Next

\* The AgentPosition table and the calls' local state keep their types; a position
\* that is ACTIVATING, ACTIVE or SYNCED names an agent.
THEOREM GizaTypes == Spec => []TypeOK
<1>1. GizaInv => TypeOK
  BY DEF GizaInv
<1>2. QED
  BY GizaInit, GizaStep, <1>1, PTL DEF Spec

\* Whatever requests, writes and processes fail, for any number of calls and
\* transfers: USDC that went into an agent is on record, with an agent and the
\* principal of a call for the transfer, also in a position that is FAILED.
THEOREM InvestedStaysRecorded == Spec => []InvestedIsRecorded
<1>1. GizaInv => InvestedIsRecorded
  BY DEF GizaInv, RecordedFirst, Recorded, InvestedIsRecorded, Position, Own
<1>2. QED
  BY GizaInit, GizaStep, <1>1, PTL DEF Spec


-----------------------------------------------------------------------------
(* What a SYNCED and what a FAILED position say about the calls for it.    *)

Several == \E a, b \in agents : a # b

Shown(t) ==
    \E i \in Calls : /\ transfer[i] = t /\ Invested(i)
                     /\ i \in positions[t].value \/ Several

Failed(i) == i \in trouble \/ startedIn[i] \in rejectedIn

\* A call that got past its activation has USDC in an agent, and has read it there.
ShownInv ==
    /\ \A i \in Calls : stage[i] \in {"active", "portfolio", "sync"} => Invested(i)
    /\ \A i \in Calls : stage[i] = "sync" => i \in fetched[i] \/ Several
    /\ \A t \in Transfers : positions[t].status = "SYNCED" => Shown(t)

\* A call that is under way began in this life, so a client that was rejected in
\* this life explains its failure.
FailedInv ==
    /\ client = "rejected" => life \in rejectedIn
    /\ \A i \in Calls : stage[i] \notin {"idle", "done", "lost"} => startedIn[i] = life
    /\ \A i \in Calls : stage[i] = "fail" => Failed(i)
    /\ \A t \in Transfers : positions[t].status = "FAILED" =>
          \E i \in Calls : transfer[i] = t /\ Failed(i)

\* What the steps of a call have in common.
OnlyCall(i) ==
    /\ \A j \in Calls \ {i} : stage'[j] = stage[j] /\ fetched'[j] = fetched[j]
    /\ agents \subseteq agents' /\ invested \subseteq invested' /\ trouble \subseteq trouble'
    /\ UNCHANGED <<client, life, transfer, rejectedIn, startedIn>>
    /\ stage[i] \notin {"idle", "done", "lost"}

StageMoves(i) ==
    /\ stage'[i] = "active" => Invested(i)'
    /\ stage'[i] = "portfolio" => stage[i] = "active"
    /\ stage'[i] = "sync" =>
          /\ stage[i] = "portfolio"
          /\ fetched'[i] = { j \in Calls : <<j, Position(i).agent>> \in invested }
    /\ stage'[i] = "fail" =>
          i \in trouble' \/ (client = "rejected" /\ stage[i] = "client")

RowMoves(i) ==
    \/ positions' \in {positions, Saved(i), Activated(i)}
    \/ stage[i] = "sync" /\ positions' = Synced(i)
    \/ stage[i] = "fail" /\ positions' = MarkedFailed(i)

LEMMA CallMoves ==
    ASSUME TypeOK, NEW i \in Calls, callStep(i) \/ gizaRefuses(i) \/ writeFails(i)
    PROVE  OnlyCall(i) /\ StageMoves(i) /\ RowMoves(i)
<1> USE DEF TypeOK, At, To, Fail, OnlyCall, StageMoves, RowMoves, gizaVars, historyVars
<1>1. CASE getClient(i)
  BY <1>1 DEF getClient
<1>2. CASE fetchAgent(i)
  BY <1>2 DEF fetchAgent, Obtain
<1>3. CASE createAgent(i)
  BY <1>3 DEF createAgent, Obtain
<1>4. CASE savePosition(i)
  BY <1>4 DEF savePosition
<1>5. CASE activateAgent(i)
  BY <1>5 DEF activateAgent, Invested
<1>6. CASE markActive(i)
  BY <1>6 DEF markActive
<1>7. CASE fetchPortfolio(i)
  BY <1>7 DEF fetchPortfolio
<1>8. CASE syncPortfolio(i)
  BY <1>8 DEF syncPortfolio
<1>9. CASE markFailedInitialization(i)
  BY <1>9 DEF markFailedInitialization
<1>10. CASE gizaRefuses(i)
  BY <1>10 DEF gizaRefuses
<1>11. CASE writeFails(i)
  BY <1>11 DEF writeFails
<1>12. QED
  BY <1>1, <1>2, <1>3, <1>4, <1>5, <1>6, <1>7, <1>8, <1>9, <1>10, <1>11 DEF callStep


LEMMA RowEffect ==
    ASSUME TypeOK, NEW i \in Calls, OnlyCall(i), RowMoves(i), NEW t \in Transfers
    PROVE  /\ positions'[t].status = "SYNCED" =>
                 \/ /\ positions[t].status = "SYNCED"
                    /\ positions'[t].value = positions[t].value
                 \/ /\ t = transfer[i] /\ stage[i] = "sync"
                    /\ positions'[t].value = fetched[i]
           /\ positions'[t].status = "FAILED" =>
                 \/ positions[t].status = "FAILED"
                 \/ t = transfer[i] /\ stage[i] = "fail"
<1>1. /\ positions \in [Transfers -> PositionRow] /\ transfer[i] \in Transfers
      /\ positions[t] \in PositionRow
  BY DEF TypeOK, OnlyCall, At
<1>2. CASE positions' = positions
  BY <1>2
<1>3. CASE positions' = Saved(i)
  BY <1>1, <1>3 DEF Saved, PositionRow
<1>4. CASE positions' = Activated(i)
  BY <1>1, <1>4 DEF Activated, PositionRow
<1>5. CASE stage[i] = "sync" /\ positions' = Synced(i)
  BY <1>1, <1>5 DEF Synced, PositionRow
<1>6. CASE stage[i] = "fail" /\ positions' = MarkedFailed(i)
  BY <1>1, <1>6 DEF MarkedFailed, PositionRow
<1>7. QED
  BY <1>2, <1>3, <1>4, <1>5, <1>6 DEF RowMoves

LEMMA ShownFailedInit == Init => ShownInv /\ FailedInv
  BY DEF Init, ShownInv, FailedInv, NoPosition

\* What is shown, and what explains a failure, stays.
LEMMA ShownStays ==
    ASSUME TypeOK, agents \subseteq agents', invested \subseteq invested',
           \A j \in Calls : transfer[j] # Unknown => transfer'[j] = transfer[j]
    PROVE  /\ Several => Several'
           /\ \A i \in Calls : Invested(i) => Invested(i)'
           /\ \A t \in Transfers : Shown(t) /\ positions'[t].value = positions[t].value
                                      => Shown(t)'
  BY GizaAssumption DEF Several, Invested, Shown

LEMMA ShownStep == GizaInv /\ ShownInv /\ [Next]_vars => ShownInv'
<1> SUFFICES ASSUME GizaInv, ShownInv, [Next]_vars PROVE ShownInv'
  OBVIOUS
<1>0. TypeOK /\ \A i \in Calls : Invests(i) => Recorded(transfer[i])
  BY DEF GizaInv, RecordedFirst
<1>1. ASSUME NEW i \in Calls, callStep(i) \/ gizaRefuses(i) \/ writeFails(i)
      PROVE  ShownInv'
  <2>1. OnlyCall(i) /\ StageMoves(i) /\ RowMoves(i)
    BY <1>0, <1>1, CallMoves
  <2>2. /\ Several => Several'
        /\ \A j \in Calls : Invested(j) => Invested(j)'
        /\ \A t \in Transfers : Shown(t) /\ positions'[t].value = positions[t].value
                                  => Shown(t)'
    BY <1>0, <2>1, ShownStays DEF OnlyCall
  <2>3. stage'[i] \in {"active", "portfolio", "sync"} => Invested(i)'
    BY <2>1, <2>2 DEF StageMoves, ShownInv
  <2>4. ASSUME stage'[i] = "sync" PROVE i \in fetched'[i] \/ Several'
    <3>1. stage[i] = "portfolio" /\ Invested(i) /\ Position(i).agent \in agents
      BY <1>0, <2>1, <2>4 DEF StageMoves, ShownInv, Invests, Recorded, Position
    <3>2. PICK a \in agents : <<i, a>> \in invested
      BY <3>1 DEF Invested
    <3>3. CASE a = Position(i).agent
      BY <2>1, <2>4, <3>2, <3>3 DEF StageMoves
    <3>4. CASE a # Position(i).agent
      BY <2>2, <3>1, <3>2, <3>4 DEF Several
    <3>5. QED
      BY <3>3, <3>4
  <2>5. ASSUME NEW t \in Transfers, positions'[t].status = "SYNCED" PROVE Shown(t)'
    <3>1. CASE /\ positions[t].status = "SYNCED"
               /\ positions'[t].value = positions[t].value
      BY <2>2, <3>1 DEF ShownInv
    <3>2. CASE /\ t = transfer[i] /\ stage[i] = "sync"
               /\ positions'[t].value = fetched[i]
      <4>1. Invested(i) /\ (i \in fetched[i] \/ Several) /\ transfer'[i] = transfer[i]
        BY <2>1, <3>2 DEF ShownInv, OnlyCall
      <4>2. Invested(i)' /\ (i \in positions'[t].value \/ Several')
        BY <2>2, <3>2, <4>1
      <4>3. QED
        BY <3>2, <4>1, <4>2 DEF Shown
    <3>3. QED
      BY <1>0, <2>1, <2>5, <3>1, <3>2, RowEffect
  <2>6. \A j \in Calls \ {i} : stage'[j] = stage[j] /\ fetched'[j] = fetched[j]
    BY <2>1 DEF OnlyCall
  <2>7. QED
    BY <2>2, <2>3, <2>4, <2>5, <2>6 DEF ShownInv
<1>2. ASSUME UNCHANGED <<agents, invested, positions>>,
             \A j \in Calls : transfer[j] # Unknown => transfer'[j] = transfer[j],
             \A j \in Calls : \/ stage'[j] = stage[j] /\ fetched'[j] = fetched[j]
                              \/ stage'[j] \in {"client", "fail", "lost"}
                              \/ stage'[j] \in {"idle", "done"}
      PROVE  ShownInv'
  <2>1. /\ Several => Several'
        /\ \A j \in Calls : Invested(j) => Invested(j)'
        /\ \A t \in Transfers : Shown(t) => Shown(t)'
    BY <1>0, <1>2, ShownStays
  <2>2. QED
    BY <1>2, <2>1 DEF ShownInv
<1>3. ASSUME NEW i \in Calls, NEW t \in Transfers, start(i, t) PROVE ShownInv'
  BY <1>0, <1>2, <1>3 DEF start, TypeOK, At, To, Fail, gizaVars
<1>4. CASE initializeClient \/ crash \/ UNCHANGED vars
  BY <1>2, <1>4 DEF initializeClient, crash, vars, callVars, gizaVars
<1>5. QED
  BY <1>1, <1>3, <1>4 DEF Next

LEMMA FailedStep == GizaInv /\ FailedInv /\ [Next]_vars => FailedInv'
<1> SUFFICES ASSUME GizaInv, FailedInv, [Next]_vars PROVE FailedInv'
  OBVIOUS
<1>0. TypeOK
  BY DEF GizaInv
<1>1. ASSUME NEW i \in Calls, callStep(i) \/ gizaRefuses(i) \/ writeFails(i)
      PROVE  FailedInv'
  <2>1. OnlyCall(i) /\ StageMoves(i) /\ RowMoves(i)
    BY <1>0, <1>1, CallMoves
  <2>2. \A j \in Calls : Failed(j) => Failed(j)'
    BY <2>1 DEF OnlyCall, Failed
  <2>3. stage'[i] = "fail" => Failed(i)'
    BY <2>1, <2>2 DEF OnlyCall, StageMoves, FailedInv, Failed
  <2>4. ASSUME NEW t \in Transfers, positions'[t].status = "FAILED"
        PROVE  \E j \in Calls : transfer'[j] = t /\ Failed(j)'
    <3>1. CASE positions[t].status = "FAILED"
      BY <2>1, <2>2, <3>1 DEF FailedInv, OnlyCall
    <3>2. CASE t = transfer[i] /\ stage[i] = "fail"
      BY <2>1, <2>2, <3>2 DEF FailedInv, OnlyCall
    <3>3. QED
      BY <1>0, <2>1, <2>4, <3>1, <3>2, RowEffect
  <2>5. QED
    BY <2>1, <2>2, <2>3, <2>4 DEF FailedInv, OnlyCall
<1>2. ASSUME NEW i \in Calls, NEW t \in Transfers, start(i, t) PROVE FailedInv'
  <2>1. /\ UNCHANGED <<life, positions, rejectedIn>>
        /\ client' \in {client, "connecting"} /\ transfer[i] = Unknown
        /\ trouble \subseteq trouble' /\ startedIn'[i] = life
        /\ stage'[i] = "fail" => i \in trouble'
        /\ \A j \in Calls \ {i} : /\ stage'[j] = stage[j] /\ startedIn'[j] = startedIn[j]
                                  /\ transfer'[j] = transfer[j]
    BY <1>0, <1>2 DEF start, TypeOK, At, To, Fail
  <2>2. \A j \in Calls \ {i} : Failed(j) => Failed(j)'
    BY <2>1 DEF Failed
  <2>3. ASSUME NEW u \in Transfers, positions'[u].status = "FAILED"
        PROVE  \E j \in Calls : transfer'[j] = u /\ Failed(j)'
    <3>1. PICK j \in Calls : transfer[j] = u /\ Failed(j)
      BY <2>1, <2>3 DEF FailedInv
    <3>2. j # i
      BY <2>1, <3>1, GizaAssumption
    <3>3. QED
      BY <2>1, <2>2, <3>1, <3>2
  <2>4. QED
    BY <2>1, <2>2, <2>3 DEF FailedInv, Failed
<1>3. CASE initializeClient
  BY <1>0, <1>3 DEF initializeClient, callVars, FailedInv, Failed
<1>4. CASE crash
  BY <1>0, <1>4 DEF crash, historyVars, FailedInv, Failed
<1>5. CASE UNCHANGED vars
  BY <1>5 DEF vars, callVars, historyVars, FailedInv, Failed
<1>6. QED
  BY <1>1, <1>2, <1>3, <1>4, <1>5 DEF Next

\* A SYNCED position shows a mint of its own transfer, unless there are several agents.
THEOREM SyncedIsOwn == Spec => []SyncedShowsOwn
<1>1. ShownInv => SyncedShowsOwn
  BY DEF ShownInv, Shown, Several, SyncedShowsOwn
<1>2. QED
  BY GizaInit, GizaStep, ShownFailedInit, ShownStep, <1>1, PTL DEF Spec

\* Calls that share the client, the owner and its agent do not fail each other.
THEOREM FailuresAreOwn == Spec => []FailureExplained
<1>1. FailedInv => FailureExplained
  BY DEF FailedInv, Failed, FailureExplained
<1>2. QED
  BY GizaInit, GizaStep, ShownFailedInit, FailedStep, <1>1, PTL DEF Spec
=============================================================================
