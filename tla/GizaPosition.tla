---------------------------- MODULE GizaPosition ----------------------------
(***************************************************************************)
(* What happens to a transfer after its mint: initializeGizaPosition       *)
(* (giza/giza-agent, giza-adapter and giza-portfolio services), its rows   *)
(* in AgentPosition and the agents at Giza.                                *)
(*                                                                         *)
(* Every call is made for one owner, the signer that all mints go to, and  *)
(* several may run at once; a transfer with two workflows has two calls.   *)
(* Giza's service is external: it may come to know several agents of an    *)
(* owner, and answer createAgent with the one it has or with a new one.    *)
(*                                                                         *)
(* An amount is represented by the call it belongs to: a principal is the  *)
(* call whose mint it is, a portfolio value the calls whose USDC it sums.  *)
(***************************************************************************)
EXTENDS Naturals

CONSTANTS
    Calls,       \* calls of initializeGizaPosition
    Transfers,
    Agents,      \* wallets Giza may give to agents of the owner
    Unknown,     \* no transfer yet, the agent 'unknown', the principal '0'
    Faults,      \* subset of {"network", "giza", "db", "crash"}
    MaxLives     \* bound on the lives of the process

ASSUME GizaAssumption ==
    /\ Unknown \notin Transfers \union Agents \union Calls
    /\ MaxLives \in Nat \ {0}

VARIABLES
    client,     \* the cached promise of the SDK client
    life,       \* which life of the process this is
    stage,      \* where each call is
    transfer,   \* the transfer each call is for
    agent,      \* the agent each call obtained
    fetched,    \* the portfolio each call has read and not yet stored
    positions,  \* the AgentPosition table
    agents,     \* agents that exist at Giza
    invested,   \* activations that took effect: <<call, agent>>
    trouble,    \* history: calls one of whose own requests or writes failed
    unsaved,    \* history: calls whose failure could not be recorded
    rejectedIn, \* history: lives in which the client's promise was rejected
    startedIn   \* history: life in which each call began, 0 before

callVars == <<stage, transfer, agent, fetched>>
gizaVars == <<agents, invested>>
historyVars == <<trouble, unsaved, rejectedIn, startedIn>>
vars == <<client, life, callVars, positions, gizaVars, historyVars>>

NoPosition ==
    [status |-> "NONE", agent |-> Unknown, principal |-> Unknown, value |-> {}]

Init ==
    /\ client = "none"
    /\ life = 1
    /\ stage = [i \in Calls |-> "idle"]
    /\ transfer = [i \in Calls |-> Unknown]
    /\ agent = [i \in Calls |-> Unknown]
    /\ fetched = [i \in Calls |-> {}]
    /\ positions = [t \in Transfers |-> NoPosition]
    /\ agents = {}
    /\ invested = {}
    /\ trouble = {} /\ unsaved = {} /\ rejectedIn = {}
    /\ startedIn = [i \in Calls |-> 0]

At(i, s) == stage[i] = s
To(i, s) == stage' = [stage EXCEPT ![i] = s]
Fail(i) == To(i, "fail") /\ trouble' = trouble \union {i}
Position(i) == positions[transfer[i]]

-----------------------------------------------------------------------------
(* The SDK client: one promise for all calls, kept whatever becomes of it. *)

start(i, t) ==
    /\ At(i, "idle")
    /\ transfer' = [transfer EXCEPT ![i] = t]
    /\ startedIn' = [startedIn EXCEPT ![i] = life]
    /\ \/ /\ To(i, "client")
          /\ client' = IF client = "none" THEN "connecting" ELSE client
          /\ UNCHANGED trouble
       \/ "db" \in Faults /\ Fail(i) /\ UNCHANGED client   \* the read fails
    /\ UNCHANGED <<life, agent, fetched, positions, gizaVars, unsaved, rejectedIn>>

initializeClient ==
    /\ client = "connecting"
    /\ \/ client' = "ready" /\ UNCHANGED rejectedIn
       \/ /\ "network" \in Faults
          /\ client' = "rejected"
          /\ rejectedIn' = rejectedIn \union {life}
    /\ UNCHANGED <<life, callVars, positions, gizaVars, trouble, unsaved, startedIn>>

\* Wrong variant: a client that is still connecting counts as unavailable.
getClientImpatient(i) ==
    /\ At(i, "client")
    /\ To(i, IF client = "ready" THEN "agent" ELSE "fail")
    /\ UNCHANGED <<client, life, transfer, agent, fetched, positions, gizaVars, historyVars>>

getClient(i) ==
    /\ At(i, "client")
    /\ client \in {"ready", "rejected"}
    /\ To(i, IF client = "ready" THEN "agent" ELSE "fail")
    /\ UNCHANGED <<client, life, transfer, agent, fetched, positions, gizaVars, historyVars>>

-----------------------------------------------------------------------------
(* initializeGizaPosition, request by request.                             *)

Obtain(i, a, next) == agent' = [agent EXCEPT ![i] = a] /\ To(i, next)

\* Wrong variant: the position of a reused agent is not saved.
fetchAgentUnsaved(i) ==
    /\ At(i, "agent")
    /\ \/ \E a \in agents : Obtain(i, a, "activate")
       \/ agents = {} /\ To(i, "create") /\ UNCHANGED agent
    /\ UNCHANGED <<client, life, transfer, fetched, positions, gizaVars, historyVars>>

\* getAgent: any error, not only "no such agent", leads to createAgent.
fetchAgent(i) ==
    /\ At(i, "agent")
    /\ \/ \E a \in agents : Obtain(i, a, "save")
       \/ (agents = {} \/ "giza" \in Faults) /\ To(i, "create") /\ UNCHANGED agent
    /\ UNCHANGED <<client, life, transfer, fetched, positions, gizaVars, historyVars>>

createAgent(i) ==
    /\ At(i, "create")
    /\ \E a \in Agents : agents' = agents \union {a} /\ Obtain(i, a, "save")
    /\ UNCHANGED <<client, life, transfer, fetched, positions, invested, historyVars>>

\* Wrong variant: the owner's address is stored before there is an agent.
SavedWithoutAgent(i) ==
    [positions EXCEPT ![transfer[i]].status = "ACTIVATING",
                      ![transfer[i]].agent = Unknown,
                      ![transfer[i]].principal = i]

\* The upsert's update leaves the portfolio value of an earlier call alone.
Saved(i) ==
    [positions EXCEPT ![transfer[i]].status = "ACTIVATING",
                      ![transfer[i]].agent = agent[i],
                      ![transfer[i]].principal = i]

savePosition(i) ==
    /\ At(i, "save")
    /\ positions' = Saved(i)
    /\ To(i, "activate")
    /\ UNCHANGED <<client, life, transfer, agent, fetched, gizaVars, historyVars>>

\* Wrong variant: the activation is not awaited and gets lost.
activateAgentUnawaited(i) ==
    /\ At(i, "activate")
    /\ To(i, "active")
    /\ UNCHANGED <<client, life, transfer, agent, fetched, positions, gizaVars, historyVars>>

\* The request names the owner, not the agent: if the owner has several, Giza
\* decides which of them it activates.
activateAgent(i) ==
    /\ At(i, "activate")
    /\ \E a \in agents : invested' = invested \union {<<i, a>>}
    /\ To(i, "active")
    /\ UNCHANGED <<client, life, transfer, agent, fetched, positions, agents, historyVars>>

Activated(i) == [positions EXCEPT ![transfer[i]].status = "ACTIVE"]

markActive(i) ==
    /\ At(i, "active")
    /\ positions' = Activated(i)
    /\ To(i, "portfolio")
    /\ UNCHANGED <<client, life, transfer, agent, fetched, gizaVars, historyVars>>

\* syncPortfolioForTransfer: the portfolio of the agent the row names now, ...
fetchPortfolio(i) ==
    /\ At(i, "portfolio")
    /\ fetched' = [fetched EXCEPT
           ![i] = { j \in Calls : <<j, Position(i).agent>> \in invested }]
    /\ To(i, "sync")
    /\ UNCHANGED <<client, life, transfer, agent, positions, gizaVars, historyVars>>

Synced(i) == [positions EXCEPT ![transfer[i]].status = "SYNCED",
                               ![transfer[i]].value = fetched[i]]

\* ... stored one request later.
syncPortfolio(i) ==
    /\ At(i, "sync")
    /\ positions' = Synced(i)
    /\ To(i, "done")
    /\ UNCHANGED <<client, life, transfer, agent, fetched, gizaVars, historyVars>>

-----------------------------------------------------------------------------
(* Failures.  A request or a write that fails may have taken effect.       *)

gizaRefuses(i) ==
    /\ "giza" \in Faults
    /\ \/ At(i, "create") /\ UNCHANGED invested
          /\ (UNCHANGED agents \/ \E a \in Agents : agents' = agents \union {a})
       \/ At(i, "activate") /\ UNCHANGED agents
          /\ \/ UNCHANGED invested
             \/ \E a \in agents : invested' = invested \union {<<i, a>>}
       \/ At(i, "portfolio") /\ UNCHANGED gizaVars   \* or the row cannot be read
    /\ Fail(i)
    /\ UNCHANGED <<client, life, transfer, agent, fetched, positions,
                   unsaved, rejectedIn, startedIn>>

writeFails(i) ==
    /\ "db" \in Faults
    /\ \/ At(i, "save") /\ positions' \in {positions, Saved(i)}
       \/ At(i, "active") /\ positions' \in {positions, Activated(i)}
       \/ At(i, "sync") /\ positions' \in {positions, Synced(i)}
    /\ Fail(i)
    /\ UNCHANGED <<client, life, transfer, agent, fetched, gizaVars,
                   unsaved, rejectedIn, startedIn>>

\* The update leaves agent, principal and value as they are; the row created
\* for a call that got no further than the client or the agent has none.
MarkedFailed(i) == [positions EXCEPT ![transfer[i]].status = "FAILED"]

\* Wrong variant: the failure is only logged.
logFailedInitialization(i) ==
    /\ At(i, "fail")
    /\ To(i, "done")
    /\ UNCHANGED <<client, life, transfer, agent, fetched, positions, gizaVars, historyVars>>

markFailedInitialization(i) ==
    /\ At(i, "fail")
    /\ To(i, "done")
    /\ \/ positions' = MarkedFailed(i) /\ UNCHANGED unsaved
       \/ "db" \in Faults /\ UNCHANGED positions /\ unsaved' = unsaved \union {i}
    /\ UNCHANGED <<client, life, transfer, agent, fetched, gizaVars,
                   trouble, rejectedIn, startedIn>>

crash ==
    /\ "crash" \in Faults /\ life < MaxLives
    /\ life' = life + 1
    /\ client' = "none"
    /\ stage' = [i \in Calls |-> IF stage[i] \in {"idle", "done"} THEN stage[i]
                                                                  ELSE "lost"]
    /\ agent' = [i \in Calls |-> Unknown]
    /\ fetched' = [i \in Calls |-> {}]
    /\ UNCHANGED <<transfer, positions, gizaVars, historyVars>>

-----------------------------------------------------------------------------
callStep(i) ==
    \/ getClient(i) \/ fetchAgent(i) \/ createAgent(i) \/ savePosition(i)
    \/ activateAgent(i) \/ markActive(i) \/ fetchPortfolio(i) \/ syncPortfolio(i)
    \/ markFailedInitialization(i)

Next ==
    \/ \E i \in Calls, t \in Transfers : start(i, t)
    \/ initializeClient
    \/ \E i \in Calls : callStep(i)
    \/ \E i \in Calls : gizaRefuses(i) \/ writeFails(i)
    \/ crash

Spec == Init /\ [][Next]_vars

\* Requests and writes end, one way or the other.
FairSpec ==
    /\ Spec
    /\ WF_vars(initializeClient)
    /\ \A i \in Calls : WF_vars(callStep(i))

-----------------------------------------------------------------------------
Stages == {"idle", "client", "agent", "create", "save", "activate", "active",
           "portfolio", "sync", "fail", "done", "lost"}

PositionRow ==
    [ status    : {"NONE", "ACTIVATING", "ACTIVE", "SYNCED", "FAILED"},
      agent     : Agents \union {Unknown},
      principal : Calls \union {Unknown},
      value     : SUBSET Calls ]

TypeOK ==
    /\ client \in {"none", "connecting", "ready", "rejected"}
    /\ life \in 1 .. MaxLives
    /\ stage \in [Calls -> Stages]
    /\ transfer \in [Calls -> Transfers \union {Unknown}]
    /\ \A i \in Calls : At(i, "idle") <=> transfer[i] = Unknown
    /\ agent \in [Calls -> Agents \union {Unknown}]
    /\ fetched \in [Calls -> SUBSET Calls]
    /\ positions \in [Transfers -> PositionRow]
    /\ \A t \in Transfers : positions[t].status \in {"ACTIVATING", "ACTIVE", "SYNCED"} =>
           positions[t].agent # Unknown
    /\ agents \subseteq Agents
    /\ invested \subseteq Calls \X agents
    /\ trouble \subseteq Calls /\ unsaved \subseteq Calls
    /\ rejectedIn \subseteq 1 .. MaxLives
    /\ startedIn \in [Calls -> 0 .. MaxLives]

Invested(i) == \E a \in agents : <<i, a>> \in invested

\* USDC that went into an agent is always on record: the position, even one that
\* is FAILED or was left behind by a crash, names an agent and the principal of a
\* call for this transfer.
InvestedIsRecorded ==
    \A i \in Calls : Invested(i) =>
        /\ Position(i).status # "NONE"
        /\ Position(i).agent \in agents
        /\ Position(i).principal \in { j \in Calls : transfer[j] = transfer[i] }

\* A SYNCED position has USDC in an agent, and its portfolio value contains a
\* mint of this transfer, unless the owner came to have several agents.
SyncedShowsOwn ==
    \A t \in Transfers : positions[t].status = "SYNCED" =>
        \E i \in Calls :
            /\ transfer[i] = t /\ Invested(i)
            /\ i \in positions[t].value \/ \E a, b \in agents : a # b

\* A position is only FAILED if a request or a write of a call for it failed, or
\* if the SDK client could not be set up in that life of the process (which then
\* fails every position until the next): the calls that share the client, the
\* owner and its agent do not fail each other.
FailureExplained ==
    \A t \in Transfers : positions[t].status = "FAILED" =>
        \E i \in Calls :
            transfer[i] = t /\ (i \in trouble \/ startedIn[i] \in rejectedIn)

Settled(t) ==
    \/ positions[t].status \in {"SYNCED", "FAILED"}
    \/ \E j \in Calls : transfer[j] = t /\ (At(j, "lost") \/ j \in unsaved)

\* Unless the process ends or the failure itself cannot be recorded, a call that
\* began leads to a position that is SYNCED or FAILED, also when two calls write
\* to the same position.
EveryCallSettles ==
    \A i \in Calls, t \in Transfers : transfer[i] = t ~> Settled(t)
=============================================================================
