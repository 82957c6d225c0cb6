---------------------------- MODULE GseSession -----------------------------
(***************************************************************************)
(* Sessions between gse-agent processes and gse-server: connecting,        *)
(* authenticating, heartbeats, the server's probe of each connection, the  *)
(* liveness scan, and the `agents.status` column of the ledger that all of *)
(* them write.                                                             *)
(*                                                                         *)
(* Source: crates/gse-server-core/src/server.rs (handle_conn, handle_auth, *)
(* handle_heartbeat, cleanup_connection, run_liveness), http.rs            *)
(* (create_agent, delete_agent), crates/gse-agent-core/src/lib.rs (run,    *)
(* connect_once, heartbeat_loop).                                          *)
(*                                                                         *)
(* Server handlers are tokio tasks: each stretch between two `.await`s is  *)
(* one action, and the tasks interleave freely.  What a handler read       *)
(* before an await is in its program counter (`rpc`, `srv`, `scan`).       *)
(***************************************************************************)
EXTENDS Naturals, FiniteSets, SessionRegistry

CONSTANTS
    ProbeThreshold,   \* session_probe_failures_before_close
    Faults            \* what the environment of the handlers may do

\* "crash": agent processes die; "drop": the network loses connections;
\* "silence": a whole timeout window passes without a message of an agent;
\* "misprobe": a probe of a live but busy connection times out; "reauth": the
\* agent's token is changed; "admin": agents are registered and deleted;
\* "restart": the server process dies and comes back; "slowcall": a job_exec
\* call outlives its timeout; "hangup": an HTTP client leaves before its answer.
FaultKinds == {"crash", "drop", "silence", "misprobe", "reauth", "admin",
               "restart", "slowcall", "hangup"}

ASSUME ProbeThresholdAssumption == ProbeThreshold \in Nat
ASSUME FaultsAssumption == Faults \subseteq FaultKinds

VARIABLES
    phase,      \* agent process: "down", "idle", "auth", "up", "exited"
    current,    \* the connection the agent's connect_once is using
    link,       \* transport of each connection: "unused", "up", "down"
    authed,     \* server: the connection's `authed` is Some(agent id)
    rpc,        \* server: pc of the connection's auth or heartbeat handler
    srv,        \* server: pc of handle_conn after the handlers are registered
    fails,      \* server: consecutive_failures of the probe loop
    reg,        \* server: the SessionRegistry
    status,     \* ledger: agents.status, "deleted" when there is no row
    deleting,   \* server: delete_agent removed the row, not yet the session
    scan,       \* server: pc of run_liveness
    todo,       \* server: Offline sessions of its snapshot still to handle
    losing      \* server: the one whose row it has just marked offline

agentVars  == <<phase, current>>
serverVars == <<authed, rpc, srv, fails, reg, deleting, scan, todo, losing>>
sessionVars == <<agentVars, link, serverVars, status>>

Phases    == {"down", "idle", "auth", "up", "exited"}
Links     == {"unused", "up", "down"}
RpcSteps  == {"idle", "verify", "insert", "record", "markOnline",
              "lookup", "touch", "rebuild", "markRebuilt"}
SrvSteps  == {"none", "probing", "removing", "marking", "ended"}
Statuses  == {"unknown", "online", "offline", "deleted"}
ScanSteps == {"sleep", "list", "rows"}

SessionTypeOK ==
    /\ phase    \in [Agents -> Phases]
    /\ current  \in [Agents -> Conns \cup {NoConn}]
    /\ link     \in [Conns -> Links]
    /\ authed   \in [Conns -> BOOLEAN]
    /\ rpc      \in [Conns -> RpcSteps]
    /\ srv      \in [Conns -> SrvSteps]
    /\ fails    \in [Conns -> Nat]
    /\ reg      \in Registries
    /\ status   \in [Agents -> Statuses]
    /\ deleting \in [Agents -> BOOLEAN]
    /\ scan     \in ScanSteps
    /\ todo     \in SUBSET Agents
    /\ losing   \in SUBSET Agents

SessionInit ==
    /\ phase    = [a \in Agents |-> "idle"]
    /\ current  = [a \in Agents |-> NoConn]
    /\ link     = [c \in Conns |-> "unused"]
    /\ authed   = [c \in Conns |-> FALSE]
    /\ rpc      = [c \in Conns |-> "idle"]
    /\ srv      = [c \in Conns |-> "none"]
    /\ fails    = [c \in Conns |-> 0]
    /\ reg      = [a \in Agents |-> NoSession]
    /\ status   = [a \in Agents |-> "unknown"]
    /\ deleting = [a \in Agents |-> FALSE]
    /\ scan     = "sleep"
    /\ todo     = {}
    /\ losing   = {}

-----------------------------------------------------------------------------
(* Ledger statements on `agents`: an UPDATE of a missing row is a no-op.   *)

SetStatus(st, a, value) ==
    IF st[a] = "deleted" THEN st ELSE [st EXCEPT ![a] = value]

-----------------------------------------------------------------------------
(* The agent process                                                       *)

\* connect_once: dial, register the handlers, send `auth`.
Dial(a) ==
    \E c \in Conns :
        /\ phase[a] = "idle" /\ Dialer[c] = a /\ link[c] = "unused"
        /\ phase'   = [phase EXCEPT ![a] = "auth"]
        /\ current' = [current EXCEPT ![a] = c]
        /\ link'    = [link EXCEPT ![c] = "up"]
        /\ rpc'     = [rpc EXCEPT ![c] = "verify"]
        /\ srv'     = [srv EXCEPT ![c] = "probing"]
        /\ UNCHANGED <<authed, fails, reg, status, deleting, scan, todo, losing>>

\* authenticate() got an `ok` reply; heartbeat_loop starts.
AuthReplied(a) ==
    /\ phase[a] = "auth"
    /\ link[current[a]] = "up" /\ authed[current[a]] /\ rpc[current[a]] = "idle"
    /\ phase' = [phase EXCEPT ![a] = "up"]
    /\ UNCHANGED <<current, link, serverVars, status>>

\* heartbeat_loop sends the next heartbeat once the last one was answered.
SendHeartbeat(a) ==
    /\ phase[a] = "up" /\ link[current[a]] = "up" /\ rpc[current[a]] = "idle"
    /\ rpc' = [rpc EXCEPT ![current[a]] = "lookup"]
    /\ UNCHANGED <<agentVars, link, authed, srv, fails, reg, status, deleting,
                   scan, todo, losing>>

\* A call on a dead connection fails: ConnError, back off, dial again.
NoticeDeadLink(a) ==
    /\ phase[a] \in {"auth", "up"} /\ link[current[a]] = "down"
    /\ phase'   = [phase EXCEPT ![a] = "idle"]
    /\ current' = [current EXCEPT ![a] = NoConn]
    /\ UNCHANGED <<link, serverVars, status>>

\* Token changed: heartbeat_loop returns Ok and run() dials at once.  The old
\* End is still held by its own job_exec handler, so the link may stay up.
Reauth(a) ==
    /\ "reauth" \in Faults
    /\ phase[a] = "up" /\ rpc[current[a]] = "idle"
    /\ phase'   = [phase EXCEPT ![a] = "idle"]
    /\ current' = [current EXCEPT ![a] = NoConn]
    /\ UNCHANGED <<link, serverVars, status>>

LinksDown(a) ==
    [c \in Conns |-> IF Dialer[c] = a /\ link[c] = "up" THEN "down" ELSE link[c]]

\* The process is killed, or the host goes away.
AgentCrash(a) ==
    /\ "crash" \in Faults
    /\ phase[a] \in {"idle", "auth", "up"}
    /\ phase'   = [phase EXCEPT ![a] = "down"]
    /\ current' = [current EXCEPT ![a] = NoConn]
    /\ link'    = LinksDown(a)
    /\ UNCHANGED <<serverVars, status>>

AgentStart(a) ==
    /\ phase[a] \in {"down", "exited"}
    /\ phase' = [phase EXCEPT ![a] = "idle"]
    /\ UNCHANGED <<current, link, serverVars, status>>

\* The network drops a connection; neither side knows yet.
LinkDrop(c) ==
    /\ "drop" \in Faults
    /\ link[c] = "up"
    /\ link' = [link EXCEPT ![c] = "down"]
    /\ UNCHANGED <<agentVars, serverVars, status>>

-----------------------------------------------------------------------------
(* handle_auth                                                             *)

\* verify_agent_token.  Credentials are taken as right while the agent has a
\* row; a refused agent process exits (AuthFailed).
AuthVerify(c) ==
    /\ rpc[c] = "verify"
    /\ IF status[Dialer[c]] # "deleted"
         THEN /\ rpc' = [rpc EXCEPT ![c] = "insert"]
              /\ UNCHANGED <<agentVars, link>>
         ELSE /\ rpc' = [rpc EXCEPT ![c] = "idle"]
              /\ IF current[Dialer[c]] = c /\ link[c] = "up"
                   THEN /\ phase' = [phase EXCEPT ![Dialer[c]] = "exited"]
                        /\ current' = [current EXCEPT ![Dialer[c]] = NoConn]
                        /\ link' = LinksDown(Dialer[c])
                   ELSE UNCHANGED <<agentVars, link>>
    /\ UNCHANGED <<authed, srv, fails, reg, status, deleting, scan, todo, losing>>

\* registry.insert replaces whatever session there was.
AuthInsert(c) ==
    /\ rpc[c] = "insert"
    /\ reg' = Insert(reg, Dialer[c], NewSession(c))
    /\ rpc' = [rpc EXCEPT ![c] = "record"]
    /\ UNCHANGED <<agentVars, link, authed, srv, fails, status, deleting, scan,
                   todo, losing>>

AuthRecord_Forgets(c) ==
    /\ rpc[c] = "record"
    /\ rpc' = [rpc EXCEPT ![c] = "markOnline"]
    /\ UNCHANGED <<agentVars, link, authed, srv, fails, reg, status, deleting,
                   scan, todo, losing>>

\* `authed` is set: another thread's probe loop may look at it before that.
AuthRecord(c) ==
    /\ rpc[c] = "record"
    /\ authed' = [authed EXCEPT ![c] = TRUE]
    /\ rpc'    = [rpc EXCEPT ![c] = "markOnline"]
    /\ UNCHANGED <<agentVars, link, srv, fails, reg, status, deleting, scan,
                   todo, losing>>

\* ledger.mark_online, after an auth or after a rebuild.
MarkOnline(c) ==
    /\ rpc[c] \in {"markOnline", "markRebuilt"}
    /\ status' = SetStatus(status, Dialer[c], "online")
    /\ rpc'    = [rpc EXCEPT ![c] = "idle"]
    /\ UNCHANGED <<agentVars, link, authed, srv, fails, reg, deleting, scan,
                   todo, losing>>

-----------------------------------------------------------------------------
(* handle_heartbeat                                                        *)

HeartbeatLookup_NeverRebuild(c) ==
    /\ rpc[c] = "lookup"
    /\ rpc' = [rpc EXCEPT ![c] =
                  IF reg[Dialer[c]].state = "closed" THEN "idle" ELSE "touch"]
    /\ UNCHANGED <<agentVars, link, authed, srv, fails, reg, status, deleting,
                   scan, todo, losing>>

\* registry.get decides between rebuilding, ignoring and touching.
HeartbeatTurn(c) ==
    IF ~ authed[c] \/ reg[Dialer[c]].state = "closed" THEN "idle"
    ELSE IF reg[Dialer[c]] = NoSession THEN "rebuild"
    ELSE "touch"

HeartbeatLookup(c) ==
    /\ rpc[c] = "lookup"
    /\ rpc' = [rpc EXCEPT ![c] = HeartbeatTurn(c)]
    /\ UNCHANGED <<agentVars, link, authed, srv, fails, reg, status, deleting,
                   scan, todo, losing>>

\* registry.insert, whatever the registry holds by now.
HeartbeatRebuild(c) ==
    /\ rpc[c] = "rebuild"
    /\ reg' = Insert(reg, Dialer[c], NewSession(c))
    /\ rpc' = [rpc EXCEPT ![c] = "markRebuilt"]
    /\ UNCHANGED <<agentVars, link, authed, srv, fails, status, deleting, scan,
                   todo, losing>>

\* registry.touch: the session may be another connection's.
HeartbeatTouch(c) ==
    /\ rpc[c] = "touch"
    /\ reg' = Touch(reg, Dialer[c])
    /\ rpc' = [rpc EXCEPT ![c] = "idle"]
    /\ UNCHANGED <<agentVars, link, authed, srv, fails, status, deleting, scan,
                   todo, losing>>

-----------------------------------------------------------------------------
(* The probe loop of handle_conn and cleanup_connection                    *)

ProbeOk(c) ==
    /\ srv[c] = "probing" /\ link[c] = "up" /\ fails[c] > 0
    /\ fails' = [fails EXCEPT ![c] = 0]
    /\ UNCHANGED <<agentVars, link, authed, rpc, srv, reg, status, deleting,
                   scan, todo, losing>>

\* probe_should_close
ProbeShouldClose(n) ==
    n >= (IF ProbeThreshold = 0 THEN 1 ELSE ProbeThreshold)

\* A probe on a dead connection errs; on a live one it may time out.
ProbeFail(c) ==
    /\ srv[c] = "probing" /\ (link[c] = "down" \/ "misprobe" \in Faults)
    /\ fails' = [fails EXCEPT ![c] = @ + 1]
    /\ srv'   = [srv EXCEPT ![c] =
                    IF ~ ProbeShouldClose(fails[c] + 1) THEN "probing"
                    ELSE IF authed[c] THEN "removing"
                    ELSE "ended"]
    /\ UNCHANGED <<agentVars, link, authed, rpc, reg, status, deleting, scan,
                   todo, losing>>

\* remove_if_client; only a session really removed is marked offline.
CleanupRemove(c) ==
    /\ srv[c] = "removing"
    /\ reg' = RemoveIfClient(reg, Dialer[c], c)
    /\ srv' = [srv EXCEPT ![c] =
                  IF reg[Dialer[c]].client = c THEN "marking" ELSE "ended"]
    /\ UNCHANGED <<agentVars, link, authed, rpc, fails, status, deleting, scan,
                   todo, losing>>

CleanupMarkOffline(c) ==
    /\ srv[c] = "marking"
    /\ status' = SetStatus(status, Dialer[c], "offline")
    /\ srv'    = [srv EXCEPT ![c] = "ended"]
    /\ UNCHANGED <<agentVars, link, authed, rpc, fails, reg, deleting, scan,
                   todo, losing>>

-----------------------------------------------------------------------------
(* run_liveness                                                            *)

\* The timeout window elapses without a message touching the session.
WindowElapses(a) ==
    /\ "silence" \in Faults /\ reg[a].fresh
    /\ reg' = [reg EXCEPT ![a].fresh = FALSE]
    /\ UNCHANGED <<agentVars, link, authed, rpc, srv, fails, status, deleting,
                   scan, todo, losing>>

ScanAdvance_Nothing ==
    /\ scan = "sleep"
    /\ scan' = "list"
    /\ UNCHANGED <<agentVars, link, authed, rpc, srv, fails, reg, status,
                   deleting, todo, losing>>

ScanAdvance ==
    /\ scan = "sleep"
    /\ reg'  = AdvanceAll(reg)
    /\ scan' = "list"
    /\ UNCHANGED <<agentVars, link, authed, rpc, srv, fails, status, deleting,
                   todo, losing>>

\* registry.list(): a snapshot; the loop below acts on it, not on `reg`.
ScanList ==
    /\ scan = "list"
    /\ todo' = {a \in Agents : reg[a].state = "offline"}
    /\ scan' = IF todo' = {} THEN "sleep" ELSE "rows"
    /\ UNCHANGED <<agentVars, link, authed, rpc, srv, fails, reg, status,
                   deleting, losing>>

ScanMarkOffline(a) ==
    /\ scan = "rows" /\ a \in todo /\ losing = {}
    /\ status' = SetStatus(status, a, "offline")
    /\ losing' = {a}
    /\ UNCHANGED <<agentVars, link, authed, rpc, srv, fails, reg, deleting,
                   scan, todo>>

\* mark_lost_by_agent on the same session: its effect on jobs is GseJob's.
ScanMarkLost(a) ==
    /\ scan = "rows" /\ losing = {a}
    /\ losing' = {}
    /\ todo'   = todo \ {a}
    /\ scan'   = IF todo' = {} THEN "sleep" ELSE "rows"
    /\ UNCHANGED <<agentVars, link, authed, rpc, srv, fails, reg, status,
                   deleting>>

-----------------------------------------------------------------------------
(* Administration and server restart                                       *)

\* create_agent: upsert_agent sets the status column back to "unknown".
RegisterAgent(a) ==
    /\ "admin" \in Faults
    /\ status[a] # "unknown" /\ ~ deleting[a]
    /\ status' = [status EXCEPT ![a] = "unknown"]
    /\ UNCHANGED <<agentVars, link, serverVars>>

\* delete_agent, first await: remove_agent (and the agent's spec rows).
DeleteAgent(a) ==
    /\ "admin" \in Faults
    /\ status[a] # "deleted" /\ ~ deleting[a]
    /\ status'   = [status EXCEPT ![a] = "deleted"]
    /\ deleting' = [deleting EXCEPT ![a] = TRUE]
    /\ UNCHANGED <<agentVars, link, authed, rpc, srv, fails, reg, scan, todo,
                   losing>>

\* delete_agent, last: registry.remove, and close the session it found.
DeleteSession(a) ==
    /\ deleting[a]
    /\ deleting' = [deleting EXCEPT ![a] = FALSE]
    /\ reg'      = Remove(reg, a)
    /\ link'     = [c \in Conns |->
                       IF c = reg[a].client /\ link[c] = "up" THEN "down" ELSE link[c]]
    /\ UNCHANGED <<agentVars, authed, rpc, srv, fails, status, scan, todo, losing>>

\* The server process dies and comes back: every task and the registry are
\* gone, the ledger stays.
ServerRestart ==
    /\ "restart" \in Faults
    /\ \E c \in Conns : srv[c] # "none"
    /\ link'     = [c \in Conns |-> IF link[c] = "up" THEN "down" ELSE link[c]]
    /\ authed'   = [c \in Conns |-> FALSE]
    /\ rpc'      = [c \in Conns |-> "idle"]
    /\ srv'      = [c \in Conns |-> IF srv[c] = "none" THEN "none" ELSE "ended"]
    /\ fails'    = [c \in Conns |-> 0]
    /\ reg'      = [a \in Agents |-> NoSession]
    /\ deleting' = [a \in Agents |-> FALSE]
    /\ scan'     = "sleep"
    /\ todo'     = {}
    /\ losing'   = {}
    /\ UNCHANGED <<agentVars, status>>

-----------------------------------------------------------------------------
(* Steps that concern sessions only, and the whole session layer           *)

AgentStep(a) ==
    \/ Dial(a) \/ AuthReplied(a) \/ SendHeartbeat(a)
    \/ NoticeDeadLink(a) \/ Reauth(a) \/ AgentStart(a)

HandlerStep(c) ==
    \/ AuthInsert(c) \/ AuthRecord(c) \/ MarkOnline(c)
    \/ HeartbeatLookup(c) \/ HeartbeatRebuild(c) \/ HeartbeatTouch(c)

ConnStep(c) ==
    \/ ProbeOk(c) \/ ProbeFail(c) \/ CleanupRemove(c) \/ CleanupMarkOffline(c)

AdminStep(a) == RegisterAgent(a) \/ DeleteAgent(a) \/ DeleteSession(a)

\* Everything but the steps GseJob extends with an effect on jobs.
SessionOnlyStep ==
    \/ \E a \in Agents : AgentStep(a) \/ WindowElapses(a) \/ AdminStep(a)
    \/ \E c \in Conns : LinkDrop(c) \/ HandlerStep(c) \/ ConnStep(c)
    \/ ScanAdvance \/ ScanList
    \/ \E a \in Agents : ScanMarkOffline(a)

SessionNext ==
    \/ SessionOnlyStep
    \/ \E a \in Agents : AgentCrash(a) \/ ScanMarkLost(a)
    \/ \E c \in Conns : AuthVerify(c)
    \/ ServerRestart

\* Time passes: an agent that says nothing for a window is noticed.
SilenceNoticed(a) ==
    /\ WindowElapses(a)
    /\ \A c \in Conns : Dialer[c] = a => rpc[c] = "idle"
    /\ phase[a] # "up"

\* tokio runs every ready task, timers fire, an RPC on a dead connection
\* errs, and a live agent keeps heartbeating.  Crashes, lost links, false
\* probe timeouts, admin calls and restarts need not happen.
SessionFairness ==
    /\ \A a \in Agents :
        /\ WF_sessionVars(Dial(a)) /\ WF_sessionVars(AuthReplied(a))
        /\ WF_sessionVars(SendHeartbeat(a)) /\ WF_sessionVars(NoticeDeadLink(a))
        /\ WF_sessionVars(SilenceNoticed(a)) /\ WF_sessionVars(DeleteSession(a))
        /\ WF_sessionVars(ScanMarkOffline(a)) /\ WF_sessionVars(ScanMarkLost(a))
    /\ \A c \in Conns :
        /\ WF_sessionVars(AuthVerify(c)) /\ WF_sessionVars(HandlerStep(c))
        /\ WF_sessionVars(CleanupRemove(c) \/ CleanupMarkOffline(c))
        /\ WF_sessionVars(ProbeFail(c) /\ link[c] = "down")
    /\ WF_sessionVars(ScanAdvance) /\ WF_sessionVars(ScanList)

SessionSpec == SessionInit /\ [][SessionNext]_sessionVars
SessionFairSpec == SessionSpec /\ SessionFairness

-----------------------------------------------------------------------------
(* Safety                                                                  *)

\* A session is only ever created for a connection that authenticated, and
\* under the id of the agent that dialled it (handle_auth, and the `authed`
\* check of handle_heartbeat); handle_auth is about to set `authed` or has.
SessionAuthenticated ==
    \A a \in Agents :
        LET c == reg[a].client IN
        reg[a] # NoSession => Dialer[c] = a /\ (authed[c] \/ rpc[c] = "record")

EndsForCause(a) ==
    \/ srv[reg[a].client] = "removing"
    \/ deleting[a]
    \/ srv'[reg[a].client] = "ended" /\ ~ authed'[reg[a].client]

\* A session disappears from the registry only because its own connection's
\* probe gave it up, because an administrator deleted the agent, or with the
\* server process: the cleanup of an old connection never takes the session
\* a reconnected agent has built meanwhile (remove_if_client).
SessionEndsForCause ==
    [][\A a \in Agents :
        (reg[a] # NoSession /\ reg'[a] = NoSession) => EndsForCause(a)]_sessionVars

-----------------------------------------------------------------------------
(* Liveness                                                                *)

\* However often the probe misjudges a busy connection and tears its session
\* down, an agent that stays connected does not stay without a session: its
\* heartbeats rebuild one (handle_heartbeat, the `None` branch).
ConnectedAgentRegainsSession ==
    \A a \in Agents : []<>(phase[a] # "up" \/ reg[a] # NoSession)

\* An agent that is gone for good does not stay Online: the probe removes its
\* session, or the liveness scan pushes it to Offline.
DeadAgentLeavesOnline ==
    \A a \in Agents : <>[](phase[a] = "down") => <>[](~ IsOnline(reg, a))

-----------------------------------------------------------------------------
(* What the documents say and the code does not do                         *)

\* gse-server-agent/design.md, session state machine: a heartbeat takes a
\* Checking session back to Online.  So an agent that stays connected is not
\* kept out of Online for ever.
ConnectedAgentReturnsOnline ==
    \A a \in Agents :
        <>[](phase[a] = "up" /\ link[current[a]] = "up") => []<>IsOnline(reg, a)

\* server.rs, cleanup_connection: the cleanup of an old connection must not
\* leave an agent that is online marked offline in the ledger.
OnlineAgentNotMarkedOffline ==
    \A a \in Agents :
        <>[](phase[a] = "up" /\ IsOnline(reg, a)) => []<>(status[a] # "offline")

\* http.rs, delete_agent: after the cascade the node cannot be operated on
\* any more, so a deleted agent has no Online session.
DeletedAgentHasNoSession ==
    \A a \in Agents :
        <>[](status[a] = "deleted") => <>[](~ IsOnline(reg, a))

=============================================================================
