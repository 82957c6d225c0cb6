--------------------------- MODULE GseJobProofs ----------------------------
(***************************************************************************)
(* For every set of agents, connections and jobs, every limit, every probe *)
(* threshold and every environment: the session layer is type correct, and *)
(* a session belongs to an authenticated connection of its own agent; the  *)
(* safety properties of GseJob, and that it implements JobLifecycle.       *)
(***************************************************************************)
EXTENDS GseJob, TLAPS

-----------------------------------------------------------------------------
(* Sessions                                                                *)

\* A heartbeat handler that has looked at the registry runs on an
\* authenticated connection.
WritersAreAuthenticated ==
    \A c \in Conns :
        rpc[c] \in {"touch", "rebuild", "markOnline", "markRebuilt"} => authed[c]

\* Nothing happens on a connection before handle_conn has it.
ServedConnections ==
    \A c \in Conns : /\ srv[c] = "none" <=> link[c] = "unused"
                     /\ srv[c] = "none" => rpc[c] = "idle" /\ ~ authed[c]

\* The inductive strengthening of SessionAuthenticated.
SessionInv ==
    /\ SessionTypeOK
    /\ SessionAuthenticated
    /\ WritersAreAuthenticated
    /\ ServedConnections

USE DEF agentVars, serverVars, sessionVars

-----------------------------------------------------------------------------
(* The registry operators                                                  *)

\* A new session (Session::new) is well typed and its connection's own.
LEMMA NewSessionType ==
    ASSUME NEW c \in Conns
    PROVE  /\ NewSession(c) \in Sessions
           /\ NewSession(c) # NoSession
           /\ NewSession(c).client = c
  BY NoConnAssumption DEF NewSession, Sessions, SessionStates, NoSession

\* advance_all keeps a session's connection, and makes and ends no session.
LEMMA AdvanceKeepsSession ==
    ASSUME NEW s \in Sessions \cup {NoSession}
    PROVE  /\ Advance(s) \in Sessions \cup {NoSession}
           /\ Advance(s).client = s.client
           /\ Advance(s) = NoSession <=> s = NoSession
  <1>1. CASE s = NoSession
    BY <1>1 DEF NoSession, Advance, NextState
  <1>2. CASE s \in Sessions
    <2>1. NextState(s.state) \in SessionStates
      BY <1>2 DEF NextState, Sessions, SessionStates
    <2>2. Advance(s) \in Sessions /\ Advance(s).client = s.client
      BY <1>2, <2>1 DEF Advance, Sessions
    <2> QED  BY <1>2, <2>2, NoConnAssumption DEF Sessions, NoSession
  <1> QED  BY <1>1, <1>2

\* touch renews a session and makes none.
LEMMA TouchKeepsSession ==
    ASSUME NEW r \in Registries, NEW a \in Agents, NEW b \in Agents
    PROVE  /\ Touch(r, a) \in Registries
           /\ Touch(r, a)[b].client = r[b].client
           /\ Touch(r, a)[b] = NoSession <=> r[b] = NoSession
  BY NoConnAssumption DEF Touch, Registries, Sessions, NoSession

\* NoConn is no connection, and every connection was dialed by an agent.
LEMMA ThereIsNoDialedNoConn == \A c \in Conns : c # NoConn /\ Dialer[c] \in Agents
  BY NoConnAssumption, DialerAssumption

-----------------------------------------------------------------------------
(* SessionInv is inductive                                                 *)

\* The server starts without sessions and connections (GseServer::bind).
LEMMA SessionInitially == SessionInit => SessionInv
  BY DEF SessionInit, SessionInv, WritersAreAuthenticated, ServedConnections, SessionTypeOK, SessionAuthenticated, Phases,
         Links, RpcSteps, SrvSteps, Statuses, ScanSteps, Registries

\* No step but AuthRecord takes a handler past "record".
LEMMA RpcMoves ==
    ASSUME SessionInv, UNCHANGED <<reg, authed>>,
           \A c \in Conns : rpc[c] = "record" => rpc'[c] = "record"
    PROVE  SessionAuthenticated'
  <1> SUFFICES ASSUME NEW a \in Agents, reg[a] # NoSession
               PROVE  LET c == reg[a].client IN
                      Dialer[c] = a /\ (authed[c] \/ rpc'[c] = "record")
    BY DEF SessionAuthenticated
  <1>1. reg[a].client \in Conns
    BY DEF SessionInv, SessionTypeOK, Registries, Sessions
  <1> QED  BY <1>1 DEF SessionInv, SessionAuthenticated

\* What the agent process does leaves registry and `authed` alone, and starts
\* a handler only at its first step.
LEMMA AgentStepKeeps ==
    ASSUME SessionInv, NEW a \in Agents, AgentStep(a) \/ AgentCrash(a)
    PROVE  SessionInv'
  <1> USE DEF SessionInv, SessionTypeOK, SessionAuthenticated,
          WritersAreAuthenticated, ServedConnections, Phases, Links,
              RpcSteps, SrvSteps
  <1>1. CASE Dial(a)
    <2>1. SessionAuthenticated'
      <3>1. \A c \in Conns : rpc[c] = "record" => rpc'[c] = "record"
        BY <1>1 DEF Dial
      <3>2. UNCHANGED <<reg, authed>>  BY <1>1 DEF Dial
      <3> QED  BY <3>1, <3>2, RpcMoves
    <2> QED  BY <1>1, <2>1 DEF Dial
  <1>2. CASE AuthReplied(a)   BY <1>2 DEF AuthReplied
  <1>3. CASE SendHeartbeat(a)
    <2>1. current[a] \in Conns => srv[current[a]] # "none"
      BY <1>3 DEF SendHeartbeat
    <2>2. ServedConnections'  BY <1>3, <2>1 DEF SendHeartbeat
    <2>3. SessionAuthenticated'
      <3>1. \A c \in Conns : rpc[c] = "record" => rpc'[c] = "record"
        BY <1>3 DEF SendHeartbeat
      <3>2. UNCHANGED <<reg, authed>>  BY <1>3 DEF SendHeartbeat
      <3> QED  BY <3>1, <3>2, RpcMoves
    <2>4. WritersAreAuthenticated'  BY <1>3 DEF SendHeartbeat
    <2>5. SessionTypeOK'            BY <1>3 DEF SendHeartbeat
    <2> QED  BY <2>2, <2>3, <2>4, <2>5
  <1>4. CASE NoticeDeadLink(a) BY <1>4 DEF NoticeDeadLink
  <1>5. CASE Reauth(a)        BY <1>5 DEF Reauth
  <1>6. CASE AgentStart(a)    BY <1>6 DEF AgentStart
  <1>7. CASE AgentCrash(a)    BY <1>7 DEF AgentCrash, LinksDown
  <1> QED  BY <1>1, <1>2, <1>3, <1>4, <1>5, <1>6, <1>7 DEF AgentStep

\* The handlers put a session into the registry only on an authenticated
\* connection.
LEMMA HandlerStepKeeps ==
    ASSUME SessionInv, NEW c \in Conns, HandlerStep(c) \/ AuthVerify(c)
    PROVE  SessionInv'
  <1> USE NoConnAssumption, DialerAssumption
      DEF SessionInv, SessionTypeOK, SessionAuthenticated,
          WritersAreAuthenticated, ServedConnections, RpcSteps
  <1>1. CASE AuthVerify(c)
    <2>1. SessionAuthenticated'
      <3>1. \A d \in Conns : rpc[d] = "record" => rpc'[d] = "record"
        BY <1>1 DEF AuthVerify
      <3>2. UNCHANGED <<reg, authed>>  BY <1>1 DEF AuthVerify
      <3> QED  BY <3>1, <3>2, RpcMoves
    <2>2. WritersAreAuthenticated'  BY <1>1 DEF AuthVerify
    <2>3. ServedConnections'        BY <1>1 DEF AuthVerify, LinksDown
    <2>4. SessionTypeOK'
      BY <1>1, SMTT(60) DEF AuthVerify, LinksDown, Phases, Links
    <2> QED  BY <2>1, <2>2, <2>3, <2>4
  <1>2. CASE AuthInsert(c)
    <2>1. SessionTypeOK'
      BY <1>2, NewSessionType DEF AuthInsert, Insert, Registries
    <2>2. SessionAuthenticated'
      <3> SUFFICES ASSUME NEW a \in Agents, reg'[a] # NoSession
                   PROVE  /\ Dialer[reg'[a].client] = a
                          /\ \/ authed'[reg'[a].client]
                             \/ rpc'[reg'[a].client] = "record"
        OBVIOUS
      <3>1. CASE a = Dialer[c]
        BY <1>2, <3>1, NewSessionType DEF AuthInsert, Insert, Registries
      <3>2. CASE a # Dialer[c]
        BY <1>2, <3>2 DEF AuthInsert, Insert, Registries
      <3> QED  BY <3>1, <3>2
    <2> QED  BY <1>2, <2>1, <2>2 DEF AuthInsert
  <1>7. CASE AuthRecord(c)
    BY <1>7 DEF AuthRecord
  <1>3. CASE MarkOnline(c)
    BY <1>3 DEF MarkOnline, SetStatus, Statuses
  <1>4. CASE HeartbeatLookup(c)
    <2>1. /\ HeartbeatTurn(c) \in {"idle", "rebuild", "touch"}
          /\ HeartbeatTurn(c) # "idle" => authed[c]
      BY DEF HeartbeatTurn
    <2> QED  BY <1>4, <2>1 DEF HeartbeatLookup
  <1>5. CASE HeartbeatRebuild(c)
    BY <1>5, NewSessionType DEF HeartbeatRebuild, Insert, Registries
  <1>6. CASE HeartbeatTouch(c)
    <2>1. Dialer[c] \in Agents  OBVIOUS
    <2>2. reg' \in Registries /\ reg' = Touch(reg, Dialer[c])
      BY <1>6, <2>1, TouchKeepsSession DEF HeartbeatTouch
    <2>3. \A b \in Agents : /\ reg'[b].client = reg[b].client
                            /\ reg'[b] = NoSession <=> reg[b] = NoSession
      BY <2>1, <2>2, TouchKeepsSession
    <2> QED  BY <1>6, <2>2, <2>3 DEF HeartbeatTouch
  <1> QED  BY <1>1, <1>2, <1>3, <1>4, <1>5, <1>6, <1>7 DEF HandlerStep

\* Probes, clean-up and lost links: a session may go, `authed` stays.
LEMMA ConnStepKeeps ==
    ASSUME SessionInv, NEW c \in Conns, ConnStep(c) \/ LinkDrop(c)
    PROVE  SessionInv'
  <1> USE NoConnAssumption, DialerAssumption
      DEF SessionInv, SessionTypeOK, SessionAuthenticated,
          WritersAreAuthenticated, ServedConnections, SrvSteps
  <1>1. CASE ProbeOk(c)       BY <1>1 DEF ProbeOk
  <1>2. CASE ProbeFail(c)     BY <1>2 DEF ProbeFail
  <1>3. CASE CleanupRemove(c)
    BY <1>3 DEF CleanupRemove, RemoveIfClient, Remove, Registries
  <1>4. CASE CleanupMarkOffline(c)
    BY <1>4 DEF CleanupMarkOffline, SetStatus, Statuses
  <1>5. CASE LinkDrop(c)      BY <1>5 DEF LinkDrop, Links
  <1> QED  BY <1>1, <1>2, <1>3, <1>4, <1>5 DEF ConnStep

\* Time and the liveness scan change the state of sessions, not their owner.
LEMMA ScanKeeps ==
    ASSUME SessionInv,
           \/ ScanAdvance \/ ScanList
           \/ \E a \in Agents :
                WindowElapses(a) \/ ScanMarkOffline(a) \/ ScanMarkLost(a)
    PROVE  SessionInv'
  <1> USE DEF SessionInv, SessionTypeOK, SessionAuthenticated,
          WritersAreAuthenticated, ServedConnections, ScanSteps
  <1>1. CASE ScanAdvance
    <2>1. reg' \in Registries
      BY <1>1, AdvanceKeepsSession DEF ScanAdvance, AdvanceAll, Registries
    <2>2. \A b \in Agents : /\ reg'[b].client = reg[b].client
                            /\ reg'[b] = NoSession <=> reg[b] = NoSession
      BY <1>1, AdvanceKeepsSession DEF ScanAdvance, AdvanceAll, Registries
    <2> QED  BY <1>1, <2>1, <2>2 DEF ScanAdvance
  <1>2. CASE ScanList  BY <1>2 DEF ScanList
  <1>3. ASSUME NEW a \in Agents,
               WindowElapses(a) \/ ScanMarkOffline(a) \/ ScanMarkLost(a)
        PROVE  SessionInv'
    <2>1. CASE WindowElapses(a)
      <3>1. reg[a] \in Sessions
        BY <2>1 DEF WindowElapses, Registries, NoSession
      <3>2. reg' = [reg EXCEPT ![a] = [reg[a] EXCEPT !.fresh = FALSE]]
        BY <2>1 DEF WindowElapses
      <3>3. [reg[a] EXCEPT !.fresh = FALSE] \in Sessions
        BY <3>1 DEF Sessions
      <3>4. [reg[a] EXCEPT !.fresh = FALSE].client = reg[a].client
        BY <3>1 DEF Sessions
      <3>5. reg[a] # NoSession
        BY <3>1, NoConnAssumption DEF Sessions, NoSession
      <3> QED  BY <2>1, <3>2, <3>3, <3>4, <3>5 DEF WindowElapses, Registries
    <2>2. CASE ScanMarkOffline(a)
      BY <2>2 DEF ScanMarkOffline, SetStatus, Statuses
    <2>3. CASE ScanMarkLost(a)  BY <2>3 DEF ScanMarkLost
    <2> QED  BY <1>3, <2>1, <2>2, <2>3
  <1> QED  BY <1>1, <1>2, <1>3

\* Creating and deleting agents (create_agent, delete_agent) keeps SessionInv.
LEMMA AdminStepKeeps ==
    ASSUME SessionInv, NEW a \in Agents, AdminStep(a)
    PROVE  SessionInv'
  <1> USE DEF SessionInv, SessionTypeOK, SessionAuthenticated,
          WritersAreAuthenticated, ServedConnections
  <1>1. CASE RegisterAgent(a)  BY <1>1 DEF RegisterAgent, Statuses
  <1>2. CASE DeleteAgent(a)    BY <1>2 DEF DeleteAgent, Statuses
  <1>3. CASE DeleteSession(a)
    BY <1>3 DEF DeleteSession, Remove, Registries, Links
  <1> QED  BY <1>1, <1>2, <1>3 DEF AdminStep

\* The restarted server trusts no connection, and has no session either.
LEMMA RestartKeeps ==
    ASSUME SessionInv, ServerRestart
    PROVE  SessionInv'
  BY DEF SessionInv, SessionTypeOK, SessionAuthenticated,
          WritersAreAuthenticated, ServedConnections, ServerRestart, Links,
         RpcSteps, SrvSteps, ScanSteps, Registries

\* Every step of agents, handlers, probes, liveness scan and admins keeps
\* SessionInv.
LEMMA SessionInductive ==
    SessionInv /\ [SessionNext]_sessionVars => SessionInv'
  <1> SUFFICES ASSUME SessionInv, [SessionNext]_sessionVars
               PROVE  SessionInv'
    OBVIOUS
  <1>1. CASE SessionOnlyStep
    BY <1>1, AgentStepKeeps, HandlerStepKeeps, ConnStepKeeps, ScanKeeps,
       AdminStepKeeps DEF SessionOnlyStep
  <1>2. CASE \E a \in Agents : AgentCrash(a) \/ ScanMarkLost(a)
    BY <1>2, AgentStepKeeps, ScanKeeps
  <1>3. CASE \E c \in Conns : AuthVerify(c)
    BY <1>3, HandlerStepKeeps
  <1>4. CASE ServerRestart
    BY <1>4, RestartKeeps
  <1>5. CASE UNCHANGED sessionVars
    BY <1>5 DEF SessionInv, SessionTypeOK, SessionAuthenticated,
          WritersAreAuthenticated, ServedConnections
  <1> QED  BY <1>1, <1>2, <1>3, <1>4, <1>5 DEF SessionNext

-----------------------------------------------------------------------------
(* Theorems                                                                *)

\* SessionInv holds in every reachable state of the session layer.
THEOREM SessionInvariant == SessionSpec => []SessionInv
  BY SessionInitially, SessionInductive, PTL DEF SessionSpec

\* Every state of the session layer is well typed.
THEOREM SessionTypeCorrect == SessionSpec => []SessionTypeOK
  <1>1. SessionInv => SessionTypeOK  BY DEF SessionInv
  <1> QED  BY <1>1, SessionInvariant, PTL

\* Only a connection that authenticated as the agent ever has the agent's
\* session (handle_auth, and the rebuild in handle_heartbeat).
THEOREM SessionsAreAuthenticated == SessionSpec => []SessionAuthenticated
  <1>1. SessionInv => SessionAuthenticated  BY DEF SessionInv
  <1> QED  BY <1>1, SessionInvariant, PTL

\* No step but the three causes takes a session out of the registry
\* (remove_if_client, delete_agent, the death of the server process).
THEOREM SessionsEndForCause == SessionSpec => SessionEndsForCause
  <1>1. ASSUME SessionInv, [SessionNext]_sessionVars,
               NEW a \in Agents, reg[a] # NoSession, reg'[a] = NoSession
        PROVE  EndsForCause(a)
    <2> USE NoConnAssumption, DialerAssumption
        DEF SessionInv, SessionTypeOK, Registries, EndsForCause
    <2>1. reg[a] \in Sessions /\ reg[a].client \in Conns
      BY <1>1 DEF Sessions
    <2>2. CASE UNCHANGED reg
      BY <1>1, <2>2
    <2>3. ASSUME NEW c \in Conns, CleanupRemove(c)
          PROVE  EndsForCause(a)
      BY <1>1, <2>3 DEF CleanupRemove, RemoveIfClient, Remove
    <2>4. ASSUME NEW b \in Agents, DeleteSession(b)
          PROVE  EndsForCause(a)
      BY <1>1, <2>4 DEF DeleteSession, Remove
    <2>5. CASE ServerRestart
      BY <1>1, <2>1, <2>5 DEF ServerRestart, SessionAuthenticated, ServedConnections
    <2>6. ASSUME NEW c \in Conns, AuthInsert(c) \/ HeartbeatRebuild(c)
          PROVE  EndsForCause(a)
      BY <1>1, <2>6, NewSessionType DEF AuthInsert, HeartbeatRebuild, Insert
    <2>7. ASSUME NEW c \in Conns, HeartbeatTouch(c)
          PROVE  EndsForCause(a)
      <3>1. Dialer[c] \in Agents /\ reg \in Registries  BY <1>1
      <3>2. reg' = Touch(reg, Dialer[c])  BY <2>7 DEF HeartbeatTouch
      <3>3. reg'[a] = NoSession <=> reg[a] = NoSession
        BY <3>1, <3>2, TouchKeepsSession
      <3> QED  BY <1>1, <3>3
    <2>8. CASE ScanAdvance
      BY <1>1, <2>8, AdvanceKeepsSession DEF ScanAdvance, AdvanceAll
    <2>9. ASSUME NEW b \in Agents, WindowElapses(b)
          PROVE  EndsForCause(a)
      BY <1>1, <2>1, <2>9 DEF WindowElapses, Sessions, NoSession
    <2>10. ASSUME NEW b \in Agents,
                  AgentStep(b) \/ AgentCrash(b) \/ RegisterAgent(b)
                  \/ DeleteAgent(b) \/ ScanMarkOffline(b) \/ ScanMarkLost(b)
           PROVE  UNCHANGED reg
      BY <2>10 DEF AgentStep, AgentCrash, RegisterAgent, DeleteAgent,
         ScanMarkOffline, ScanMarkLost, Dial, AuthReplied, SendHeartbeat,
         NoticeDeadLink, Reauth, AgentStart
    <2>11. ASSUME NEW c \in Conns,
                  LinkDrop(c) \/ AuthVerify(c) \/ AuthRecord(c) \/ MarkOnline(c)
                  \/ HeartbeatLookup(c) \/ ProbeOk(c) \/ ProbeFail(c)
                  \/ CleanupMarkOffline(c)
           PROVE  UNCHANGED reg
      BY <2>11 DEF LinkDrop, AuthVerify, AuthRecord, MarkOnline, HeartbeatLookup, ProbeOk,
         ProbeFail, CleanupMarkOffline
    <2>12. CASE ScanList  BY <2>2, <2>12 DEF ScanList
    <2>13. CASE SessionOnlyStep
      BY <2>2, <2>3, <2>4, <2>6, <2>7, <2>8, <2>9, <2>10, <2>11, <2>12, <2>13
      DEF SessionOnlyStep, HandlerStep, ConnStep, AdminStep
    <2>14. CASE UNCHANGED sessionVars  BY <2>2, <2>14
    <2> QED
      BY <1>1, <2>2, <2>5, <2>10, <2>11, <2>13, <2>14 DEF SessionNext
  <1>2. SessionInv /\ [SessionNext]_sessionVars =>
          [\A a \in Agents :
             (reg[a] # NoSession /\ reg'[a] = NoSession) => EndsForCause(a)]_sessionVars
    BY <1>1
  <1> QED  BY <1>2, SessionInvariant, PTL DEF SessionSpec, SessionEndsForCause

-----------------------------------------------------------------------------
(* Jobs                                                                    *)

\* How far the submitting request, the call and the ledger can be apart.
SubmissionOrder(j) ==
    /\ sub[j] \in {"none", "checked"} => job[j] = "none"
    /\ sub[j] \in {"none", "checked", "inserted"} => call[j] = "none"
    /\ job[j] = "none" => /\ sub[j] \in {"none", "checked", "aborted"}
                          /\ call[j] = "none"
    /\ sub[j] \in {"accepted", "rejected"} => call[j] = sub[j]
    /\ sub[j] = "done" => job[j] \in Final \cup {"running"}

\* A call goes to the job's own agent, and only a call that was accepted is
\* followed by a run.
CallBeforeRun(j) ==
    /\ call[j] # "none" => via[j] \in Conns /\ Dialer[via[j]] = Target[j]
    /\ call[j] # "accepted" => run[j] = "none"
    /\ run[j] \in {"none", "running"} => outcome[j] = "none"
    /\ run[j] \in {"reporting", "reported", "over"} => outcome[j] \in Outcomes

\* What the ledger says follows from the call and the run.
LedgerFollows(j) ==
    /\ job[j] = "running"  => call[j] = "accepted"
    /\ job[j] = "rejected" => call[j] = "rejected"
    /\ job[j] \in Outcomes => job[j] = outcome[j]

JobInv ==
    /\ JobTypeOK
    /\ \A j \in Jobs : SubmissionOrder(j) /\ CallBeforeRun(j) /\ LedgerFollows(j)

USE DEF jobVars, vars

-----------------------------------------------------------------------------
(* The ledger's statements                                                 *)

JobTable == [Jobs -> JobStatuses \cup {"none"}]

\* A guarded UPDATE changes one row, and only while it is in flight.
LEMMA SetUnlessFinalChanges ==
    ASSUME NEW f \in JobTable, NEW j \in Jobs, NEW value \in JobStatuses
    PROVE  /\ SetUnlessFinal(f, j, value) \in JobTable
           /\ \A i \in Jobs : SetUnlessFinal(f, j, value)[i] =
                IF i = j /\ f[j] \in InFlight THEN value ELSE f[i]
  BY DEF SetUnlessFinal, JobTable

\* Giving up jobs changes those in flight, to "lost".
LEMMA MarkLostAmongChanges ==
    ASSUME NEW f \in JobTable, NEW S
    PROVE  /\ MarkLostAmong(f, S) \in JobTable
           /\ \A i \in Jobs : MarkLostAmong(f, S)[i] =
                IF i \in S /\ f[i] \in InFlight THEN "lost" ELSE f[i]
  BY DEF MarkLostAmong, JobTable, JobStatuses, Final

-----------------------------------------------------------------------------
(* The session layer runs underneath                                       *)

\* A step of the job layer (dispatch, results) is a step of the session layer
\* or leaves it alone.
LEMMA StepsRefineSession == [Next]_vars => [SessionNext]_sessionVars
  <1> SUFFICES ASSUME [Next]_vars
               PROVE  [SessionNext]_sessionVars
    OBVIOUS
  <1>1. CASE SessionOnlyStep  BY <1>1 DEF SessionNext
  <1>2. ASSUME NEW j \in Jobs, JobStep(j)
        PROVE  UNCHANGED sessionVars
    BY <1>2 DEF JobStep, ServerJobStep, AgentJobStep, SubmitCheck, SubmitInsert,
       Dispatch, AckArrives, CallFails, RecordRunning, RecordRejected,
       RecordLost, ClientHangsUp, ExecAccept, ExecAcceptUpgrade, ExecReject,
       JobEnds, SendResult, HandleJobResult
  <1>3. ASSUME NEW a \in Agents, AgentDies(a) \/ LivenessGivesUp(a)
        PROVE  SessionNext
    BY <1>3 DEF AgentDies, LivenessGivesUp, SessionNext
  <1>4. ASSUME NEW c \in Conns, AgentChecked(c)
        PROVE  SessionNext
    BY <1>4 DEF AgentChecked, SessionNext
  <1>5. CASE ServerComesBack  BY <1>5 DEF ServerComesBack, SessionNext
  <1>6. CASE UNCHANGED vars   BY <1>6
  <1> QED  BY <1>1, <1>2, <1>3, <1>4, <1>5, <1>6 DEF Next

\* What holds of sessions holds below the jobs too.
THEOREM SessionLayerInvariant == Spec => []SessionInv
  <1>1. Init => SessionInv
    BY SessionInitially DEF Init
  <1>2. SessionInv /\ [Next]_vars => SessionInv'
    BY StepsRefineSession, SessionInductive
  <1> QED  BY <1>1, <1>2, PTL DEF Spec

-----------------------------------------------------------------------------
(* JobInv is inductive, given the session layer's invariant                *)

JobTypes == /\ job \in JobTable
            /\ sub     \in [Jobs -> SubSteps]
            /\ via     \in [Jobs -> Conns \cup {NoConn}]
            /\ call    \in [Jobs -> Calls]
            /\ run     \in [Jobs -> Runs]
            /\ outcome \in [Jobs -> Outcomes \cup {"none"}]

\* JobTypes is what JobTypeOK adds to the types of the session layer.
LEMMA JobTypesOK == SessionTypeOK => (JobTypeOK <=> JobTypes)
  BY DEF JobTypeOK, JobTypes, JobTable

\* Everything JobInv says, of one job, with the types.
Facts(j) == SubmissionOrder(j) /\ CallBeforeRun(j) /\ LedgerFollows(j)

\* The server starts without jobs (GseServer::bind).
LEMMA JobInitially == Init => JobInv
  <1> SUFFICES ASSUME Init
               PROVE  JobInv
    OBVIOUS
  <1>1. JobTypeOK
    BY SessionInitially DEF Init, JobTypeOK, SessionInv, SubSteps, Calls, Runs
  <1>2. \A j \in Jobs : SubmissionOrder(j) /\ CallBeforeRun(j) /\ LedgerFollows(j)
    BY DEF Init, SubmissionOrder, CallBeforeRun, LedgerFollows, Outcomes
  <1> QED  BY <1>1, <1>2 DEF JobInv

\* A session found Online has a connection of the agent it is for.
LEMMA OnlineConnection ==
    ASSUME SessionInv, NEW a \in Agents, IsOnline(reg, a)
    PROVE  reg[a].client \in Conns /\ Dialer[reg[a].client] = a
  <1>1. reg[a] \in Sessions
    BY DEF SessionInv, SessionTypeOK, Registries, IsOnline, NoSession
  <1> QED
    BY <1>1, NoConnAssumption DEF SessionInv, SessionAuthenticated, Sessions,
       NoSession

\* A write to the ledger that goes from in flight to what the call or the run
\* justifies keeps the facts of that job.
LEMMA LedgerWriteKeeps ==
    ASSUME NEW i \in Jobs, Facts(i),
           UNCHANGED <<via, call, outcome>>,
           run'[i] = run[i] \/ (run[i] = "reported" /\ run'[i] = "over"),
           \/ sub'[i] = sub[i]
           \/ sub'[i] = "aborted"
           \/ sub'[i] = "done" /\ job[i] # "none" /\ job'[i] \in Final \cup {"running"},
           \/ job'[i] = job[i]
           \/ /\ job[i] \in InFlight
              /\ \/ job'[i] = "lost"
                 \/ job'[i] = "running" /\ call[i] = "accepted"
                 \/ job'[i] = "rejected" /\ call[i] = "rejected"
                 \/ job'[i] \in Outcomes /\ job'[i] = outcome[i]
    PROVE  Facts(i)'
  <1> USE DEF Facts, SubmissionOrder, CallBeforeRun, LedgerFollows, Final,
              Outcomes, InFlight
  <1>1. SubmissionOrder(i)'  OBVIOUS
  <1>2. CallBeforeRun(i)'    OBVIOUS
  <1>3. LedgerFollows(i)'    OBVIOUS
  <1> QED  BY <1>1, <1>2, <1>3

\* A step of submit_job_with_source or dispatch_job, or its client leaving,
\* keeps the facts of every job.
LEMMA ServerJobStepKeeps ==
    ASSUME SessionInv, JobTypes, \A i \in Jobs : Facts(i),
           NEW j \in Jobs, ServerJobStep(j) \/ ClientHangsUp(j)
    PROVE  JobTypes' /\ \A i \in Jobs : Facts(i)'
  <1> USE DEF JobTypes, Facts, SubmissionOrder, CallBeforeRun, LedgerFollows,
              SubSteps
  <1>1. CASE SubmitCheck(j)  BY <1>1 DEF SubmitCheck
  <1>2. CASE SubmitInsert(j)
    BY <1>2 DEF SubmitInsert, InsertJob, JobTable, JobStatuses, Final,
       Outcomes, InFlight
  <1>3. CASE Dispatch(j)
    <2>1. CASE ~ IsOnline(reg, Target[j])
      BY <1>3, <2>1 DEF Dispatch
    <2>2. CASE IsOnline(reg, Target[j])
      <3> DEFINE c == reg[Target[j]].client
      <3>1. c \in Conns /\ Dialer[c] = Target[j]
        BY <2>2, OnlineConnection, TargetAssumption
      <3>2. /\ sub' = [sub EXCEPT ![j] = "calling"]
            /\ via' = [via EXCEPT ![j] = c]
            /\ call' = [call EXCEPT ![j] = "sent"]
            /\ UNCHANGED <<job, run, outcome>>
            /\ sub[j] = "inserted"
        BY <1>3, <2>2 DEF Dispatch
      <3> HIDE DEF c
      <3> QED  BY <3>1, <3>2 DEF Calls
    <2> QED  BY <2>1, <2>2
  <1>4. CASE AckArrives(j)   BY <1>4 DEF AckArrives, Calls
  <1>5. CASE CallFails(j)    BY <1>5 DEF CallFails
  <1>6. CASE RecordRunning(j)
    <2>1. job' = SetUnlessFinal(job, j, "running")
      BY <1>6 DEF RecordRunning, MarkRunning
    <2>2. /\ job' \in JobTable
          /\ \A i \in Jobs : job'[i] =
                IF i = j /\ job[j] \in InFlight THEN "running" ELSE job[i]
      <3>1. "running" \in JobStatuses  BY DEF JobStatuses, Final, InFlight
      <3> QED  BY <2>1, <3>1, SetUnlessFinalChanges
    <2>3. JobTypes'
      BY <1>6, <2>2 DEF RecordRunning
    <2>4. ASSUME NEW i \in Jobs  PROVE Facts(i)'
      <3>1. UNCHANGED <<via, call, run, outcome>>
        BY <1>6 DEF RecordRunning
      <3>2. sub' = [sub EXCEPT ![j] = "done"] /\ sub[j] = "accepted"
        BY <1>6 DEF RecordRunning
      <3>3. i = j => job[i] # "none" /\ job'[i] \in Final \cup {"running"}
        BY <2>2, <3>2 DEF JobTable, JobStatuses, Final
      <3> QED  BY <2>2, <3>1, <3>2, <3>3, LedgerWriteKeeps
    <2> QED  BY <2>3, <2>4
  <1>7. CASE RecordRejected(j)
    <2>1. job' = SetUnlessFinal(job, j, "rejected")
      BY <1>7 DEF RecordRejected, MarkRejected
    <2>2. /\ job' \in JobTable
          /\ \A i \in Jobs : job'[i] =
                IF i = j /\ job[j] \in InFlight THEN "rejected" ELSE job[i]
      <3>1. "rejected" \in JobStatuses  BY DEF JobStatuses, Final, InFlight
      <3> QED  BY <2>1, <3>1, SetUnlessFinalChanges
    <2>3. JobTypes'
      BY <1>7, <2>2 DEF RecordRejected
    <2>4. ASSUME NEW i \in Jobs  PROVE Facts(i)'
      <3>1. UNCHANGED <<via, call, run, outcome>>
        BY <1>7 DEF RecordRejected
      <3>2. sub' = [sub EXCEPT ![j] = "done"] /\ sub[j] = "rejected"
        BY <1>7 DEF RecordRejected
      <3>3. i = j => job[i] # "none" /\ job'[i] \in Final \cup {"running"}
        BY <2>2, <3>2 DEF JobTable, JobStatuses, Final
      <3> QED  BY <2>2, <3>1, <3>2, <3>3, LedgerWriteKeeps
    <2> QED  BY <2>3, <2>4
  <1>8. CASE RecordLost(j)
    <2>1. job' = MarkLostAmong(job, JobsOf(Target[j]))
      BY <1>8 DEF RecordLost
    <2>2. /\ job' \in JobTable
          /\ \A i \in Jobs : job'[i] =
                IF i \in JobsOf(Target[j]) /\ job[i] \in InFlight
                  THEN "lost" ELSE job[i]
      BY <2>1, MarkLostAmongChanges
    <2>3. JobTypes'
      BY <1>8, <2>2 DEF RecordLost
    <2>4. ASSUME NEW i \in Jobs  PROVE Facts(i)'
      <3>1. UNCHANGED <<via, call, run, outcome>>
        BY <1>8 DEF RecordLost
      <3>2. sub' = [sub EXCEPT ![j] = "done"] /\ sub[j] = "losing"
        BY <1>8 DEF RecordLost
      <3>3. i = j => job[i] # "none" /\ job'[i] \in Final \cup {"running"}
        BY <2>2, <3>2 DEF JobTable, JobStatuses, Final, JobsOf
      <3> QED  BY <2>2, <3>1, <3>2, <3>3, LedgerWriteKeeps
    <2> QED  BY <2>3, <2>4
  <1>9. CASE ClientHangsUp(j)  BY <1>9 DEF ClientHangsUp
  <1> QED
    BY <1>1, <1>2, <1>3, <1>4, <1>5, <1>6, <1>7, <1>8, <1>9 DEF ServerJobStep

\* A step of the executor (handle_exec, run_job) or of handle_job_result
\* keeps the facts of every job.
LEMMA AgentJobStepKeeps ==
    ASSUME JobTypes, \A i \in Jobs : Facts(i),
           NEW j \in Jobs, AgentJobStep(j) \/ HandleJobResult(j)
    PROVE  JobTypes' /\ \A i \in Jobs : Facts(i)'
  <1> USE DEF JobTypes, Facts, SubmissionOrder, CallBeforeRun, LedgerFollows,
              Calls, Runs
  <1>1. CASE ExecAccept(j)         BY <1>1 DEF ExecAccept
  <1>2. CASE ExecAcceptUpgrade(j)  BY <1>2 DEF ExecAcceptUpgrade
  <1>3. CASE ExecReject(j)         BY <1>3 DEF ExecReject
  <1>4. CASE JobEnds(j)            BY <1>4 DEF JobEnds, Outcomes
  <1>5. CASE SendResult(j)         BY <1>5 DEF SendResult
  <1>6. CASE HandleJobResult(j)
    <2>1. outcome[j] \in Outcomes /\ outcome[j] \in JobStatuses
      BY <1>6 DEF HandleJobResult, JobStatuses, Final
    <2>2. job' = job \/ job' = SetUnlessFinal(job, j, outcome[j])
      BY <1>6 DEF HandleJobResult, FinishJob
    <2>3. /\ job' \in JobTable
          /\ \A i \in Jobs : job'[i] = job[i] \/
                (i = j /\ job[j] \in InFlight /\ job'[i] = outcome[j])
      BY <2>1, <2>2, SetUnlessFinalChanges
    <2> QED
      BY <1>6, <2>1, <2>3
      DEF HandleJobResult, JobTable, JobStatuses, Final, Outcomes, InFlight
  <1> QED
    BY <1>1, <1>2, <1>3, <1>4, <1>5, <1>6 DEF AgentJobStep

\* The session steps that touch jobs give up what is in flight, end tasks, or
\* leave jobs alone.
LEMMA SessionJobStepKeeps ==
    ASSUME JobTypes, \A i \in Jobs : Facts(i),
           \/ \E a \in Agents : AgentDies(a) \/ LivenessGivesUp(a)
           \/ \E c \in Conns : AgentChecked(c)
           \/ ServerComesBack
    PROVE  JobTypes' /\ \A i \in Jobs : Facts(i)'
  <1>1. ASSUME NEW a, KillJobs(a)
        PROVE  JobTypes' /\ \A i \in Jobs : Facts(i)'
    <2>1. JobTypes'  BY <1>1 DEF KillJobs, JobTypes, Runs
    <2>2. ASSUME NEW i \in Jobs  PROVE Facts(i)'
      <3>1. run'[i] = run[i] \/
              (run[i] \in {"running", "reporting"} /\ run'[i] = "killed")
        BY <1>1 DEF KillJobs
      <3>2. UNCHANGED <<job, sub, via, call, outcome>>
        BY <1>1 DEF KillJobs
      <3> QED
        BY <3>1, <3>2
        DEF Facts, SubmissionOrder, CallBeforeRun, LedgerFollows
    <2> QED  BY <2>1, <2>2
  <1>2. CASE UNCHANGED jobVars
    BY <1>2 DEF JobTypes, Facts, SubmissionOrder, CallBeforeRun, LedgerFollows
  <1>3. CASE \E a \in Agents : AgentDies(a)
    BY <1>1, <1>3 DEF AgentDies
  <1>4. CASE \E c \in Conns : AgentChecked(c)
    BY <1>1, <1>2, <1>4 DEF AgentChecked
  <1>5. ASSUME NEW a \in Agents, LivenessGivesUp(a)
        PROVE  JobTypes' /\ \A i \in Jobs : Facts(i)'
    <2>1. /\ job' \in JobTable
          /\ \A i \in Jobs : job'[i] =
                IF i \in JobsOf(a) /\ job[i] \in InFlight THEN "lost" ELSE job[i]
      BY <1>5, MarkLostAmongChanges DEF LivenessGivesUp, JobTypes
    <2>2. UNCHANGED <<sub, via, call, run, outcome>>
      BY <1>5 DEF LivenessGivesUp
    <2>3. JobTypes'  BY <2>1, <2>2 DEF JobTypes
    <2> QED  BY <2>1, <2>2, <2>3, LedgerWriteKeeps
  <1>6. CASE ServerComesBack
    <2>1. /\ job' \in JobTable
          /\ \A i \in Jobs : job'[i] =
                IF i \in Jobs /\ job[i] \in InFlight THEN "lost" ELSE job[i]
      BY <1>6, MarkLostAmongChanges DEF ServerComesBack, JobTypes
    <2>2. /\ UNCHANGED <<via, call, outcome>>
          /\ \A i \in Jobs : sub'[i] = sub[i] \/ sub'[i] = "aborted"
          /\ \A i \in Jobs : run'[i] = run[i] \/
                            (run[i] = "reported" /\ run'[i] = "over")
      <3>1. UNCHANGED <<via, call, outcome>>
        BY <1>6 DEF ServerComesBack
      <3>2. \A i \in Jobs : sub'[i] = sub[i] \/ sub'[i] = "aborted"
        BY <1>6 DEF ServerComesBack
      <3>3. \A i \in Jobs : run'[i] = run[i] \/
                            (run[i] = "reported" /\ run'[i] = "over")
        BY <1>6 DEF ServerComesBack
      <3> QED  BY <3>1, <3>2, <3>3
    <2>3. JobTypes'
      BY <1>6, <2>1 DEF ServerComesBack, JobTypes, SubSteps, Runs
    <2> QED  BY <2>1, <2>2, <2>3, LedgerWriteKeeps
  <1> QED  BY <1>3, <1>4, <1>5, <1>6

\* Every step of the system keeps JobInv.
LEMMA JobInductive ==
    SessionInv /\ JobInv /\ [Next]_vars => JobInv'
  <1> SUFFICES ASSUME SessionInv, JobInv, [Next]_vars
               PROVE  JobInv'
    OBVIOUS
  <1>1. SessionInv'
    BY StepsRefineSession, SessionInductive
  <1>2. JobTypes /\ \A i \in Jobs : Facts(i)
    BY JobTypesOK DEF JobInv, SessionInv, Facts
  <1>3. JobTypes' /\ \A i \in Jobs : Facts(i)'
    <2>1. CASE UNCHANGED jobVars
      BY <1>2, <2>1
      DEF JobTypes, Facts, SubmissionOrder, CallBeforeRun, LedgerFollows
    <2>2. ASSUME NEW j \in Jobs, JobStep(j)
          PROVE  JobTypes' /\ \A i \in Jobs : Facts(i)'
      BY <1>2, <2>2, ServerJobStepKeeps, AgentJobStepKeeps DEF JobStep
    <2> QED  BY <1>2, <2>1, <2>2, SessionJobStepKeeps DEF Next
  <1>4. JobTypeOK'
    BY <1>1, <1>3, JobTypesOK DEF SessionInv, JobTypes, JobTypeOK, JobTable
  <1> QED  BY <1>3, <1>4 DEF JobInv, Facts

-----------------------------------------------------------------------------
(* Theorems                                                                *)

\* SessionInv and JobInv hold in every reachable state.
THEOREM JobInvariant == Spec => [](SessionInv /\ JobInv)
  <1>1. Init => SessionInv /\ JobInv
    BY SessionInitially, JobInitially DEF Init
  <1>2. SessionInv /\ JobInv /\ [Next]_vars => (SessionInv /\ JobInv)'
    BY StepsRefineSession, SessionInductive, JobInductive
  <1> QED  BY <1>1, <1>2, PTL DEF Spec

\* Every state of the job layer is well typed.
THEOREM JobTypeCorrect == Spec => []JobTypeOK
  <1>1. JobInv => JobTypeOK  BY DEF JobInv
  <1> QED  BY <1>1, JobInvariant, PTL

\* finish_job and mark_lost_* never make up an outcome.
THEOREM OutcomesAreReal == Spec => []RecordedOutcomeIsReal
  <1>1. JobInv => RecordedOutcomeIsReal
    BY DEF JobInv, LedgerFollows, RecordedOutcomeIsReal
  <1> QED  BY <1>1, JobInvariant, PTL

\* A rejected job was refused by its agent and has no task (dispatch_job).
THEOREM RejectedJobsNeverRun == Spec => []RejectedNeverRuns
  <1>1. JobInv => RejectedNeverRuns
    BY DEF JobInv, LedgerFollows, CallBeforeRun, RejectedNeverRuns
  <1> QED  BY <1>1, JobInvariant, PTL

\* A job is "running" only once its own agent took it (dispatch_job).
THEOREM RunningJobsWereTaken == Spec => []RunningWasTaken
  <1>1. JobInv => RunningWasTaken
    BY DEF JobInv, LedgerFollows, CallBeforeRun, RunningWasTaken
  <1> QED  BY <1>1, JobInvariant, PTL

\* An answered submission has a decided job (submit_job_with_source).
THEOREM AnswersAreDecided == Spec => []AnsweredSubmissionIsDecided
  <1>1. JobInv => AnsweredSubmissionIsDecided
    BY DEF JobInv, SubmissionOrder, AnsweredSubmissionIsDecided
  <1> QED  BY <1>1, JobInvariant, PTL

\* A job with an outcome holds no permit of its agent (JobExecutor).
THEOREM PermitsComeBackFirst == Spec => []ResultMeansPermitBack
  <1>1. JobInv => ResultMeansPermitBack
    BY DEF JobInv, LedgerFollows, CallBeforeRun, ResultMeansPermitBack, Running,
       Outcomes
  <1> QED  BY <1>1, JobInvariant, PTL

-----------------------------------------------------------------------------
(* GseJob implements JobLifecycle                                          *)

\* The life cycle instantiates JobLedger again.
LEMMA SameLedger ==
    /\ Lifecycle!InFlight = InFlight
    /\ Lifecycle!Outcomes = Outcomes
    /\ \A f, S : Lifecycle!MarkLostAmong(f, S) = MarkLostAmong(f, S)
  BY DEF Lifecycle!InFlight, InFlight, Lifecycle!Outcomes, Outcomes,
         Lifecycle!MarkLostAmong, MarkLostAmong

\* A guarded write is the write, or nothing.
LEMMA GuardedWrite ==
    ASSUME NEW j \in Jobs, NEW value, job' = SetUnlessFinal(job, j, value)
    PROVE  \/ UNCHANGED job
           \/ job[j] \in InFlight /\ job' = [job EXCEPT ![j] = value]
  BY DEF SetUnlessFinal

\* Only these steps of a job change what the ledger says of it.
LEMMA LedgerStepsRefine ==
    ASSUME JobInv, NEW j \in Jobs,
           \/ SubmitInsert(j) \/ RecordRunning(j) \/ RecordRejected(j)
           \/ RecordLost(j) \/ HandleJobResult(j) \/ JobEnds(j)
    PROVE  Lifecycle!Next \/ UNCHANGED <<job, outcome>>
  <1>0. SubmissionOrder(j) /\ CallBeforeRun(j) /\ LedgerFollows(j)
    BY DEF JobInv
  <1>1. CASE SubmitInsert(j)
    BY <1>0, <1>1
    DEF SubmitInsert, SubmissionOrder, InsertJob, Lifecycle!Submit, Lifecycle!Next
  <1>2. CASE RecordRunning(j)
    <2>1. job' = SetUnlessFinal(job, j, "running") /\ UNCHANGED outcome
      BY <1>2 DEF RecordRunning, MarkRunning
    <2>2. CASE job[j] \in InFlight /\ job' = [job EXCEPT ![j] = "running"]
      <3>1. Lifecycle!Start(j)
        BY <2>1, <2>2, SameLedger DEF Lifecycle!Start
      <3> QED  BY <3>1 DEF Lifecycle!Next
    <2> QED  BY <2>1, <2>2, GuardedWrite
  <1>3. CASE RecordRejected(j)
    <2>1. job' = SetUnlessFinal(job, j, "rejected") /\ UNCHANGED outcome
      BY <1>3 DEF RecordRejected, MarkRejected
    <2>2. outcome[j] = "none"
      BY <1>0, <1>3 DEF RecordRejected, SubmissionOrder, CallBeforeRun
    <2>3. CASE job[j] \in InFlight /\ job' = [job EXCEPT ![j] = "rejected"]
      <3>1. Lifecycle!Reject(j)
        BY <2>1, <2>2, <2>3, SameLedger DEF Lifecycle!Reject
      <3> QED  BY <3>1 DEF Lifecycle!Next
    <2> QED  BY <2>1, <2>3, GuardedWrite
  <1>4. CASE RecordLost(j)
    <2>1. Lifecycle!GiveUp(JobsOf(Target[j]))
      BY <1>4, SameLedger DEF RecordLost, Lifecycle!GiveUp
    <2>2. JobsOf(Target[j]) \in SUBSET Jobs  BY DEF JobsOf
    <2> QED  BY <2>1, <2>2 DEF Lifecycle!Next
  <1>5. CASE HandleJobResult(j)
    <2>1. UNCHANGED outcome /\ outcome[j] # "none"
      BY <1>0, <1>5 DEF HandleJobResult, CallBeforeRun, Outcomes
    <2>2. UNCHANGED job \/ job' = SetUnlessFinal(job, j, outcome[j])
      BY <1>5 DEF HandleJobResult, FinishJob
    <2>3. CASE job[j] \in InFlight /\ job' = [job EXCEPT ![j] = outcome[j]]
      <3>1. Lifecycle!Record(j)
        BY <2>1, <2>3, SameLedger DEF Lifecycle!Record
      <3> QED  BY <3>1 DEF Lifecycle!Next
    <2> QED  BY <2>1, <2>2, <2>3, GuardedWrite
  <1>6. CASE JobEnds(j)
    <2>1. /\ job[j] \notin {"none", "rejected"} /\ outcome[j] = "none"
          /\ \E o \in Outcomes : outcome' = [outcome EXCEPT ![j] = o]
          /\ UNCHANGED job
      BY <1>0, <1>6
      DEF JobEnds, SubmissionOrder, CallBeforeRun, LedgerFollows
    <2>2. Lifecycle!Run(j)
      BY <2>1, SameLedger DEF Lifecycle!Run
    <2> QED  BY <2>2 DEF Lifecycle!Next
  <1> QED  BY <1>1, <1>2, <1>3, <1>4, <1>5, <1>6

\* Every step is a step of the abstract life cycle of jobs, or does not
\* change the ledger.
LEMMA StepRefines ==
    ASSUME JobInv, [Next]_vars
    PROVE  [Lifecycle!Next]_<<job, outcome>>
  <1>1. CASE UNCHANGED jobVars  BY <1>1
  <1>2. ASSUME NEW j \in Jobs, JobStep(j)
        PROVE  Lifecycle!Next \/ UNCHANGED <<job, outcome>>
    <2>1. CASE \/ SubmitInsert(j) \/ RecordRunning(j) \/ RecordRejected(j)
               \/ RecordLost(j) \/ HandleJobResult(j) \/ JobEnds(j)
      BY <2>1, LedgerStepsRefine
    <2>2. CASE \/ SubmitCheck(j) \/ Dispatch(j) \/ AckArrives(j) \/ CallFails(j)
               \/ ClientHangsUp(j) \/ ExecAccept(j) \/ ExecAcceptUpgrade(j)
               \/ ExecReject(j) \/ SendResult(j)
      BY <2>2 DEF SubmitCheck, Dispatch, AckArrives, CallFails, ClientHangsUp,
         ExecAccept, ExecAcceptUpgrade, ExecReject, SendResult
    <2> QED  BY <1>2, <2>1, <2>2 DEF JobStep, ServerJobStep, AgentJobStep
  <1>3. ASSUME NEW a \in Agents, LivenessGivesUp(a)
        PROVE  Lifecycle!Next
    <2>1. Lifecycle!GiveUp(JobsOf(a))
      BY <1>3, SameLedger DEF LivenessGivesUp, Lifecycle!GiveUp
    <2>2. JobsOf(a) \in SUBSET Jobs  BY DEF JobsOf
    <2> QED  BY <2>1, <2>2 DEF Lifecycle!Next
  <1>4. ASSUME NEW a, KillJobs(a)
        PROVE  UNCHANGED <<job, outcome>>
    BY <1>4 DEF KillJobs
  <1>5. CASE ServerComesBack
    <2>1. Lifecycle!GiveUp(Jobs)
      BY <1>5, SameLedger DEF ServerComesBack, Lifecycle!GiveUp
    <2> QED  BY <2>1 DEF Lifecycle!Next
  <1> QED
    BY <1>1, <1>2, <1>3, <1>4, <1>5 DEF Next, AgentDies, AgentChecked

\* Whatever happens to connections, sessions and processes, what a reader of
\* the ledger sees is a run of the job life cycle.
THEOREM LedgerImplementsLifecycle == Spec => ImplementsLifecycle
  <1>1. Init => Lifecycle!Init
    BY DEF Init, Lifecycle!Init
  <1>2. JobInv /\ [Next]_vars => [Lifecycle!Next]_(Lifecycle!lifecycleVars)
    BY StepRefines DEF Lifecycle!lifecycleVars
  <1> QED
    BY <1>1, <1>2, JobInvariant, PTL DEF Spec, ImplementsLifecycle, Lifecycle!Spec

=============================================================================
