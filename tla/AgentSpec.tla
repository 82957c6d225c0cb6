----------------------------- MODULE AgentSpec -----------------------------
(***************************************************************************)
(* The configuration centre for one agent: its desired spec in the ledger, *)
(* the rotation of its token, how the spec reaches the agent (pulled after *)
(* every authentication, pushed on demand), how the agent applies it, and  *)
(* how what it applied gets back into the ledger (the push's answer, and   *)
(* heartbeats that repeat the last acknowledgement).                       *)
(*                                                                         *)
(* Source: crates/gse-server-core/src/http.rs (put_agent_spec,             *)
(* apply_agent_spec), server.rs (handle_agent_spec, push_agent_spec,       *)
(* record_spec_report, handle_auth), ledger.rs; crates/gse-agent-core/src/ *)
(* spec_apply.rs and lib.rs.                                               *)
(*                                                                         *)
(* A revision is the hash of the spec, tokens included, so a spec is its   *)
(* own revision here.  Sessions are reduced to the connection that has     *)
(* one; GseSession has their full story.                                   *)
(***************************************************************************)
EXTENDS Naturals, FiniteSets

CONSTANTS
    Params, FileParams,        \* parameters; those of the agent's own file
    Items, NoItems,            \* collection items; the empty table
    Tokens, FileToken, NoToken,
    NoSpec,                    \* the empty revision: the local baseline
    NoAck,
    Puts, PutInput, Keep,      \* PUT requests; Keep: the token field is absent
    Pushes, Pull, Reload,      \* apply requests; the agent's two own tasks
    Conns, NoConn,             \* connections; a finished one stands for a new one
    MaxReports,                \* MAX_REPORT_ATTEMPTS
    Faults

\* "drop": connections are lost; "crash": the agent process dies; "restart":
\* the server process does; "hangup": HTTP clients leave; "rowerror": the
\* ledger fails to store a report; "reload": SIGHUP; "overlap": two specs
\* reach the agent so close that their applications interleave.
FaultKinds == {"drop", "crash", "restart", "hangup", "rowerror", "reload", "overlap"}

Specs  == [params : Params, items : Items, token : Tokens \cup {NoToken}]
Bodies == [params : Params, items : Items]
Acks   == [rev : Specs \cup {NoSpec}, applied : Bodies]
Tasks  == Pushes \cup {Pull, Reload}

ASSUME FileAssumption == FileParams \in Params /\ NoItems \in Items /\ FileToken \in Tokens
ASSUME AbsentAssumption ==
    /\ NoSpec \notin Specs /\ NoAck \notin Acks /\ NoConn \notin Conns
    /\ NoToken \notin Tokens /\ Keep \notin Tokens \cup {NoToken}
ASSUME PutAssumption ==
    PutInput \in [Puts -> [params : Params, items : Items,
                           token : Tokens \cup {NoToken, Keep}]]
ASSUME TaskAssumption == Pull # Reload /\ Pull \notin Pushes /\ Reload \notin Pushes
ASSUME MaxReportsAssumption == MaxReports \in Nat \ {0}
ASSUME SpecFaultsAssumption == Faults \subseteq FaultKinds

VARIABLES
    desired,   \* ledger: agent_specs
    tokens,    \* ledger: agents.token and agents.prev_token
    stored,    \* ledger: agent_spec_states
    put,       \* server: pc of each PUT request
    draft,     \* server: the spec it is going to save
    push,      \* server: pc of each apply request
    via,       \* server: the connection it calls on
    session,   \* server: the connection of the agent's session
    auth,      \* server: pc of each connection's handle_auth
    cred,      \* the token it is to verify
    beat,      \* each connection's heartbeat: sent, being stored, answered
    carried,   \* the acknowledgement it carries
    link,      \* transport of each connection: "up" or "down"
    phase,     \* agent: "idle", "auth", "pull", "up", "exited"
    conn,      \* agent: the connection in use
    rt,        \* agent: RuntimeConfig
    task,      \* agent: pc of each application of a spec
    arg,       \* the spec being applied
    reply      \* the acknowledgement that answers a push

ledgerVars == <<desired, tokens, stored>>
httpVars   == <<put, draft, push, via>>
connVars   == <<session, auth, cred, beat, carried, link>>
agentVars  == <<phase, conn, rt>>
taskVars   == <<task, arg, reply>>
vars       == <<ledgerVars, httpVars, connVars, agentVars, taskVars>>

PutSteps  == {"none", "read", "saved", "rotating", "done"}
PushSteps == {"none", "read", "calling", "acked", "done"}
AuthSteps == {"none", "verify", "clear", "accept", "ok", "no"}
BeatSteps == {"none", "sent", "store", "synced", "unsynced"}
Phases    == {"idle", "auth", "pull", "up", "exited"}
TaskSteps == {"none", "sent", "enforce", "snapshot", "commit", "remember", "acked"}

Runtimes == [token : Tokens, rev : Specs \cup {NoSpec}, applied : Bodies,
             running : Items, lastAck : Acks \cup {NoAck},
             pending : 0..MaxReports, reauth : BOOLEAN]

SpecTypeOK ==
    /\ desired \in Specs \cup {NoSpec}
    /\ tokens  \in [cur : Tokens, prev : Tokens \cup {NoToken}]
    /\ stored  \in Acks \cup {NoAck}
    /\ put     \in [Puts -> PutSteps]
    /\ draft   \in [Puts -> Specs \cup {NoSpec}]
    /\ push    \in [Pushes -> PushSteps]
    /\ via     \in [Pushes -> Conns \cup {NoConn}]
    /\ session \in Conns \cup {NoConn}
    /\ auth    \in [Conns -> AuthSteps]
    /\ cred    \in [Conns -> Tokens \cup {NoToken}]
    /\ beat    \in [Conns -> BeatSteps]
    /\ carried \in [Conns -> Acks \cup {NoAck}]
    /\ link    \in [Conns -> {"up", "down"}]
    /\ phase   \in Phases
    /\ conn    \in Conns \cup {NoConn}
    /\ rt      \in Runtimes
    /\ task    \in [Tasks -> TaskSteps]
    /\ arg     \in [Tasks -> Specs \cup {NoSpec}]
    /\ reply   \in [Pushes -> Acks \cup {NoAck}]

\* RuntimeConfig::new: what the agent's own file says.
FreshRuntime ==
    [token |-> FileToken, rev |-> NoSpec,
     applied |-> [params |-> FileParams, items |-> NoItems], running |-> NoItems,
     lastAck |-> NoAck, pending |-> 0, reauth |-> FALSE]

Init ==
    /\ desired = NoSpec /\ tokens = [cur |-> FileToken, prev |-> NoToken] /\ stored = NoAck
    /\ put  = [p \in Puts |-> "none"]   /\ draft = [p \in Puts |-> NoSpec]
    /\ push = [q \in Pushes |-> "none"] /\ via   = [q \in Pushes |-> NoConn]
    /\ session = NoConn
    /\ auth = [c \in Conns |-> "none"]  /\ cred    = [c \in Conns |-> NoToken]
    /\ beat = [c \in Conns |-> "none"]  /\ carried = [c \in Conns |-> NoAck]
    /\ link = [c \in Conns |-> "down"]
    /\ phase = "idle" /\ conn = NoConn /\ rt = FreshRuntime
    /\ task = [t \in Tasks |-> "none"]  /\ arg = [t \in Tasks |-> NoSpec]
    /\ reply = [q \in Pushes |-> NoAck]

-----------------------------------------------------------------------------
(* PUT /agents/{id}/spec: put_agent_spec                                   *)

\* merge_secret: an absent token field keeps the token of the saved spec.
MergeToken(p) ==
    IF PutInput[p].token # Keep THEN PutInput[p].token
    ELSE IF desired = NoSpec THEN NoToken
    ELSE desired.token

PutRead(p) ==
    /\ put[p] = "none"
    /\ draft' = [draft EXCEPT ![p] = [PutInput[p] EXCEPT !.token = MergeToken(p)]]
    /\ put'   = [put EXCEPT ![p] = "read"]
    /\ UNCHANGED <<ledgerVars, push, via, connVars, agentVars, taskVars>>

\* upsert_agent_spec
PutSave(p) ==
    /\ put[p] = "read"
    /\ desired' = draft[p]
    /\ put' = [put EXCEPT ![p] = IF draft[p].token = NoToken THEN "done" ELSE "saved"]
    /\ UNCHANGED <<tokens, stored, draft, push, via, connVars, agentVars, taskVars>>

\* agent_tokens: is it a rotation?
PutCompare(p) ==
    /\ put[p] = "saved"
    /\ put' = [put EXCEPT ![p] = IF draft[p].token = tokens.cur THEN "done" ELSE "rotating"]
    /\ UNCHANGED <<ledgerVars, draft, push, via, connVars, agentVars, taskVars>>

\* rotate_agent_token: one statement moves the old value to prev_token.
PutRotate(p) ==
    /\ put[p] = "rotating"
    /\ tokens' = [cur |-> draft[p].token, prev |-> tokens.cur]
    /\ put'    = [put EXCEPT ![p] = "done"]
    /\ UNCHANGED <<desired, stored, draft, push, via, connVars, agentVars, taskVars>>

PutHangsUp(p) ==
    /\ "hangup" \in Faults /\ put[p] \in {"read", "saved", "rotating"}
    /\ put' = [put EXCEPT ![p] = "done"]
    /\ UNCHANGED <<ledgerVars, draft, push, via, connVars, agentVars, taskVars>>

-----------------------------------------------------------------------------
(* POST /agents/{id}/spec/apply: push_agent_spec                           *)

PushRead(q) ==
    /\ push[q] = "none" /\ desired # NoSpec
    /\ arg'  = [arg EXCEPT ![q] = desired]
    /\ push' = [push EXCEPT ![q] = "read"]
    /\ UNCHANGED <<ledgerVars, put, draft, via, connVars, agentVars, task, reply>>

\* registry.get, then the call; without an Online session (here: without one)
\* the answer is agent_offline.
PushCall(q) ==
    /\ push[q] = "read"
    /\ IF session = NoConn
         THEN /\ push' = [push EXCEPT ![q] = "done"]
              /\ UNCHANGED <<via, task>>
         ELSE /\ push' = [push EXCEPT ![q] = "calling"]
              /\ via'  = [via EXCEPT ![q] = session]
              /\ task' = [task EXCEPT ![q] = "sent"]
    /\ UNCHANGED <<ledgerVars, put, draft, connVars, agentVars, arg, reply>>

PushAcked(q) ==
    /\ push[q] = "calling" /\ task[q] = "acked" /\ link[via[q]] = "up"
    /\ push' = [push EXCEPT ![q] = "acked"]
    /\ UNCHANGED <<ledgerVars, put, draft, via, connVars, agentVars, taskVars>>

\* The call errs with its connection; it has no timeout of its own.
PushFails(q) ==
    /\ push[q] = "calling" /\ link[via[q]] = "down"
    /\ push' = [push EXCEPT ![q] = "done"]
    /\ UNCHANGED <<ledgerVars, put, draft, via, connVars, agentVars, taskVars>>

\* record_spec_report(force = true), whose failure only costs a log line
PushRecord(q) ==
    /\ push[q] = "acked"
    /\ stored' \in {reply[q]} \cup (IF "rowerror" \in Faults THEN {stored} ELSE {})
    /\ push'   = [push EXCEPT ![q] = "done"]
    /\ reply'  = [reply EXCEPT ![q] = NoAck]
    /\ UNCHANGED <<desired, tokens, put, draft, via, connVars, agentVars, task, arg>>

PushHangsUp(q) ==
    /\ "hangup" \in Faults /\ push[q] \in {"read", "calling", "acked"}
    /\ push' = [push EXCEPT ![q] = "done"]
    /\ UNCHANGED <<ledgerVars, put, draft, via, connVars, agentVars, taskVars>>

-----------------------------------------------------------------------------
(* Connecting: connect_once, authenticate, handle_auth                     *)

Busy(t) == task[t] \in {"enforce", "snapshot", "commit", "remember"}

\* Applying a spec takes microseconds; only "overlap" lets two interleave.
Calm == "overlap" \in Faults \/ \A t \in Tasks : ~ Busy(t)

\* The identity can stand for a new connection: nothing is left of the old
\* one, or nothing that acts.  Reauth leaves its connection open (its handlers
\* hold it), and the session moves on with the next one.
Free(c) ==
    /\ c # session /\ beat[c] = "none"
    /\ \A q \in Pushes : push[q] = "calling" => via[q] # c
    /\ \/ link[c] = "down" /\ auth[c] = "none"
       \/ /\ link[c] = "up" /\ auth[c] = "ok"
          /\ \A q \in Pushes : task[q] = "sent" => via[q] # c

\* A new supervisor replaces the old one, whose collectors are aborted; what a
\* dead connection still carried is lost.
Dial(c) ==
    /\ phase = "idle" /\ Free(c) /\ Calm
    /\ phase' = "auth" /\ conn' = c
    /\ rt'   = [rt EXCEPT !.running = NoItems]
    /\ link' = [link EXCEPT ![c] = "up"]
    /\ auth' = [auth EXCEPT ![c] = "verify"]
    /\ cred' = [cred EXCEPT ![c] = rt.token]
    /\ task' = [t \in Tasks |-> IF t \in Pushes /\ via[t] = c /\ task[t] = "sent"
                                THEN "none" ELSE task[t]]
    /\ UNCHANGED <<ledgerVars, httpVars, session, beat, carried, arg, reply>>

\* verify_agent_token: the current token, the previous one, or neither.
AuthVerify(c) ==
    /\ auth[c] = "verify"
    /\ auth' = [auth EXCEPT ![c] = IF cred[c] = tokens.cur THEN "clear"
                                   ELSE IF cred[c] = tokens.prev THEN "accept"
                                   ELSE "no"]
    /\ cred' = [cred EXCEPT ![c] = NoToken]
    /\ UNCHANGED <<ledgerVars, httpVars, session, beat, carried, link,
                   agentVars, taskVars>>

\* clear_agent_prev_token
AuthClear(c) ==
    /\ auth[c] = "clear"
    /\ tokens' = [tokens EXCEPT !.prev = NoToken]
    /\ auth'   = [auth EXCEPT ![c] = "accept"]
    /\ UNCHANGED <<desired, stored, httpVars, session, cred, beat, carried, link,
                   agentVars, taskVars>>

AuthAccept(c) ==
    /\ auth[c] = "accept"
    /\ session' = c
    /\ auth'    = [auth EXCEPT ![c] = "ok"]
    /\ UNCHANGED <<ledgerVars, httpVars, cred, beat, carried, link, agentVars,
                   taskVars>>

Accepted ==
    /\ phase = "auth" /\ link[conn] = "up" /\ auth[conn] = "ok"
    /\ phase' = "pull"
    /\ UNCHANGED <<ledgerVars, httpVars, connVars, conn, rt, taskVars>>

\* The process ends, whatever the reason: its tasks and connections with it.
ProcessEnds ==
    /\ conn' = NoConn /\ rt' = FreshRuntime
    /\ link' = [c \in Conns |-> "down"]
    /\ task' = [t \in Tasks |-> "none"]
    /\ UNCHANGED <<ledgerVars, httpVars, session, auth, cred, beat, carried, arg, reply>>

\* run() returns Err: the process exits.
Refused ==
    /\ phase = "auth" /\ link[conn] = "up" /\ auth[conn] = "no"
    /\ phase' = "exited"
    /\ ProcessEnds

NoticeDeadLink ==
    /\ phase \in {"auth", "up"} /\ link[conn] = "down"
    /\ phase' = "idle" /\ conn' = NoConn
    /\ UNCHANGED <<ledgerVars, httpVars, connVars, rt, taskVars>>

\* heartbeat_loop takes the notification of a changed token and returns.
Reauth ==
    /\ phase = "up" /\ rt.reauth /\ beat[conn] = "none"
    /\ phase' = "idle" /\ conn' = NoConn
    /\ rt' = [rt EXCEPT !.reauth = FALSE]
    /\ UNCHANGED <<ledgerVars, httpVars, connVars, taskVars>>

\* cleanup_connection
Cleanup(c) ==
    /\ link[c] = "down" /\ auth[c] \in {"ok", "no"}
    /\ auth'    = [auth EXCEPT ![c] = "none"]
    /\ session' = IF session = c THEN NoConn ELSE session
    /\ UNCHANGED <<ledgerVars, httpVars, cred, beat, carried, link, agentVars,
                   taskVars>>

-----------------------------------------------------------------------------
(* The agent's pull after it authenticated: pull_spec, handle_agent_spec   *)

PullRead ==
    /\ phase = "pull" /\ link[conn] = "up" /\ task[Pull] = "none"
    /\ arg'  = [arg EXCEPT ![Pull] = desired]
    /\ task' = [task EXCEPT ![Pull] = "sent"]
    /\ UNCHANGED <<ledgerVars, httpVars, connVars, agentVars, reply>>

PullDone ==
    /\ phase = "pull" /\ task[Pull] = "acked"
    /\ phase' = "up"
    /\ task'  = [task EXCEPT ![Pull] = "none"]
    /\ UNCHANGED <<ledgerVars, httpVars, connVars, conn, rt, arg, reply>>

PullFails_Retries ==
    /\ phase = "pull" /\ link[conn] = "down" /\ task[Pull] = "sent"
    /\ task' = [task EXCEPT ![Pull] = "none"]
    /\ arg'  = [arg EXCEPT ![Pull] = NoSpec]
    /\ UNCHANGED <<ledgerVars, httpVars, connVars, agentVars, reply>>

\* The RPC failed; heartbeat_loop starts all the same.
PullFails ==
    /\ phase = "pull" /\ link[conn] = "down" /\ task[Pull] \in {"none", "sent"}
    /\ phase' = "up"
    /\ task'  = [task EXCEPT ![Pull] = "none"]
    /\ arg'   = [arg EXCEPT ![Pull] = NoSpec]
    /\ UNCHANGED <<ledgerVars, httpVars, connVars, conn, rt, reply>>

-----------------------------------------------------------------------------
(* Applying a spec: apply_push, apply_local_file, apply_spec               *)

Arrives(t) ==
    /\ task[t] = "sent" /\ Calm
    /\ IF t = Pull THEN link[conn] = "up" ELSE link[via[t]] = "up"

\* No desired spec: keep what there is, replay its items, report it.
ApplyNothing(t) ==
    /\ Arrives(t) /\ arg[t] = NoSpec
    /\ rt'   = [rt EXCEPT !.running = rt.applied.items, !.pending = MaxReports]
    /\ task' = [task EXCEPT ![t] = "remember"]
    /\ UNCHANGED <<ledgerVars, httpVars, connVars, phase, conn, arg, reply>>

ApplyAgain_NoReplay(t) ==
    /\ Arrives(t) /\ arg[t] # NoSpec /\ arg[t] = rt.rev
    /\ task' = [task EXCEPT ![t] = "remember"]
    /\ UNCHANGED <<ledgerVars, httpVars, connVars, agentVars, arg, reply>>

\* The same revision: replay_applied_items, for a supervisor that is new.
ApplyAgain(t) ==
    /\ Arrives(t) /\ arg[t] # NoSpec /\ arg[t] = rt.rev
    /\ rt'   = [rt EXCEPT !.running = rt.applied.items]
    /\ task' = [task EXCEPT ![t] = "remember"]
    /\ UNCHANGED <<ledgerVars, httpVars, connVars, phase, conn, arg, reply>>

ApplyNew(t) ==
    /\ Arrives(t) /\ arg[t] # NoSpec /\ arg[t] # rt.rev
    /\ task' = [task EXCEPT ![t] = "enforce"]
    /\ UNCHANGED <<ledgerVars, httpVars, connVars, agentVars, arg, reply>>

\* SIGHUP: the file's parameters, with the items there are.  Bound: one per
\* life of the agent process.
ReloadFile ==
    /\ "reload" \in Faults /\ phase # "exited" /\ task[Reload] = "none" /\ Calm
    /\ arg'  = [arg EXCEPT ![Reload] = [params |-> FileParams, items |-> rt.applied.items,
                                        token |-> FileToken]]
    /\ task' = [task EXCEPT ![Reload] = "enforce"]
    /\ UNCHANGED <<ledgerVars, httpVars, connVars, agentVars, reply>>

\* The first half of apply_spec: executor, OTLP, collectors, token.
Enforce(t) ==
    LET token == IF arg[t].token = NoToken THEN rt.token ELSE arg[t].token IN
    /\ task[t] = "enforce"
    /\ rt'   = [rt EXCEPT !.running = arg[t].items, !.token = token,
                          !.reauth = @ \/ token # rt.token]
    /\ task' = [task EXCEPT ![t] = "snapshot"]
    /\ UNCHANGED <<ledgerVars, httpVars, connVars, phase, conn, arg, reply>>

\* ... and its last statement.
Snapshot(t) ==
    /\ task[t] = "snapshot"
    /\ rt'   = [rt EXCEPT !.applied = [params |-> arg[t].params, items |-> arg[t].items]]
    /\ task' = [task EXCEPT ![t] = "commit"]
    /\ UNCHANGED <<ledgerVars, httpVars, connVars, phase, conn, arg, reply>>

RevisionOf_Kept(t) == IF t = Reload THEN rt.rev ELSE arg[t]

\* What was applied from the file has no revision.
RevisionOf(t) == IF t = Reload THEN NoSpec ELSE arg[t]

Commit(t) ==
    /\ task[t] = "commit"
    /\ rt'   = [rt EXCEPT !.rev = RevisionOf(t), !.pending = MaxReports]
    /\ task' = [task EXCEPT ![t] = "remember"]
    /\ UNCHANGED <<ledgerVars, httpVars, connVars, phase, conn, arg, reply>>

\* build_ack and remember
Remember(t) ==
    LET ack == [rev |-> RevisionOf(t), applied |-> rt.applied] IN
    /\ task[t] = "remember"
    /\ rt'    = [rt EXCEPT !.lastAck = ack]
    /\ reply' = [q \in Pushes |-> IF q = t /\ push[q] = "calling" THEN ack ELSE reply[q]]
    /\ task'  = [task EXCEPT ![t] = "acked"]
    /\ arg'   = [arg EXCEPT ![t] = NoSpec]
    /\ UNCHANGED <<ledgerVars, httpVars, connVars, phase, conn>>

-----------------------------------------------------------------------------
(* Heartbeats and the reports they carry                                   *)

\* heartbeat_loop, pending_ack
BeatSend ==
    /\ phase = "up" /\ link[conn] = "up" /\ beat[conn] = "none"
    /\ carried' = [carried EXCEPT ![conn] = IF rt.pending > 0 THEN rt.lastAck ELSE NoAck]
    /\ beat'    = [beat EXCEPT ![conn] = "sent"]
    /\ UNCHANGED <<ledgerVars, httpVars, session, auth, cred, link, agentVars, taskVars>>

\* record_spec_report(force = false): nothing to do for what is stored already.
BeatCheck(c) ==
    /\ beat[c] = "sent"
    /\ beat' = [beat EXCEPT ![c] = IF carried[c] \in {NoAck, stored} THEN "synced" ELSE "store"]
    /\ UNCHANGED <<ledgerVars, httpVars, session, auth, cred, carried, link,
                   agentVars, taskVars>>

BeatStore(c) ==
    /\ beat[c] = "store"
    /\ stored' = carried[c]
    /\ beat'   = [beat EXCEPT ![c] = "synced"]
    /\ UNCHANGED <<desired, tokens, httpVars, session, auth, cred, carried, link,
                   agentVars, taskVars>>

BeatStoreFails(c) ==
    /\ "rowerror" \in Faults /\ beat[c] = "store"
    /\ beat' = [beat EXCEPT ![c] = "unsynced"]
    /\ UNCHANGED <<ledgerVars, httpVars, session, auth, cred, carried, link,
                   agentVars, taskVars>>

\* confirm_report, decay_report
ReportsLeft_NoDecay(c) ==
    IF carried[c] # NoAck /\ beat[c] = "synced" THEN 0 ELSE rt.pending

ReportsLeft(c) ==
    IF carried[c] = NoAck \/ rt.pending = 0 THEN rt.pending
    ELSE IF beat[c] = "synced" THEN 0
    ELSE rt.pending - 1

BeatAnswered ==
    /\ phase = "up" /\ link[conn] = "up" /\ beat[conn] \in {"synced", "unsynced"}
    /\ rt'   = [rt EXCEPT !.pending = ReportsLeft(conn)]
    /\ beat' = [beat EXCEPT ![conn] = "none"]
    /\ carried' = [carried EXCEPT ![conn] = NoAck]
    /\ UNCHANGED <<ledgerVars, httpVars, session, auth, cred, link, phase,
                   conn, taskVars>>

\* The answer of a heartbeat whose connection is gone is lost.
BeatLost(c) ==
    /\ link[c] = "down" /\ beat[c] \in {"synced", "unsynced"}
    /\ beat' = [beat EXCEPT ![c] = "none"]
    /\ carried' = [carried EXCEPT ![c] = NoAck]
    /\ UNCHANGED <<ledgerVars, httpVars, session, auth, cred, link,
                   agentVars, taskVars>>

-----------------------------------------------------------------------------
(* Faults                                                                  *)

LinkDrop(c) ==
    /\ "drop" \in Faults /\ link[c] = "up"
    /\ link' = [link EXCEPT ![c] = "down"]
    /\ UNCHANGED <<ledgerVars, httpVars, session, auth, cred, beat, carried,
                   agentVars, taskVars>>

\* Everything the agent was told is in memory: it comes back with its file.
AgentRestart ==
    /\ phase = "exited" \/ "crash" \in Faults
    /\ phase' = "idle"
    /\ ProcessEnds

ServerRestart ==
    /\ "restart" \in Faults
    /\ session' = NoConn
    /\ link' = [c \in Conns |-> "down"]
    /\ auth' = [c \in Conns |-> "none"]
    /\ beat' = [c \in Conns |-> "none"]
    /\ put'  = [p \in Puts |-> IF put[p] = "none" THEN "none" ELSE "done"]
    /\ push' = [q \in Pushes |-> IF push[q] = "none" THEN "none" ELSE "done"]
    /\ UNCHANGED <<ledgerVars, draft, via, cred, carried, agentVars, taskVars>>

-----------------------------------------------------------------------------
PutStep(p) ==
    PutRead(p) \/ PutSave(p) \/ PutCompare(p) \/ PutRotate(p) \/ PutHangsUp(p)

PushStep(q) ==
    \/ PushRead(q) \/ PushCall(q) \/ PushAcked(q)
    \/ PushFails(q) \/ PushRecord(q) \/ PushHangsUp(q)

AuthStep(c) == AuthVerify(c) \/ AuthClear(c) \/ AuthAccept(c)

ConnectStep ==
    \/ \E c \in Conns : Dial(c)
    \/ Accepted \/ Refused \/ NoticeDeadLink \/ Reauth
    \/ PullRead \/ PullDone \/ PullFails

ApplyStep(t) ==
    \/ t # Reload /\ (ApplyNothing(t) \/ ApplyAgain(t) \/ ApplyNew(t))
    \/ Enforce(t) \/ Snapshot(t) \/ Commit(t) \/ Remember(t)

BeatStep(c) == BeatCheck(c) \/ BeatStore(c) \/ BeatStoreFails(c) \/ BeatLost(c)

Next ==
    \/ \E p \in Puts : PutStep(p)
    \/ \E q \in Pushes : PushStep(q)
    \/ \E c \in Conns : AuthStep(c) \/ Cleanup(c) \/ BeatStep(c) \/ LinkDrop(c)
    \/ ConnectStep
    \/ \E t \in Tasks : ApplyStep(t)
    \/ ReloadFile
    \/ BeatSend \/ BeatAnswered
    \/ AgentRestart \/ ServerRestart

Spec == Init /\ [][Next]_vars

\* tokio runs every ready handler and task, a dead connection is noticed, and
\* a live agent keeps heartbeating; the wait between two heartbeats takes a
\* notification that is there (hence SF).  Nobody has to send requests or hang
\* up, and no fault has to happen.
Fairness ==
    /\ \A p \in Puts : WF_vars(PutSave(p) \/ PutCompare(p) \/ PutRotate(p))
    /\ \A q \in Pushes :
        WF_vars(PushCall(q) \/ PushAcked(q) \/ PushFails(q) \/ PushRecord(q))
    /\ \A c \in Conns :
        WF_vars(AuthStep(c)) /\ WF_vars(Cleanup(c)) /\ WF_vars(BeatStep(c))
    /\ \A t \in Tasks : WF_vars(ApplyStep(t))
    /\ WF_vars(ConnectStep) /\ SF_vars(Reauth)
    /\ WF_vars(BeatSend) /\ WF_vars(BeatAnswered)

FairSpec == Spec /\ Fairness

-----------------------------------------------------------------------------
(* Safety                                                                  *)

\* What sync_status calls "synced" is true: a stored report that names the
\* desired revision shows that spec's parameters and items as applied
\* (apply_push, apply_local_file, record_spec_report).
SyncedMeansApplied ==
    desired # NoSpec /\ stored # NoAck /\ stored.rev = desired
        => stored.applied = [params |-> desired.params, items |-> desired.items]

\* After every reconnect the collectors of what is applied run again, although
\* the new supervisor starts with none and the spec did not change
\* (replay_applied_items).
CollectorsRunApplied ==
    (phase = "up" /\ link[conn] = "up" /\ \A t \in Tasks : ~ Busy(t))
        => rt.running = rt.applied.items

-----------------------------------------------------------------------------
(* Liveness                                                                *)

\* Reconnecting converges: once the PUTs are over, an agent that comes to pull
\* gets to the desired spec, unless its connection does not last (pull_spec).
ReconnectConverges ==
    (phase = "pull" /\ task[Pull] = "none" /\ desired # NoSpec /\ \A p \in Puts : put[p] = "done")
        ~> (rt.rev = desired \/ phase \in {"idle", "exited"})

\* Reporting ends: an agent that stays connected and is told nothing new stops
\* repeating a report, stored or not (decay_report, confirm_report).
ReportingEnds ==
    rt.pending > 0 ~> (rt.pending = 0 \/ phase # "up" \/ \E t \in Tasks : Busy(t))

-----------------------------------------------------------------------------
(* What the documents say and the code does not do                         *)

\* gse-agent-config-center/requirements.md, Requirement 7: rotating a token
\* never locks an agent out.
NotLockedOut == phase # "exited"

=============================================================================
