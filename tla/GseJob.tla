------------------------------ MODULE GseJob -------------------------------
(***************************************************************************)
(* Script jobs: submitted over HTTP, recorded in the ledger, dispatched to *)
(* the agent over its session, executed there under a concurrency limit,   *)
(* and reported back.  The session layer runs underneath, unchanged; its   *)
(* steps that touch jobs (a liveness scan giving up an agent's jobs, an    *)
(* agent process dying, the server restarting) are extended here.          *)
(*                                                                         *)
(* Source: submit_job_with_source, dispatch_job, handle_job_result and     *)
(* run_liveness of crates/gse-server-core/src/server.rs; JobExecutor of    *)
(* crates/gse-agent-core/src/job.rs.                                       *)
(***************************************************************************)
EXTENDS GseSession, JobLedger

CONSTANTS
    Jobs,          \* job ids
    Target,        \* Target[j]: the agent_id column of the job's row
    UpgradeJobs,   \* those whose kind is "agent_upgrade"
    MaxConcurrent  \* max_concurrent_jobs of every agent

ASSUME TargetAssumption == Target \in [Jobs -> Agents]
ASSUME UpgradeJobsAssumption == UpgradeJobs \subseteq Jobs
ASSUME MaxConcurrentAssumption == MaxConcurrent \in Nat \ {0}

VARIABLES
    job,      \* ledger: jobs.status
    sub,      \* server: pc of the HTTP request that submits the job
    via,      \* the connection of the session dispatch_job found
    call,     \* the job_exec RPC on it
    run,      \* agent: the job's task
    outcome   \* how the run ended

jobVars == <<job, sub, via, call, run, outcome>>
vars    == <<sessionVars, jobVars>>

SubSteps == {"none", "checked", "inserted", "calling", "accepted", "rejected",
             "losing", "done", "aborted"}
Calls    == {"none", "sent", "accepted", "rejected"}
Runs     == {"none", "running", "reporting", "reported", "over", "killed"}

JobTypeOK ==
    /\ SessionTypeOK
    /\ job     \in [Jobs -> JobStatuses \cup {"none"}]
    /\ sub     \in [Jobs -> SubSteps]
    /\ via     \in [Jobs -> Conns \cup {NoConn}]
    /\ call    \in [Jobs -> Calls]
    /\ run     \in [Jobs -> Runs]
    /\ outcome \in [Jobs -> Outcomes \cup {"none"}]

Init ==
    /\ SessionInit
    /\ job     = [j \in Jobs |-> "none"]
    /\ sub     = [j \in Jobs |-> "none"]
    /\ via     = [j \in Jobs |-> NoConn]
    /\ call    = [j \in Jobs |-> "none"]
    /\ run     = [j \in Jobs |-> "none"]
    /\ outcome = [j \in Jobs |-> "none"]

JobsOf(a) == {j \in Jobs : Target[j] = a}

-----------------------------------------------------------------------------
(* The server: submit_job_with_source and dispatch_job                     *)

\* The request passed its checks; registry.get found the agent Online.
SubmitCheck(j) ==
    /\ sub[j] = "none" /\ IsOnline(reg, Target[j])
    /\ sub' = [sub EXCEPT ![j] = "checked"]
    /\ UNCHANGED <<sessionVars, job, via, call, run, outcome>>

SubmitInsert(j) ==
    /\ sub[j] = "checked"
    /\ job' = InsertJob(job, j)
    /\ sub' = [sub EXCEPT ![j] = "inserted"]
    /\ UNCHANGED <<sessionVars, via, call, run, outcome>>

Dispatch_RunningEarly(j) ==
    /\ sub[j] = "inserted" /\ IsOnline(reg, Target[j])
    /\ job'  = MarkRunning(job, j)
    /\ sub'  = [sub EXCEPT ![j] = "calling"]
    /\ via'  = [via EXCEPT ![j] = reg[Target[j]].client]
    /\ call' = [call EXCEPT ![j] = "sent"]
    /\ UNCHANGED <<sessionVars, run, outcome>>

\* dispatch_job asks the registry again, then calls job_exec on what it got.
Dispatch(j) ==
    /\ sub[j] = "inserted"
    /\ IF IsOnline(reg, Target[j])
         THEN /\ sub'  = [sub EXCEPT ![j] = "calling"]
              /\ via'  = [via EXCEPT ![j] = reg[Target[j]].client]
              /\ call' = [call EXCEPT ![j] = "sent"]
         ELSE /\ sub'  = [sub EXCEPT ![j] = "losing"]
              /\ UNCHANGED <<via, call>>
    /\ UNCHANGED <<sessionVars, job, run, outcome>>

\* The agent's JobAck arrives.
AckArrives(j) ==
    /\ sub[j] = "calling" /\ call[j] \in {"accepted", "rejected"}
    /\ link[via[j]] = "up"
    /\ sub' = [sub EXCEPT ![j] = call[j]]
    /\ UNCHANGED <<sessionVars, job, via, call, run, outcome>>

CallFails_OnTimeoutOnly(j) ==
    /\ sub[j] = "calling" /\ "slowcall" \in Faults
    /\ sub' = [sub EXCEPT ![j] = "losing"]
    /\ UNCHANGED <<sessionVars, job, via, call, run, outcome>>

\* The RPC errs on a dead connection, or outlives timeout_secs + 10.
CallFails(j) ==
    /\ sub[j] = "calling" /\ (link[via[j]] = "down" \/ "slowcall" \in Faults)
    /\ sub' = [sub EXCEPT ![j] = "losing"]
    /\ UNCHANGED <<sessionVars, job, via, call, run, outcome>>

RecordRunning(j) ==
    /\ sub[j] = "accepted"
    /\ job' = MarkRunning(job, j)
    /\ sub' = [sub EXCEPT ![j] = "done"]
    /\ UNCHANGED <<sessionVars, via, call, run, outcome>>

RecordRejected(j) ==
    /\ sub[j] = "rejected"
    /\ job' = MarkRejected(job, j)
    /\ sub' = [sub EXCEPT ![j] = "done"]
    /\ UNCHANGED <<sessionVars, via, call, run, outcome>>

RecordLost_AsRejected(j) ==
    /\ sub[j] = "losing"
    /\ job' = MarkRejected(job, j)
    /\ sub' = [sub EXCEPT ![j] = "done"]
    /\ UNCHANGED <<sessionVars, via, call, run, outcome>>

RecordLost_AsTimeout(j) ==
    /\ sub[j] = "losing"
    /\ job' = SetUnlessFinal(job, j, "timeout")
    /\ sub' = [sub EXCEPT ![j] = "done"]
    /\ UNCHANGED <<sessionVars, via, call, run, outcome>>

\* mark_lost_by_agent: every job in flight on that agent, not only this one.
RecordLost(j) ==
    /\ sub[j] = "losing"
    /\ job' = MarkLostAmong(job, JobsOf(Target[j]))
    /\ sub' = [sub EXCEPT ![j] = "done"]
    /\ UNCHANGED <<sessionVars, via, call, run, outcome>>

\* The HTTP client hangs up: hyper drops the handler's future at its await.
ClientHangsUp(j) ==
    /\ "hangup" \in Faults
    /\ sub[j] \notin {"none", "done", "aborted"}
    /\ sub' = [sub EXCEPT ![j] = "aborted"]
    /\ UNCHANGED <<sessionVars, job, via, call, run, outcome>>

-----------------------------------------------------------------------------
(* The agent: JobExecutor                                                  *)

Running(a) == {j \in JobsOf(a) : run[j] = "running"}

\* handle_exec takes a permit and spawns the job's task ...
ExecAccept(j) ==
    /\ call[j] = "sent" /\ link[via[j]] = "up" /\ j \notin UpgradeJobs
    /\ Cardinality(Running(Target[j])) < MaxConcurrent
    /\ call' = [call EXCEPT ![j] = "accepted"]
    /\ run'  = [run EXCEPT ![j] = "running"]
    /\ UNCHANGED <<sessionVars, job, sub, via, outcome>>

\* ... or, for an upgrade, only installs a cron entry: there is no task ...
ExecAcceptUpgrade(j) ==
    /\ call[j] = "sent" /\ link[via[j]] = "up" /\ j \in UpgradeJobs
    /\ call' = [call EXCEPT ![j] = "accepted"]
    /\ UNCHANGED <<sessionVars, job, sub, via, run, outcome>>

\* ... or refuses: bad payload, interpreter not allowed, busy, bad upgrade.
ExecReject(j) ==
    /\ call[j] = "sent" /\ link[via[j]] = "up"
    /\ call' = [call EXCEPT ![j] = "rejected"]
    /\ UNCHANGED <<sessionVars, job, sub, via, run, outcome>>

JobEnds_ReportFirst(j) ==
    /\ run[j] = "running" /\ outcome[j] = "none"
    /\ \E o \in Outcomes : outcome' = [outcome EXCEPT ![j] = o]
    /\ job' = FinishJob(job, j, outcome'[j])
    /\ UNCHANGED <<sessionVars, sub, via, call, run>>

\* run_job returns; the permit is dropped before the result is sent.
JobEnds(j) ==
    /\ run[j] = "running"
    /\ \E o \in Outcomes : outcome' = [outcome EXCEPT ![j] = o]
    /\ run' = [run EXCEPT ![j] = "reporting"]
    /\ UNCHANGED <<sessionVars, job, sub, via, call>>

\* send_result: one attempt, on the connection the job came by.
SendResult(j) ==
    /\ run[j] = "reporting"
    /\ run' = [run EXCEPT ![j] = IF link[via[j]] = "up" THEN "reported" ELSE "over"]
    /\ UNCHANGED <<sessionVars, job, sub, via, call, outcome>>

\* The server's job_result handler: only the job's own agent may finish it.
HandleJobResult(j) ==
    /\ run[j] = "reported"
    /\ job' = IF authed[via[j]] /\ Dialer[via[j]] = Target[j]
                THEN FinishJob(job, j, outcome[j]) ELSE job
    /\ run' = [run EXCEPT ![j] = "over"]
    /\ UNCHANGED <<sessionVars, sub, via, call, outcome>>

-----------------------------------------------------------------------------
(* Session steps that touch jobs                                           *)

LivenessGivesUp_Nothing(a) ==
    /\ ScanMarkLost(a)
    /\ UNCHANGED jobVars

LivenessGivesUp(a) ==
    /\ ScanMarkLost(a)
    /\ job' = MarkLostAmong(job, JobsOf(a))
    /\ UNCHANGED <<sub, via, call, run, outcome>>

\* The tasks of the agent's jobs die with its process.
KillJobs(a) ==
    /\ run' = [j \in Jobs |->
                  IF Target[j] = a /\ run[j] \in {"running", "reporting"}
                    THEN "killed" ELSE run[j]]
    /\ UNCHANGED <<job, sub, via, call, outcome>>

AgentDies(a) == AgentCrash(a) /\ KillJobs(a)

\* An agent whose credentials are refused exits.
AgentChecked(c) ==
    /\ AuthVerify(c)
    /\ IF phase'[Dialer[c]] = "exited" /\ phase[Dialer[c]] # "exited"
         THEN KillJobs(Dialer[c]) ELSE UNCHANGED jobVars

\* bind() gives up every job in flight before it listens again.
ServerComesBack ==
    /\ ServerRestart
    /\ job' = MarkLostAmong(job, Jobs)
    /\ sub' = [j \in Jobs |-> IF sub[j] \in {"none", "done"} THEN sub[j] ELSE "aborted"]
    /\ run' = [j \in Jobs |-> IF run[j] = "reported" THEN "over" ELSE run[j]]
    /\ UNCHANGED <<via, call, outcome>>

-----------------------------------------------------------------------------
ServerJobStep(j) ==
    \/ SubmitCheck(j) \/ SubmitInsert(j) \/ Dispatch(j)
    \/ AckArrives(j) \/ CallFails(j)
    \/ RecordRunning(j) \/ RecordRejected(j) \/ RecordLost(j)

AgentJobStep(j) ==
    \/ ExecAccept(j) \/ ExecAcceptUpgrade(j) \/ ExecReject(j)
    \/ JobEnds(j) \/ SendResult(j)

JobStep(j) ==
    ServerJobStep(j) \/ AgentJobStep(j) \/ HandleJobResult(j) \/ ClientHangsUp(j)

Next ==
    \/ SessionOnlyStep /\ UNCHANGED jobVars
    \/ \E j \in Jobs : JobStep(j)
    \/ \E a \in Agents : AgentDies(a) \/ LivenessGivesUp(a)
    \/ \E c \in Conns : AgentChecked(c)
    \/ ServerComesBack

Spec == Init /\ [][Next]_vars

\* The session layer's fairness, read over all variables, plus: handlers and
\* tasks run, an agent answers job_exec on a live link, and a script ends (its
\* timeout sees to that).  Nobody has to submit a job or hang up.
Fairness ==
    /\ \A a \in Agents :
        /\ WF_vars(Dial(a) /\ UNCHANGED jobVars)
        /\ WF_vars(AuthReplied(a) /\ UNCHANGED jobVars)
        /\ WF_vars(SendHeartbeat(a) /\ UNCHANGED jobVars)
        /\ WF_vars(NoticeDeadLink(a) /\ UNCHANGED jobVars)
        /\ WF_vars(SilenceNoticed(a) /\ UNCHANGED jobVars)
        /\ WF_vars(ScanMarkOffline(a) /\ UNCHANGED jobVars)
        /\ WF_vars(LivenessGivesUp(a))
    /\ \A c \in Conns :
        /\ WF_vars(AgentChecked(c))
        /\ WF_vars(HandlerStep(c) /\ UNCHANGED jobVars)
        /\ WF_vars((CleanupRemove(c) \/ CleanupMarkOffline(c)) /\ UNCHANGED jobVars)
        /\ WF_vars(ProbeFail(c) /\ link[c] = "down" /\ UNCHANGED jobVars)
    /\ WF_vars(ScanAdvance /\ UNCHANGED jobVars)
    /\ WF_vars(ScanList /\ UNCHANGED jobVars)
    /\ \A j \in Jobs :
        /\ WF_vars(sub[j] # "none" /\ ServerJobStep(j))
        /\ WF_vars(ExecAccept(j) \/ ExecAcceptUpgrade(j) \/ ExecReject(j))
        /\ WF_vars(JobEnds(j)) /\ WF_vars(SendResult(j)) /\ WF_vars(HandleJobResult(j))

FairSpec == Spec /\ Fairness

-----------------------------------------------------------------------------
(* Safety                                                                  *)

\* A recorded outcome is how the job really ended on its agent: no timeout,
\* scan, restart or late result makes one up (finish_job, mark_lost_*).
RecordedOutcomeIsReal ==
    \A j \in Jobs : job[j] \in Outcomes => job[j] = outcome[j]

\* A job recorded as rejected was not run, and is not going to be: the
\* operator may submit it again (dispatch_job, JobExecutor::handle_exec).
RejectedNeverRuns ==
    \A j \in Jobs :
        job[j] = "rejected" => run[j] = "none" /\ call[j] = "rejected"

\* The ledger says "running" only of a job its agent took, on a connection
\* authenticated as that agent (dispatch_job).
RunningWasTaken ==
    \A j \in Jobs :
        job[j] = "running" => call[j] = "accepted" /\ Dialer[via[j]] = Target[j]

\* When the submitting request is answered, the job's fate is known: taken,
\* refused, lost or already over, never still pending, whichever of the ack,
\* the result and the liveness scan came first (submit_job_with_source).
AnsweredSubmissionIsDecided ==
    \A j \in Jobs : sub[j] = "done" => job[j] \in Final \cup {"running"}

\* Whoever reads a result can submit the next job without meeting "busy":
\* the permit is back before the result can be seen (the task spawned by
\* JobExecutor::handle_exec).
ResultMeansPermitBack ==
    \A j \in Jobs : job[j] \in Outcomes => j \notin Running(Target[j])

\* The ledger and the agents together implement the job life cycle.
Lifecycle == INSTANCE JobLifecycle
ImplementsLifecycle == Lifecycle!Spec

-----------------------------------------------------------------------------
(* Liveness                                                                *)

\* While the registry holds an Offline session of its agent, a job does not
\* stay in flight (run_liveness, mark_lost_by_agent).
OfflineAgentsJobsEnd ==
    \A j \in Jobs :
        (job[j] \in InFlight /\ reg[Target[j]].state = "offline")
            ~> (job[j] \in Final \/ reg[Target[j]].state # "offline")

\* The request that submits a job is answered (dispatch_job: the agent's ack,
\* a failed call and a session that went away all lead to an answer).
SubmissionIsAnswered ==
    \A j \in Jobs : sub[j] # "none" ~> sub[j] \in {"done", "aborted"}

-----------------------------------------------------------------------------
(* What the documents say and the code does not do                         *)

\* gse-job-execution/design.md: after a session went offline or the server
\* restarted, no job stays pending, dispatched or running.
JobsDoNotHang ==
    \A j \in Jobs : job[j] \in InFlight ~> job[j] \in Final

\* gse-job-execution/design.md, job state machine: running goes to lost only
\* by "agent offline/restart", not while the job runs on a connected agent.
RunningLostOnlyWithAgent ==
    [][\A j \in Jobs :
        (job[j] = "running" /\ job'[j] = "lost") =>
            ~ (run[j] = "running" /\ link'[via[j]] = "up" /\ IsOnline(reg', Target[j]))]_vars

=============================================================================
