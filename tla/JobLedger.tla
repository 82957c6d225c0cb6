----------------------------- MODULE JobLedger -----------------------------
(***************************************************************************)
(* The `status` column of the `jobs` table of gse-server's sqlite ledger   *)
(* (crates/gse-server-core/src/ledger.rs).  Every operator is one UPDATE,  *)
(* hence atomic; its WHERE clause is what makes a final status final.      *)
(* A job that has no row is "none", and an UPDATE leaves it alone.         *)
(***************************************************************************)

InFlight == {"pending", "dispatched", "running"}

Outcomes == {"succeeded", "failed", "timeout"}

Final == Outcomes \cup {"rejected", "lost"}

JobStatuses == InFlight \cup Final

\* insert_job; the job id is fresh.
InsertJob(job, j) == [job EXCEPT ![j] = "pending"]

\* UPDATE jobs SET status = .. WHERE job_id = j AND status NOT IN (final ones)
SetUnlessFinal_NoGuard(job, j, value) ==
    IF job[j] = "none" THEN job ELSE [job EXCEPT ![j] = value]

SetUnlessFinal(job, j, value) ==
    IF job[j] \in InFlight THEN [job EXCEPT ![j] = value] ELSE job

MarkRunning(job, j)   == SetUnlessFinal(job, j, "running")
MarkRejected(job, j)  == SetUnlessFinal(job, j, "rejected")
FinishJob(job, j, status) == SetUnlessFinal(job, j, status)

MarkLostAmong_OnlyRunning(job, S) ==
    [j \in DOMAIN job |->
        IF j \in S /\ job[j] = "running" THEN "lost" ELSE job[j]]

\* mark_lost_by_agent over the agent's jobs, and, over all jobs,
\* mark_lost_inflight_on_startup.
MarkLostAmong(job, S) ==
    [j \in DOMAIN job |->
        IF j \in S /\ job[j] \in InFlight THEN "lost" ELSE job[j]]
=============================================================================
