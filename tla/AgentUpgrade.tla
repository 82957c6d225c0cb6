----------------------------- MODULE AgentUpgrade -----------------------------
(***************************************************************************)
(* The self-update of gse-agent (gse-agent-core/src/upgrade.rs).  The      *)
(* agent checks the new binary, writes a script to a fixed path and a cron *)
(* line; cron runs the script, which stops the agent, replaces its binary, *)
(* starts it and writes the outcome to a file; the agent's heartbeat       *)
(* carries that outcome to the server, which keeps the last one.           *)
(*                                                                         *)
(* A binary is "old", "new" or "half", a copy that failed part-way.  `fit` *)
(* says what the new one does: run, die at once, or die some seconds       *)
(* later.  `odd` remembers what disturbed the update; the host goes down,  *)
(* a command or the database fails and the file is written anew only while *)
(* nothing has: two disturbances at a time are not explored.               *)
(***************************************************************************)
EXTENDS Integers, FiniteSets

CONSTANTS
    MaxJobs,   \* bound on the upgrade jobs the agent answers
    MaxRuns,   \* bound on the runs of the script
    Absent     \* no file, no process, no answer

ASSUME UpgradeAssumption == {MaxJobs, MaxRuns} \subseteq Nat

VARIABLES
    kind,     \* "systemd" or "direct" (ctl.sh)
    fit,      \* what the new binary does: "good", "late" or "bad"
    staged,   \* the file at binary_path
    bin,      \* the installed binary
    up,       \* the binary that runs, or Absent
    wanted,   \* systemd: whether the unit is started
    backups,  \* the backup of each accepted job
    before,   \* the binary installed when each job was accepted
    jobs,     \* jobs answered
    script,   \* the job whose script is at the fixed path
    line,     \* whether the cron line is there
    started,  \* the jobs whose script was run
    proc,     \* the runs of the script
    result,   \* the result file
    beat,     \* the run whose result a heartbeat carries, or Absent
    stored,   \* the results the server stored
    odd

deployVars  == <<kind, fit, staged, bin, up, wanted, backups>>
requestVars == <<before, jobs, script, line, started>>
reportVars  == <<result, beat, stored>>
upgradeVars == <<deployVars, requestVars, proc, reportVars, odd>>

Runs == 1..MaxRuns

Idle == [step |-> "idle", job |-> 0, outcome |-> Absent, detail |-> Absent]

Active == {r \in Runs : proc[r].step \notin {"idle", "done"}}

\* What a binary does when it is started.
FitOf(b) == IF b = "old" THEN "good" ELSE IF b = "new" THEN fit ELSE "bad"

UpgradeInit ==
    /\ kind \in {"systemd", "direct"} /\ fit \in {"good", "late", "bad"}
    /\ staged = "new" /\ bin = "old" /\ up = "old" /\ wanted = TRUE
    /\ backups = [j \in 1..MaxJobs |-> Absent] /\ before = [j \in 1..MaxJobs |-> Absent]
    /\ jobs = 0 /\ script = 0 /\ line = FALSE /\ started = {}
    /\ proc = [r \in Runs |-> Idle]
    /\ result = [run |-> 0, outcome |-> Absent, reported |-> TRUE]
    /\ beat = Absent /\ stored = {} /\ odd = {}

-----------------------------------------------------------------------------
(* The agent takes the job.                                                *)

\* The file is there and has the sha256 of the job.
Verified == staged = "new"

\* The job is refused, before or after the script was written.
Refuse ==
    /\ jobs < MaxJobs /\ up # Absent
    /\ jobs' = jobs + 1
    /\ \/ UNCHANGED <<script, odd>>
       \/ Verified /\ script' = jobs + 1 /\ odd' = IF line THEN odd \cup {"twice"} ELSE odd
    /\ UNCHANGED <<deployVars, before, line, started, proc, reportVars>>

\* The job whose script is at the path after an acceptance.
Written == jobs + 1

\* The script and the cron line are written, over those of another job.
Accept ==
    /\ jobs < MaxJobs /\ up # Absent /\ Verified
    /\ jobs' = jobs + 1 /\ script' = Written /\ line' = TRUE
    /\ before' = [before EXCEPT ![jobs + 1] = bin]
    /\ odd' = IF Active # {} \/ line THEN odd \cup {"twice"} ELSE odd
    /\ UNCHANGED <<deployVars, started, proc, reportVars>>

\* Another transfer writes the file, while it matters.
Stage ==
    /\ odd = {} /\ (jobs < MaxJobs \/ line) /\ staged' \in {"half", "new"} \ {staged}
    /\ odd' = IF line \/ Active # {} THEN odd \cup {"restaged"} ELSE odd
    /\ UNCHANGED <<kind, fit, bin, up, wanted, backups, requestVars, proc, reportVars>>

-----------------------------------------------------------------------------
(* The script, run by cron each minute that finds its line.                *)

Cron ==
    /\ line
    /\ \E r \in Runs :
         /\ proc[r].step = "idle" /\ \A q \in 1..(r - 1) : proc[q].step # "idle"
         /\ proc' = [proc EXCEPT ![r] = [Idle EXCEPT !.step = "stop", !.job = script]]
    /\ started' = started \cup {script}
    /\ odd' = IF Active # {} \/ script \in started THEN odd \cup {"again"} ELSE odd
    /\ UNCHANGED <<deployVars, before, jobs, script, line, reportVars>>

\* The step after each that succeeds.
After == [stop |-> "backup", backup |-> "replace", replace |-> "chmod", chmod |-> "start",
          start |-> "check", restop |-> "restore", restore |-> "restart", restart |-> "recheck"]

To(r, s) == proc' = [proc EXCEPT ![r].step = s]

\* The detail of an outcome names the step that failed.
Fail(r, s) == proc' = [proc EXCEPT ![r].step = s, ![r].outcome = "failed", ![r].detail = proc[r].step]

\* The agent's heartbeat ends with its process.
Down == up' = Absent /\ wanted' = FALSE /\ beat' = Absent

\* Stopping fails only under systemd, and the agent runs on.
StopAgent(r, s) ==
    /\ proc[r].step = s
    /\ \/ Down /\ To(r, After[s])
       \/ /\ kind = "systemd" /\ odd = {} /\ UNCHANGED <<up, wanted, beat>>
          /\ IF s = "stop" THEN Fail(r, "abort") ELSE To(r, After[s])
    /\ UNCHANGED <<kind, fit, staged, bin, backups, requestVars, result, stored, odd>>

\* What the backup of a run is a copy of.
CopyOf(r) == bin

\* A copy that fails leaves part of a file.
Backup(r) ==
    /\ proc[r].step = "backup"
    /\ \/ backups' = [backups EXCEPT ![proc[r].job] = CopyOf(r)] /\ To(r, "replace")
       \/ odd = {} /\ backups' = [backups EXCEPT ![proc[r].job] = "half"] /\ Fail(r, "abort")
    /\ UNCHANGED <<kind, fit, staged, bin, up, wanted, requestVars, reportVars, odd>>

Replace(r) ==
    /\ proc[r].step = "replace"
    /\ \/ bin' = staged /\ To(r, "chmod")
       \/ odd = {} /\ bin' = "half" /\ Fail(r, "abort")
    /\ UNCHANGED <<kind, fit, staged, up, wanted, backups, requestVars, reportVars, odd>>

Chmod(r) ==
    /\ proc[r].step = "chmod"
    /\ To(r, "start") \/ (odd = {} /\ Fail(r, "abort"))
    /\ UNCHANGED <<deployVars, requestVars, reportVars, odd>>

\* ctl.sh looks after a second whether the process lives and fails if not;
\* systemctl starts the unit and answers at once.  A running agent is left.
Starts == up' = IF up # Absent THEN up ELSE IF kind = "direct" /\ FitOf(bin) = "bad" THEN Absent ELSE bin

StartAgent(r, s) ==
    /\ proc[r].step = s /\ Starts /\ wanted' = TRUE
    /\ IF s = "start" /\ up' = Absent THEN Fail(r, "abort") ELSE To(r, After[s])
    /\ UNCHANGED <<kind, fit, staged, bin, backups, requestVars, reportVars, odd>>

\* Five seconds later the process is looked for.
Check(r) ==
    /\ proc[r].step = "check"
    /\ proc' = [proc EXCEPT ![r].step = IF up # Absent THEN "write" ELSE "restop",
                            ![r].outcome = IF up # Absent THEN "succeeded" ELSE "rolled_back"]
    /\ UNCHANGED <<deployVars, requestVars, reportVars, odd>>

\* The copy of the backup is not looked at.
Restore(r) ==
    /\ proc[r].step = "restore" /\ To(r, "restart")
    /\ bin' \in {backups[proc[r].job]} \cup (IF odd = {} THEN {"half"} ELSE {})
    /\ odd' = IF bin' = "half" THEN odd \cup {"restore"} ELSE odd
    /\ UNCHANGED <<kind, fit, staged, up, wanted, backups, requestVars, reportVars>>

\* What the outcome is after the rollback.
Rechecked == IF up # Absent THEN "rolled_back" ELSE "failed"

Recheck(r) ==
    /\ proc[r].step = "recheck"
    /\ proc' = [proc EXCEPT ![r].step = "write", ![r].outcome = Rechecked]
    /\ UNCHANGED <<deployVars, requestVars, reportVars, odd>>

\* abort_after_stop starts what is installed and writes the outcome.
Abort(r) ==
    /\ proc[r].step = "abort" /\ Starts /\ wanted' = TRUE /\ To(r, "write")
    /\ UNCHANGED <<kind, fit, staged, bin, backups, requestVars, reportVars, odd>>

WriteResult(r) ==
    /\ proc[r].step = "write" /\ To(r, "clean")
    /\ result' = [run |-> r, outcome |-> proc[r].outcome, reported |-> FALSE]
    /\ odd' = IF beat # Absent THEN odd \cup {"overtaken"} ELSE odd
    /\ UNCHANGED <<deployVars, requestVars, beat, stored>>

\* The rest of the cron line removes every line of the script.
CleanUp(r) ==
    /\ proc[r].step = "clean" /\ To(r, "done") /\ line' = FALSE
    /\ UNCHANGED <<deployVars, before, jobs, script, started, reportVars, odd>>

\* The host goes down and comes up: the script ends where it is.
Reboot ==
    /\ Active # {} /\ odd = {} /\ odd' = {"reboot"}
    /\ proc' = [r \in Runs |-> IF r \in Active THEN [proc[r] EXCEPT !.step = "done"] ELSE proc[r]]
    /\ beat' = Absent /\ wanted' = (kind = "systemd")
    /\ up' = IF kind = "systemd" THEN bin ELSE Absent
    /\ UNCHANGED <<kind, fit, staged, bin, backups, requestVars, result, stored>>

Step(r) ==
    \/ \E s \in {"stop", "restop"} : StopAgent(r, s)
    \/ \E s \in {"start", "restart"} : StartAgent(r, s)
    \/ Backup(r) \/ Replace(r) \/ Chmod(r) \/ Check(r) \/ Restore(r) \/ Recheck(r) \/ Abort(r)
    \/ WriteResult(r) \/ CleanUp(r)

-----------------------------------------------------------------------------
(* The binary that runs.                                                   *)

\* A binary that is not good dies; systemd starts it again.
Dies ==
    /\ up # Absent /\ FitOf(up) # "good" /\ up' = Absent /\ beat' = Absent
    /\ UNCHANGED <<kind, fit, staged, bin, wanted, backups, requestVars, proc, result, stored, odd>>

Respawn ==
    /\ kind = "systemd" /\ wanted /\ up = Absent /\ up' = bin
    /\ UNCHANGED <<kind, fit, staged, bin, wanted, backups, requestVars, proc, reportVars, odd>>

\* A heartbeat carries the result that is not yet reported; the others do not
\* matter here.
Beat ==
    /\ up # Absent /\ FitOf(up) # "bad" /\ beat = Absent
    /\ ~result.reported /\ beat' = result.run
    /\ UNCHANGED <<deployVars, requestVars, proc, result, stored, odd>>

\* The server answers, also when it could not store the result.
Served ==
    /\ beat # Absent
    /\ \/ stored' = stored \cup {beat} /\ UNCHANGED odd
       \/ odd = {} /\ odd' = {"ledger"} /\ UNCHANGED stored
    /\ UNCHANGED <<deployVars, requestVars, proc, result, beat>>

\* Mutant of MarkedWhen: a heartbeat without an answer counts as reported.
MarkedWhen_Sent(answered) == TRUE

\* Whether the result is marked after a heartbeat.
MarkedWhen(answered) == answered

\* The call returns, and the result that is in the file now is marked; or it
\* fails and the session ends.
Answered ==
    /\ beat # Absent /\ beat' = Absent
    /\ \E answered \in BOOLEAN :
         /\ answered => beat \in stored \/ "ledger" \in odd
         /\ result' = IF MarkedWhen(answered) THEN [result EXCEPT !.reported = TRUE] ELSE result
    /\ UNCHANGED <<deployVars, requestVars, proc, stored, odd>>

UpgradeNext ==
    \/ Refuse \/ Accept \/ Stage \/ Cron \/ (\E r \in Runs : Step(r)) \/ Reboot
    \/ Dies \/ Respawn \/ Beat \/ Served \/ Answered

UpgradeSpec == UpgradeInit /\ [][UpgradeNext]_upgradeVars

-----------------------------------------------------------------------------

\* Once a script that nothing disturbed is over, the outcome names the binary
\* that is installed: the one whose sha256 was accepted, or the one that was
\* there before.  After a rollback the agent runs it, or systemd starts it.
OutcomeNamesBinary ==
    \A r \in Runs :
        /\ proc[r].step \in {"clean", "done"} /\ Active \subseteq {r} /\ result.run = r
        /\ odd \cap {"twice", "restaged", "again", "reboot", "restore"} = {}
        => /\ result.outcome = "succeeded" => bin = "new"
           /\ result.outcome = "rolled_back" =>
                bin = before[proc[r].job] /\ (bin = "old" => up = "old" \/ (kind = "systemd" /\ wanted))

\* A result that is marked reported was stored by the server, unless its
\* database failed or another result took the file while the heartbeat ran.
ReportedWasStored ==
    result.reported /\ result.run # 0 /\ odd \cap {"ledger", "overtaken"} = {} => result.run \in stored

\* A job that was accepted is run by cron or has been, unless a second one was
\* accepted while the first was under way: its line goes with the first.
AcceptedIsRun ==
    odd \cap {"twice"} = {} =>
        \A j \in 1..MaxJobs : before[j] # Absent => j \in started \/ (line /\ script = j)

\* What README.md:194 and requirement 4.2 of the update say: a new binary that
\* does not come up is replaced by the backup.  Here for the deployment by
\* ctl.sh, a binary that ends at once, and a script of which no other step failed.
BadBinaryIsRolledBack ==
    \A r \in Runs :
        /\ proc[r].step = "done" /\ odd = {} /\ proc[r].detail \in {Absent, "start"}
        /\ backups[proc[r].job] = "old" /\ fit = "bad" /\ kind = "direct"
        => bin # "new"

\* The self-update: what it reports is what it did, and reaches the server.
UpgradeTells == OutcomeNamesBinary /\ ReportedWasStored /\ AcceptedIsRun
=============================================================================
