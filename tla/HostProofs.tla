------------------------------ MODULE HostProofs ------------------------------
(***************************************************************************)
(* Parts of a host, for any bounds: the self-update tells what it did,     *)
(* each count of the eBPF probes leaves the kernel once, each whole line   *)
(* of a log is read under its own id, vmctl tells how a job ended, the     *)
(* collector and its probes stay within their limits, and the OTLP         *)
(* receiver keeps what it answered 200.                                    *)
(***************************************************************************)
EXTENDS AgentUpgrade, EbpfCollector, LogFollow, VmctlClient, EbpfLimits, OtlpReceiver, FiniteSetTheorems,
        WellFoundedInduction, TLAPS

USE DEF upgradeVars, deployVars, requestVars, reportVars

-----------------------------------------------------------------------------
(* The self-update                                                         *)

Binaries == {"old", "new", "half"}
Details  == {"stop", "backup", "replace", "chmod", "start", "check", "restop", "restore", "restart",
             "recheck", "write", "clean", "abort", "idle", "done"}
Outcomes == {Absent, "succeeded", "failed", "rolled_back"}
Process  == [step : Details, job : 0 .. MaxJobs, outcome : Outcomes, detail : Details \cup {Absent}]

UpgradeTypes ==
    /\ kind \in {"systemd", "direct"} /\ fit \in {"good", "late", "bad"}
    /\ staged \in Binaries \cup {Absent} /\ bin \in Binaries \cup {Absent}
    /\ backups \in [1..MaxJobs -> Binaries \cup {Absent}]
    /\ before \in [1..MaxJobs -> Binaries \cup {Absent}]
    /\ jobs \in 0..MaxJobs /\ script \in 0..jobs /\ line \in BOOLEAN
    /\ line => script # 0
    /\ proc \in [Runs -> Process]
    /\ \A r \in Runs : proc[r].job <= jobs /\ (proc[r].step # "idle" => proc[r].job # 0)
    /\ result \in [run : 0..MaxRuns, outcome : Outcomes, reported : BOOLEAN]

\* The heartbeat carries the result that is in the file, unless another took
\* the file meanwhile.
BeatIsResult == beat # Absent /\ "overtaken" \notin odd => beat = result.run

\* While a script runs, the one that the cron line would run is under way.
LineIsStarted == line /\ Active # {} /\ "twice" \notin odd => script \in started

\* What would make the outcome of a run uncertain did not happen.
Calm == odd \cap {"twice", "restaged", "again", "reboot", "restore"} = {}

\* A script that is not yet run will find what the agent checked.
ReadyToRun == Calm /\ line /\ script \notin started => staged = "new" /\ bin = before[script]

OneAtATime == Calm => \A q, r \in Active : q = r

\* The old binary is back, and runs or is about to.
Back(r) == bin = before[proc[r].job] /\ (bin = "old" => up = "old" \/ (kind = "systemd" /\ wanted))

Told(r, outcome) ==
    /\ outcome = "succeeded" => bin = "new"
    /\ outcome = "rolled_back" => Back(r)

Saved(r) == backups[proc[r].job] = before[proc[r].job]

\* What a run has done when it is at a step.
RunIsAt(r) ==
    LET s == proc[r].step IN
    /\ s \in {"stop", "backup", "replace"} => staged = "new" /\ bin = before[proc[r].job]
    /\ s \in {"replace", "chmod", "start", "check", "restop", "restore"} => Saved(r)
    /\ s \in {"chmod", "start", "check"} => bin = "new"
    /\ s \in {"restore", "restart"} => kind = "systemd" \/ up = Absent
    /\ s = "restart" => bin = before[proc[r].job]
    /\ s = "recheck" => Back(r)
    /\ s = "abort" => proc[r].outcome = "failed"
    /\ s = "write" => Told(r, proc[r].outcome)
    /\ s = "clean" => result.run = r
    /\ s \in {"clean", "done"} /\ Active \subseteq {r} /\ result.run = r => Told(r, result.outcome)

RunsAreSound == Calm => \A r \in Runs : RunIsAt(r)

UpgradeInv ==
    /\ UpgradeTypes
    /\ BeatIsResult /\ ReportedWasStored
    /\ LineIsStarted /\ AcceptedIsRun
    /\ ReadyToRun /\ OneAtATime /\ RunsAreSound

\* What a step of the script of run r is: it goes on to process p, and only the
\* removal of the cron line ends it.
RunMoves(r, p) ==
    /\ proc' = [proc EXCEPT ![r] = p]
    /\ p.job = proc[r].job /\ p.step # "idle"
    /\ p.step = "done" => proc[r].step = "clean" /\ UNCHANGED result
    /\ line' \in BOOLEAN /\ (line' => line)
    /\ odd \subseteq odd'
    /\ UNCHANGED <<kind, fit, staged, before, jobs, script, started>>

LEMMA RunMovesKeeps ==
    ASSUME UpgradeInv, NEW r \in Active, NEW p \in Process, RunMoves(r, p),
           bin' \in Binaries \cup {Absent}, backups' \in [1..MaxJobs -> Binaries \cup {Absent}],
           result' \in [run : 0..MaxRuns, outcome : Outcomes, reported : BOOLEAN],
           BeatIsResult', ReportedWasStored', Calm' => RunIsAt(r)'
    PROVE  UpgradeInv'
<1>1. /\ UpgradeTypes /\ LineIsStarted /\ AcceptedIsRun /\ ReadyToRun /\ OneAtATime /\ RunsAreSound
      /\ r \in Runs /\ proc[r] \in Process
  BY DEF UpgradeInv, UpgradeTypes, Active
<1>2. /\ proc' \in [Runs -> Process] /\ proc'[r] = p /\ \A q \in Runs \ {r} : proc'[q] = proc[q]
      /\ UNCHANGED <<kind, fit, staged, before, jobs, script, started>>
      /\ p.job = proc[r].job /\ p.step # "idle" /\ line' \in BOOLEAN /\ (line' => line) /\ odd \subseteq odd'
  BY <1>1 DEF RunMoves, UpgradeTypes
<1>3. Active' \subseteq Active /\ (\A q \in Active \ {r} : q \in Active') /\ (Calm' => Calm) /\ ("twice" \notin odd' => "twice" \notin odd)
  BY <1>2 DEF Active, Calm
<1>4. UpgradeTypes'
  <2>1. \A q \in Runs : proc'[q].job <= jobs /\ (proc'[q].step # "idle" => proc'[q].job # 0)
    <3>1. proc[r].step # "idle"
      BY DEF Active
    <3> QED
      BY <1>1, <1>2, <3>1 DEF UpgradeTypes
  <2> QED
    BY <1>1, <1>2, <2>1 DEF UpgradeTypes
<1>5. LineIsStarted' /\ AcceptedIsRun' /\ ReadyToRun'
  <2>1. line /\ "twice" \notin odd => script \in started
    BY <1>1 DEF LineIsStarted
  <2>2. Calm' => "twice" \notin odd
    BY <1>3 DEF Calm
  <2> QED
    BY <1>1, <1>2, <1>3, <2>1, <2>2 DEF LineIsStarted, AcceptedIsRun, ReadyToRun
<1>6. OneAtATime'
  BY <1>1, <1>3 DEF OneAtATime
<1>7. RunsAreSound'
  <2> SUFFICES ASSUME Calm', NEW q \in Runs, q # r
               PROVE  RunIsAt(q)'
    BY DEF RunsAreSound
  <2>1. proc'[q] = proc[q] /\ proc[q].step \in {"idle", "done"}
    BY <1>1, <1>2, <1>3 DEF OneAtATime, Active
  <2>2. ~(Active' \subseteq {q} /\ result'.run = q)
    <3> SUFFICES ASSUME Active' \subseteq {q}
                 PROVE  result'.run # q
      OBVIOUS
    <3>1. p.step = "done"
      BY <1>1, <1>2 DEF Active
    <3>2. proc[r].step = "clean" /\ UNCHANGED result
      BY <3>1 DEF RunMoves
    <3>3. result.run = r
      BY <1>1, <1>3, <3>2 DEF RunsAreSound, RunIsAt
    <3> QED
      BY <3>2, <3>3
  <2> QED
    BY <2>1, <2>2 DEF RunIsAt
<1> QED
  BY <1>4, <1>5, <1>6, <1>7 DEF UpgradeInv

\* The scripts rest; the binary that was brought back goes on running.
LEMMA RunsRest ==
    ASSUME UpgradeInv, UNCHANGED <<proc, bin, backups, kind, wanted>>, odd \subseteq odd',
           staged' = staged \/ Active = {} \/ ~Calm',
           \A r \in Runs : proc[r].step # "idle" => before'[proc[r].job] = before[proc[r].job],
           result'.run = result.run, result'.outcome = result.outcome,
           bin = "old" /\ up = "old" => up' = "old",
           up = Absent /\ kind # "systemd" => up' = Absent
    PROVE  OneAtATime' /\ RunsAreSound' /\ (Calm' => Calm)
<1>1. OneAtATime /\ RunsAreSound /\ UpgradeTypes
  BY DEF UpgradeInv
<1>2. Active' = Active /\ (Calm' => Calm)
  BY DEF Active, Calm
<1>3. OneAtATime'
  BY <1>1, <1>2 DEF OneAtATime
<1>4. ASSUME Calm', NEW r \in Runs
      PROVE  RunIsAt(r)'
  <2>1. RunIsAt(r)
    BY <1>1, <1>2, <1>4 DEF RunsAreSound
  <2>2. CASE proc[r].step = "idle"
    BY <2>2 DEF RunIsAt
  <2>3. CASE proc[r].step = "done"
    <3>1. before'[proc[r].job] = before[proc[r].job]
      BY <2>3
    <3> QED
      BY <1>2, <2>1, <2>3, <3>1 DEF RunIsAt, Told, Back
  <2>4. CASE proc[r].step \notin {"idle", "done"}
    <3>1. before'[proc[r].job] = before[proc[r].job] /\ staged' = staged
      BY <1>4, <2>4 DEF Active
    <3>2. Back(r) => Back(r)'
      BY <3>1 DEF Back
    <3> QED
      BY <1>2, <2>1, <3>1, <3>2 DEF RunIsAt, Told, Saved
  <2> QED
    BY <2>2, <2>3, <2>4
<1> QED
  BY <1>2, <1>3, <1>4 DEF RunsAreSound

\* The process of a run after a step.
LEMMA GoesOn ==
    ASSUME UpgradeTypes, NEW r \in Active, NEW s \in Details, To(r, s)
    PROVE  \E p \in Process : /\ proc' = [proc EXCEPT ![r] = p] /\ p.step = s
                              /\ p.job = proc[r].job /\ p.outcome = proc[r].outcome
<1>1. r \in Runs /\ proc[r] \in Process
  BY DEF Active, UpgradeTypes
<1>2. [proc[r] EXCEPT !.step = s] \in Process
  BY <1>1 DEF Process
<1>3. proc' = [proc EXCEPT ![r] = [proc[r] EXCEPT !.step = s]]
  BY <1>1 DEF To, UpgradeTypes
<1> QED
  BY <1>1, <1>2, <1>3 DEF Process

LEMMA GivesUp ==
    ASSUME UpgradeTypes, NEW r \in Active, Fail(r, "abort")
    PROVE  \E p \in Process : /\ proc' = [proc EXCEPT ![r] = p] /\ p.step = "abort"
                              /\ p.job = proc[r].job /\ p.outcome = "failed"
<1>1. r \in Runs /\ proc[r] \in Process
  BY DEF Active, UpgradeTypes
<1>2. [proc[r] EXCEPT !.step = "abort", !.outcome = "failed", !.detail = proc[r].step] \in Process
  BY <1>1 DEF Process, Details, Outcomes
<1>3. proc' = [proc EXCEPT ![r] = [proc[r] EXCEPT !.step = "abort", !.outcome = "failed", !.detail = proc[r].step]]
  BY <1>1 DEF Fail, UpgradeTypes
<1> QED
  BY <1>1, <1>2, <1>3 DEF Process

Judged(p, s, o) == [p EXCEPT !.step = s, !.outcome = o]

LEMMA JudgesSo ==
    ASSUME UpgradeTypes, NEW r \in Active, NEW s \in Details, NEW o \in Outcomes
    PROVE  \E p \in Process : /\ p = Judged(proc[r], s, o)
                              /\ p.step = s /\ p.job = proc[r].job /\ p.outcome = o
<1>1. r \in Runs /\ proc[r] \in Process
  BY DEF Active, UpgradeTypes
<1>2. PICK q \in Process : q = proc[r]
  BY <1>1
<1>3. Judged(q, s, o) \in Process
  BY DEF Process, Judged
<1>4. Judged(q, s, o).step = s /\ Judged(q, s, o).job = q.job /\ Judged(q, s, o).outcome = o
  BY DEF Process, Judged
<1> QED
  BY <1>2, <1>3, <1>4

\* What a run that is at work knows, and what a step must show of it.
LEMMA AtWork ==
    ASSUME UpgradeInv, NEW r \in Runs, proc[r].step \notin {"idle", "done"}
    PROVE  /\ r \in Active /\ UpgradeTypes /\ BeatIsResult /\ ReportedWasStored
           /\ Calm => RunIsAt(r)
BY DEF Active, UpgradeInv, RunsAreSound

\* A step that leaves the reports alone.
LEMMA Moves ==
    ASSUME UpgradeInv, NEW r \in Active, NEW p \in Process, proc' = [proc EXCEPT ![r] = p],
           p.job = proc[r].job, p.step \notin {"idle", "done"},
           UNCHANGED <<kind, fit, staged, requestVars, result, stored>>, odd \subseteq odd',
           beat' = beat \/ beat' = Absent,
           bin' \in Binaries \cup {Absent}, backups' \in [1..MaxJobs -> Binaries \cup {Absent}],
           Calm' => RunIsAt(r)'
    PROVE  UpgradeInv'
<1>1. UpgradeTypes /\ BeatIsResult /\ ReportedWasStored
  BY DEF UpgradeInv
<1>2. RunMoves(r, p)
  BY <1>1 DEF RunMoves, UpgradeTypes
<1>3. BeatIsResult' /\ ReportedWasStored' /\ result' \in [run : 0..MaxRuns, outcome : Outcomes, reported : BOOLEAN]
  BY <1>1 DEF BeatIsResult, ReportedWasStored, UpgradeTypes
<1> QED
  BY <1>2, <1>3, RunMovesKeeps

LEMMA StopAgentKeeps ==
    ASSUME UpgradeInv, NEW r \in Runs, NEW s \in {"stop", "restop"}, StopAgent(r, s)
    PROVE  UpgradeInv'
<1>1. proc[r].step = s /\ UNCHANGED <<kind, fit, staged, bin, backups, requestVars, result, stored, odd>>
  BY DEF StopAgent
<1>2. r \in Active /\ UpgradeTypes /\ (Calm => RunIsAt(r))
  BY <1>1, AtWork
<1>3. beat' = beat \/ beat' = Absent
  BY DEF StopAgent, Down
<1>4. CASE To(r, After[s])
  <2>1. After[s] = (IF s = "stop" THEN "backup" ELSE "restore")
    BY DEF After
  <2>2. After[s] \in Details
    BY <2>1 DEF Details
  <2>3. PICK p \in Process : /\ proc' = [proc EXCEPT ![r] = p] /\ p.step = After[s]
                             /\ p.job = proc[r].job /\ p.outcome = proc[r].outcome
    BY <1>2, <1>4, <2>2, GoesOn
  <2>4. proc'[r] = p
    BY <2>3, <1>2 DEF UpgradeTypes
  <2>5. kind = "systemd" \/ up' = Absent
    BY DEF StopAgent, Down
  <2>6. Calm' => RunIsAt(r)'
    BY <1>1, <1>2, <2>1, <2>3, <2>4, <2>5 DEF RunIsAt, Calm, Saved
  <2> QED
    BY <1>1, <1>2, <1>3, <2>1, <2>3, <2>6, Moves DEF UpgradeTypes
<1>5. CASE Fail(r, "abort")
  <2>1. PICK p \in Process : /\ proc' = [proc EXCEPT ![r] = p] /\ p.step = "abort"
                             /\ p.job = proc[r].job /\ p.outcome = "failed"
    BY <1>2, <1>5, GivesUp
  <2>2. proc'[r] = p
    BY <2>1, <1>2 DEF UpgradeTypes
  <2>3. RunIsAt(r)'
    BY <2>1, <2>2 DEF RunIsAt
  <2> QED
    BY <1>1, <1>2, <1>3, <2>1, <2>3, Moves DEF UpgradeTypes
<1> QED
  BY <1>4, <1>5 DEF StopAgent

LEMMA BackupKeeps ==
    ASSUME UpgradeInv, NEW r \in Runs, Backup(r)
    PROVE  UpgradeInv'
<1>1. /\ proc[r].step = "backup"
      /\ UNCHANGED <<kind, fit, staged, bin, up, wanted, requestVars, reportVars, odd>>
  BY DEF Backup
<1>2. r \in Active /\ UpgradeTypes /\ (Calm => RunIsAt(r)) /\ proc[r].job \in 1..MaxJobs
  <2>1. r \in Active /\ UpgradeTypes /\ (Calm => RunIsAt(r))
    BY <1>1, AtWork
  <2>2. proc[r] \in Process /\ proc[r].job # 0
    BY <1>1, <2>1 DEF UpgradeTypes
  <2> QED
    BY <2>1, <2>2, UpgradeAssumption DEF Process
<1>3. CASE backups' = [backups EXCEPT ![proc[r].job] = CopyOf(r)] /\ To(r, "replace")
  <2>1. PICK p \in Process : /\ proc' = [proc EXCEPT ![r] = p] /\ p.step = "replace"
                             /\ p.job = proc[r].job /\ p.outcome = proc[r].outcome
    BY <1>2, <1>3, GoesOn DEF Details
  <2>2. proc'[r] = p /\ backups'[proc[r].job] = bin /\ backups' \in [1..MaxJobs -> Binaries \cup {Absent}]
    BY <2>1, <1>2, <1>3 DEF UpgradeTypes, CopyOf
  <2>3. Calm' => RunIsAt(r)'
    BY <1>1, <1>2, <2>1, <2>2 DEF RunIsAt, Calm, Saved
  <2> QED
    BY <1>1, <1>2, <2>1, <2>2, <2>3, Moves DEF UpgradeTypes
<1>4. CASE backups' = [backups EXCEPT ![proc[r].job] = "half"] /\ Fail(r, "abort")
  <2>1. PICK p \in Process : /\ proc' = [proc EXCEPT ![r] = p] /\ p.step = "abort"
                             /\ p.job = proc[r].job /\ p.outcome = "failed"
    BY <1>2, <1>4, GivesUp
  <2>2. proc'[r] = p /\ backups' \in [1..MaxJobs -> Binaries \cup {Absent}]
    BY <2>1, <1>2, <1>4 DEF UpgradeTypes, Binaries
  <2>3. RunIsAt(r)'
    BY <2>1, <2>2 DEF RunIsAt
  <2> QED
    BY <1>1, <1>2, <2>1, <2>2, <2>3, Moves DEF UpgradeTypes
<1> QED
  BY <1>3, <1>4 DEF Backup

LEMMA ReplaceKeeps ==
    ASSUME UpgradeInv, NEW r \in Runs, Replace(r)
    PROVE  UpgradeInv'
<1>1. /\ proc[r].step = "replace"
      /\ UNCHANGED <<kind, fit, staged, up, wanted, backups, requestVars, reportVars, odd>>
  BY DEF Replace
<1>2. r \in Active /\ UpgradeTypes /\ (Calm => RunIsAt(r))
  BY <1>1, AtWork
<1>3. CASE bin' = staged /\ To(r, "chmod")
  <2>1. PICK p \in Process : /\ proc' = [proc EXCEPT ![r] = p] /\ p.step = "chmod"
                             /\ p.job = proc[r].job /\ p.outcome = proc[r].outcome
    BY <1>2, <1>3, GoesOn DEF Details
  <2>2. proc'[r] = p
    BY <2>1, <1>2 DEF UpgradeTypes
  <2>3. Calm' => RunIsAt(r)'
    BY <1>1, <1>2, <1>3, <2>1, <2>2 DEF RunIsAt, Calm, Saved
  <2> QED
    BY <1>1, <1>2, <1>3, <2>1, <2>3, Moves DEF UpgradeTypes
<1>4. CASE bin' = "half" /\ Fail(r, "abort")
  <2>1. PICK p \in Process : /\ proc' = [proc EXCEPT ![r] = p] /\ p.step = "abort"
                             /\ p.job = proc[r].job /\ p.outcome = "failed"
    BY <1>2, <1>4, GivesUp
  <2>2. proc'[r] = p
    BY <2>1, <1>2 DEF UpgradeTypes
  <2>3. RunIsAt(r)'
    BY <2>1, <2>2 DEF RunIsAt
  <2> QED
    BY <1>1, <1>2, <1>4, <2>1, <2>3, Moves DEF UpgradeTypes, Binaries
<1> QED
  BY <1>3, <1>4 DEF Replace

LEMMA ChmodKeeps ==
    ASSUME UpgradeInv, NEW r \in Runs, Chmod(r)
    PROVE  UpgradeInv'
<1>1. proc[r].step = "chmod" /\ UNCHANGED <<deployVars, requestVars, reportVars, odd>>
  BY DEF Chmod
<1>2. r \in Active /\ UpgradeTypes /\ (Calm => RunIsAt(r))
  BY <1>1, AtWork
<1>3. CASE To(r, "start")
  <2>1. PICK p \in Process : /\ proc' = [proc EXCEPT ![r] = p] /\ p.step = "start"
                             /\ p.job = proc[r].job /\ p.outcome = proc[r].outcome
    BY <1>2, <1>3, GoesOn DEF Details
  <2>2. proc'[r] = p
    BY <2>1, <1>2 DEF UpgradeTypes
  <2>3. Calm' => RunIsAt(r)'
    BY <1>1, <1>2, <2>1, <2>2 DEF RunIsAt, Calm, Saved
  <2> QED
    BY <1>1, <1>2, <2>1, <2>3, Moves DEF UpgradeTypes
<1>4. CASE Fail(r, "abort")
  <2>1. PICK p \in Process : /\ proc' = [proc EXCEPT ![r] = p] /\ p.step = "abort"
                             /\ p.job = proc[r].job /\ p.outcome = "failed"
    BY <1>2, <1>4, GivesUp
  <2>2. proc'[r] = p
    BY <2>1, <1>2 DEF UpgradeTypes
  <2>3. RunIsAt(r)'
    BY <2>1, <2>2 DEF RunIsAt
  <2> QED
    BY <1>1, <1>2, <2>1, <2>3, Moves DEF UpgradeTypes
<1> QED
  BY <1>3, <1>4 DEF Chmod

\* Where the old binary is brought back, it is started, or runs already.
LEMMA StartAgentKeeps ==
    ASSUME UpgradeInv, NEW r \in Runs, NEW s \in {"start", "restart"}, StartAgent(r, s)
    PROVE  UpgradeInv'
<1>1. /\ proc[r].step = s /\ Starts /\ wanted' = TRUE
      /\ UNCHANGED <<kind, fit, staged, bin, backups, requestVars, reportVars, odd>>
  BY DEF StartAgent
<1>2. r \in Active /\ UpgradeTypes /\ (Calm => RunIsAt(r))
  BY <1>1, AtWork
<1>3. CASE To(r, After[s])
  <2>1. After[s] = (IF s = "start" THEN "check" ELSE "recheck")
    BY DEF After
  <2>2. After[s] \in Details
    BY <2>1 DEF Details
  <2>3. PICK p \in Process : /\ proc' = [proc EXCEPT ![r] = p] /\ p.step = After[s]
                             /\ p.job = proc[r].job /\ p.outcome = proc[r].outcome
    BY <1>2, <1>3, <2>2, GoesOn
  <2>4. proc'[r] = p
    BY <2>3, <1>2 DEF UpgradeTypes
  <2>5. kind \in {"systemd", "direct"}
    BY <1>2 DEF UpgradeTypes
  <2>6. ASSUME s = "restart", Calm
        PROVE  Back(r)'
    <3>1. bin = before[proc[r].job] /\ (kind = "systemd" \/ up = Absent)
      BY <1>1, <1>2, <2>6 DEF RunIsAt
    <3>2. bin = "old" => up' = "old" \/ kind = "systemd"
      BY <1>1, <2>5, <3>1 DEF Starts, FitOf
    <3> QED
      BY <1>1, <2>3, <2>4, <3>1, <3>2 DEF Back
  <2>7. Calm' => RunIsAt(r)'
    BY <1>1, <1>2, <2>1, <2>3, <2>4, <2>6 DEF RunIsAt, Calm, Saved
  <2> QED
    BY <1>1, <1>2, <2>1, <2>3, <2>7, Moves DEF UpgradeTypes
<1>4. CASE Fail(r, "abort")
  <2>1. PICK p \in Process : /\ proc' = [proc EXCEPT ![r] = p] /\ p.step = "abort"
                             /\ p.job = proc[r].job /\ p.outcome = "failed"
    BY <1>2, <1>4, GivesUp
  <2>2. proc'[r] = p
    BY <2>1, <1>2 DEF UpgradeTypes
  <2>3. RunIsAt(r)'
    BY <2>1, <2>2 DEF RunIsAt
  <2> QED
    BY <1>1, <1>2, <2>1, <2>3, Moves DEF UpgradeTypes
<1> QED
  BY <1>3, <1>4 DEF StartAgent

LEMMA CheckKeeps ==
    ASSUME UpgradeInv, NEW r \in Runs, Check(r)
    PROVE  UpgradeInv'
<1>1. proc[r].step = "check" /\ UNCHANGED <<deployVars, requestVars, reportVars, odd>>
  BY DEF Check
<1>2. r \in Active /\ UpgradeTypes /\ (Calm => RunIsAt(r))
  BY <1>1, AtWork
<1>3. PICK s \in {"write", "restop"}, o \in {"succeeded", "rolled_back"} :
          /\ s = (IF up # Absent THEN "write" ELSE "restop")
          /\ o = (IF up # Absent THEN "succeeded" ELSE "rolled_back")
  OBVIOUS
<1>4. PICK p \in Process : /\ p = Judged(proc[r], s, o)
                           /\ p.step = s /\ p.job = proc[r].job /\ p.outcome = o
  <2>1. s \in Details /\ o \in Outcomes
    BY DEF Details, Outcomes
  <2> QED
    BY <1>2, <2>1, JudgesSo
<1>5. proc' = [proc EXCEPT ![r] = p] /\ proc'[r] = p
  BY <1>2, <1>3, <1>4 DEF Check, UpgradeTypes, Judged
<1>6. Calm' => RunIsAt(r)'
  BY <1>1, <1>2, <1>3, <1>4, <1>5 DEF RunIsAt, Calm, Saved, Told
<1> QED
  BY <1>1, <1>2, <1>4, <1>5, <1>6, Moves DEF UpgradeTypes

LEMMA RestoreKeeps ==
    ASSUME UpgradeInv, NEW r \in Runs, Restore(r)
    PROVE  UpgradeInv'
<1>1. /\ proc[r].step = "restore" /\ To(r, "restart")
      /\ bin' \in {backups[proc[r].job]} \cup {"half"}
      /\ odd' = IF bin' = "half" THEN odd \cup {"restore"} ELSE odd
      /\ UNCHANGED <<kind, fit, staged, up, wanted, backups, requestVars, reportVars>>
  BY DEF Restore
<1>2. r \in Active /\ UpgradeTypes /\ (Calm => RunIsAt(r))
  BY <1>1, AtWork
<1>3. PICK p \in Process : /\ proc' = [proc EXCEPT ![r] = p] /\ p.step = "restart"
                           /\ p.job = proc[r].job /\ p.outcome = proc[r].outcome
  BY <1>1, <1>2, GoesOn DEF Details
<1>4. proc'[r] = p
  BY <1>3, <1>2 DEF UpgradeTypes
<1>5. bin' \in Binaries \cup {Absent}
  <2>1. proc[r] \in Process /\ proc[r].job # 0
    BY <1>1, <1>2 DEF UpgradeTypes, Active
  <2>2. proc[r].job \in 1..MaxJobs
    BY <2>1, UpgradeAssumption DEF Process
  <2> QED
    BY <1>1, <1>2, <2>2 DEF UpgradeTypes, Binaries
<1>6. Calm' => Calm /\ bin' = backups[proc[r].job]
  BY <1>1 DEF Calm
<1>7. Calm' => RunIsAt(r)'
  BY <1>1, <1>2, <1>3, <1>4, <1>6 DEF RunIsAt, Saved
<1> QED
  BY <1>1, <1>2, <1>3, <1>5, <1>7, Moves DEF UpgradeTypes

LEMMA RecheckKeeps ==
    ASSUME UpgradeInv, NEW r \in Runs, Recheck(r)
    PROVE  UpgradeInv'
<1>1. proc[r].step = "recheck" /\ UNCHANGED <<deployVars, requestVars, reportVars, odd>>
  BY DEF Recheck
<1>2. r \in Active /\ UpgradeTypes /\ (Calm => RunIsAt(r))
  BY <1>1, AtWork
<1>3. PICK o \in {"rolled_back", "failed"} : o = Rechecked
  BY DEF Rechecked
<1>4. PICK p \in Process : /\ p = Judged(proc[r], "write", o)
                           /\ p.step = "write" /\ p.job = proc[r].job /\ p.outcome = o
  <2>1. "write" \in Details /\ o \in Outcomes
    BY DEF Details, Outcomes
  <2> QED
    BY <1>2, <2>1, JudgesSo
<1>5. proc' = [proc EXCEPT ![r] = p] /\ proc'[r] = p
  BY <1>2, <1>3, <1>4 DEF Recheck, UpgradeTypes, Judged
<1>6. Calm' => RunIsAt(r)'
  BY <1>1, <1>2, <1>4, <1>5 DEF RunIsAt, Calm, Told, Back
<1> QED
  BY <1>1, <1>2, <1>4, <1>5, <1>6, Moves DEF UpgradeTypes

LEMMA AbortKeeps ==
    ASSUME UpgradeInv, NEW r \in Runs, Abort(r)
    PROVE  UpgradeInv'
<1>1. /\ proc[r].step = "abort" /\ To(r, "write")
      /\ UNCHANGED <<kind, fit, staged, bin, backups, requestVars, reportVars, odd>>
  BY DEF Abort
<1>2. r \in Active /\ UpgradeTypes /\ (Calm => RunIsAt(r))
  BY <1>1, AtWork
<1>3. PICK p \in Process : /\ proc' = [proc EXCEPT ![r] = p] /\ p.step = "write"
                           /\ p.job = proc[r].job /\ p.outcome = proc[r].outcome
  BY <1>1, <1>2, GoesOn DEF Details
<1>4. proc'[r] = p
  BY <1>3, <1>2 DEF UpgradeTypes
<1>5. Calm' => RunIsAt(r)'
  BY <1>1, <1>2, <1>3, <1>4 DEF RunIsAt, Calm, Told
<1> QED
  BY <1>1, <1>2, <1>3, <1>5, Moves DEF UpgradeTypes

LEMMA WriteResultKeeps ==
    ASSUME UpgradeInv, NEW r \in Runs, WriteResult(r)
    PROVE  UpgradeInv'
<1>1. /\ proc[r].step = "write" /\ To(r, "clean")
      /\ result' = [run |-> r, outcome |-> proc[r].outcome, reported |-> FALSE]
      /\ odd' = IF beat # Absent THEN odd \cup {"overtaken"} ELSE odd
      /\ UNCHANGED <<deployVars, requestVars, beat, stored>>
  BY DEF WriteResult
<1>2. r \in Active /\ UpgradeTypes /\ (Calm => RunIsAt(r)) /\ proc[r] \in Process
  BY <1>1, AtWork DEF UpgradeTypes
<1>3. PICK p \in Process : /\ proc' = [proc EXCEPT ![r] = p] /\ p.step = "clean"
                           /\ p.job = proc[r].job /\ p.outcome = proc[r].outcome
  BY <1>1, <1>2, GoesOn DEF Details
<1>4. proc'[r] = p
  BY <1>3, <1>2 DEF UpgradeTypes
<1>5. result' \in [run : 0..MaxRuns, outcome : Outcomes, reported : BOOLEAN]
  <2>1. r \in 0..MaxRuns
    BY UpgradeAssumption DEF Runs
  <2> QED
    BY <1>1, <1>2, <2>1 DEF Process
<1>6. result'.run = r /\ result'.outcome = proc[r].outcome /\ ~result'.reported
  BY <1>1
<1>7. Calm' => Calm
  BY <1>1 DEF Calm
<1>8. Calm' => RunIsAt(r)'
  BY <1>1, <1>2, <1>3, <1>4, <1>6, <1>7 DEF RunIsAt, Told, Back
<1>9. BeatIsResult' /\ ReportedWasStored'
  BY <1>1, <1>6 DEF BeatIsResult, ReportedWasStored
<1>10. RunMoves(r, p)
  BY <1>1, <1>2, <1>3 DEF RunMoves, UpgradeTypes
<1> QED
  BY <1>1, <1>2, <1>5, <1>8, <1>9, <1>10, RunMovesKeeps DEF UpgradeTypes

LEMMA CleanUpKeeps ==
    ASSUME UpgradeInv, NEW r \in Runs, CleanUp(r)
    PROVE  UpgradeInv'
<1>1. /\ proc[r].step = "clean" /\ To(r, "done") /\ line' = FALSE
      /\ UNCHANGED <<deployVars, before, jobs, script, started, reportVars, odd>>
  BY DEF CleanUp
<1>2. /\ r \in Active /\ UpgradeTypes /\ (Calm => RunIsAt(r)) /\ OneAtATime
      /\ BeatIsResult /\ ReportedWasStored
  BY <1>1, AtWork DEF UpgradeInv
<1>3. PICK p \in Process : /\ proc' = [proc EXCEPT ![r] = p] /\ p.step = "done"
                           /\ p.job = proc[r].job /\ p.outcome = proc[r].outcome
  BY <1>1, <1>2, GoesOn DEF Details
<1>4. proc'[r] = p
  BY <1>3, <1>2 DEF UpgradeTypes
<1>5. Calm' => RunIsAt(r)'
  <2>1. Calm => Active \subseteq {r}
    BY <1>2 DEF OneAtATime
  <2> QED
    BY <1>1, <1>2, <1>3, <1>4, <2>1 DEF RunIsAt, Calm, Told, Back
<1>6. RunMoves(r, p)
  BY <1>1, <1>2, <1>3 DEF RunMoves, UpgradeTypes
<1>7. BeatIsResult' /\ ReportedWasStored' /\ result' \in [run : 0..MaxRuns, outcome : Outcomes, reported : BOOLEAN]
  BY <1>1, <1>2 DEF BeatIsResult, ReportedWasStored, UpgradeTypes
<1> QED
  BY <1>1, <1>2, <1>5, <1>6, <1>7, RunMovesKeeps DEF UpgradeTypes

LEMMA StepKeeps ==
    ASSUME UpgradeInv, NEW r \in Runs, Step(r)
    PROVE  UpgradeInv'
BY StopAgentKeeps, StartAgentKeeps, BackupKeeps, ReplaceKeeps, ChmodKeeps, CheckKeeps, RestoreKeeps,
   RecheckKeeps, AbortKeeps, WriteResultKeeps, CleanUpKeeps DEF Step

LEMMA JobsAreOld ==
    ASSUME UpgradeTypes
    PROVE  \A r \in Runs : proc[r].step # "idle" => proc[r].job \in 1..jobs
BY UpgradeAssumption DEF UpgradeTypes, Process

LEMMA RefuseKeeps ==
    ASSUME UpgradeInv, Refuse
    PROVE  UpgradeInv'
<1>1. /\ UpgradeTypes /\ LineIsStarted /\ AcceptedIsRun /\ ReadyToRun
      /\ BeatIsResult /\ ReportedWasStored
  BY DEF UpgradeInv
<1>2. /\ jobs < MaxJobs /\ jobs' = jobs + 1
      /\ UNCHANGED <<deployVars, before, line, started, proc, reportVars>>
      /\ script' = script \/ (script' = jobs + 1 /\ odd' = IF line THEN odd \cup {"twice"} ELSE odd)
      /\ script' = script => UNCHANGED odd \/ odd' = IF line THEN odd \cup {"twice"} ELSE odd
  BY DEF Refuse
<1>3. odd \subseteq odd' /\ (script' = script \/ ~line \/ "twice" \in odd')
      /\ ("ledger" \notin odd' => "ledger" \notin odd) /\ ("overtaken" \notin odd' => "overtaken" \notin odd)
  BY <1>2
<1>4. OneAtATime' /\ RunsAreSound' /\ (Calm' => Calm)
  BY <1>2, <1>3, RunsRest
<1>5. UpgradeTypes'
  <2>1. jobs' \in 0..MaxJobs /\ script' \in 0..jobs' /\ (line' => script' # 0)
    BY <1>1, <1>2, UpgradeAssumption DEF UpgradeTypes
  <2>2. \A r \in Runs : proc[r].job <= jobs'
    BY <1>1, <1>2, UpgradeAssumption DEF UpgradeTypes, Process
  <2> QED
    BY <1>1, <1>2, <2>1, <2>2 DEF UpgradeTypes
<1>6. LineIsStarted' /\ AcceptedIsRun' /\ ReadyToRun'
  <2>1. Active' = Active
    BY <1>2 DEF Active
  <2>2. Calm' => "twice" \notin odd'
    BY DEF Calm
  <2> QED
    BY <1>1, <1>2, <1>3, <1>4, <2>1, <2>2 DEF LineIsStarted, AcceptedIsRun, ReadyToRun
<1>7. BeatIsResult' /\ ReportedWasStored'
  BY <1>1, <1>2, <1>3 DEF BeatIsResult, ReportedWasStored
<1> QED
  BY <1>4, <1>5, <1>6, <1>7 DEF UpgradeInv

LEMMA AcceptKeeps ==
    ASSUME UpgradeInv, Accept
    PROVE  UpgradeInv'
<1>1. /\ UpgradeTypes /\ LineIsStarted /\ AcceptedIsRun /\ ReadyToRun
      /\ BeatIsResult /\ ReportedWasStored
  BY DEF UpgradeInv
<1>2. /\ jobs < MaxJobs /\ jobs' = jobs + 1 /\ script' = jobs + 1 /\ line' = TRUE /\ staged = "new"
      /\ before' = [before EXCEPT ![jobs + 1] = bin]
      /\ odd' = IF Active # {} \/ line THEN odd \cup {"twice"} ELSE odd
      /\ UNCHANGED <<deployVars, started, proc, reportVars>>
  BY DEF Accept, Verified, Written
<1>3. odd \subseteq odd' /\ ("twice" \notin odd' => Active = {} /\ ~line)
      /\ ("ledger" \notin odd' => "ledger" \notin odd) /\ ("overtaken" \notin odd' => "overtaken" \notin odd)
  BY <1>2
<1>4. /\ jobs \in Nat /\ jobs + 1 \in 1..MaxJobs /\ before'[jobs + 1] = bin
      /\ \A j \in 1..MaxJobs : j # jobs + 1 => before'[j] = before[j]
  BY <1>1, <1>2, UpgradeAssumption DEF UpgradeTypes
<1>5. \A r \in Runs : proc[r].step # "idle" => before'[proc[r].job] = before[proc[r].job]
  BY <1>1, <1>2, <1>4, JobsAreOld, UpgradeAssumption
<1>6. OneAtATime' /\ RunsAreSound' /\ (Calm' => Calm)
  BY <1>2, <1>3, <1>5, RunsRest
<1>7. UpgradeTypes'
  <2>1. jobs' \in 0..MaxJobs /\ script' \in 0..jobs' /\ script' # 0
    BY <1>1, <1>2, <1>4, UpgradeAssumption DEF UpgradeTypes
  <2>2. \A r \in Runs : proc[r].job <= jobs'
    BY <1>1, <1>2, UpgradeAssumption DEF UpgradeTypes, Process
  <2>3. before' \in [1..MaxJobs -> Binaries \cup {Absent}]
    BY <1>1, <1>2 DEF UpgradeTypes
  <2> QED
    BY <1>1, <1>2, <2>1, <2>2, <2>3 DEF UpgradeTypes
<1>8. LineIsStarted' /\ AcceptedIsRun' /\ ReadyToRun'
  <2>1. Active' = Active
    BY <1>2 DEF Active
  <2>2. AcceptedIsRun'
    BY <1>1, <1>2, <1>3, <1>4 DEF AcceptedIsRun
  <2> QED
    BY <1>2, <1>3, <1>4, <2>1, <2>2 DEF LineIsStarted, ReadyToRun
<1>9. BeatIsResult' /\ ReportedWasStored'
  BY <1>1, <1>2, <1>3 DEF BeatIsResult, ReportedWasStored
<1> QED
  BY <1>6, <1>7, <1>8, <1>9 DEF UpgradeInv

LEMMA StageKeeps ==
    ASSUME UpgradeInv, Stage
    PROVE  UpgradeInv'
<1>1. /\ UpgradeTypes /\ LineIsStarted /\ AcceptedIsRun /\ ReadyToRun
      /\ BeatIsResult /\ ReportedWasStored
  BY DEF UpgradeInv
<1>2. /\ odd = {} /\ staged' \in {"half", "new"}
      /\ odd' = IF line \/ Active # {} THEN odd \cup {"restaged"} ELSE odd
      /\ UNCHANGED <<kind, fit, bin, up, wanted, backups, requestVars, proc, reportVars>>
  BY DEF Stage
<1>3. OneAtATime' /\ RunsAreSound' /\ (Calm' => Calm)
  BY <1>2, RunsRest DEF Calm
<1>4. UpgradeTypes'
  BY <1>1, <1>2 DEF UpgradeTypes, Binaries
<1>5. LineIsStarted' /\ AcceptedIsRun' /\ ReadyToRun'
  BY <1>1, <1>2 DEF LineIsStarted, AcceptedIsRun, ReadyToRun, Calm, Active
<1>6. BeatIsResult' /\ ReportedWasStored'
  BY <1>1, <1>2 DEF BeatIsResult, ReportedWasStored
<1> QED
  BY <1>3, <1>4, <1>5, <1>6 DEF UpgradeInv

\* Cron starts a script when none is under way, or the update was disturbed.
LEMMA CronKeeps ==
    ASSUME UpgradeInv, Cron
    PROVE  UpgradeInv'
<1>1. /\ UpgradeTypes /\ LineIsStarted /\ AcceptedIsRun /\ ReadyToRun /\ OneAtATime /\ RunsAreSound
      /\ BeatIsResult /\ ReportedWasStored
  BY DEF UpgradeInv
<1>2. PICK r \in Runs :
          /\ proc[r].step = "idle"
          /\ proc' = [proc EXCEPT ![r] = [Idle EXCEPT !.step = "stop", !.job = script]]
  BY DEF Cron
<1>3. /\ line /\ started' = started \cup {script}
      /\ odd' = IF Active # {} \/ script \in started THEN odd \cup {"again"} ELSE odd
      /\ UNCHANGED <<deployVars, before, jobs, script, line, reportVars>>
  BY DEF Cron
<1>4. /\ proc'[r].step = "stop" /\ proc'[r].job = script /\ proc'[r] \in Process
      /\ \A q \in Runs \ {r} : proc'[q] = proc[q]
  <2>1. script \in 0..MaxJobs
    BY <1>1, UpgradeAssumption DEF UpgradeTypes
  <2>2. Idle \in Process
    BY UpgradeAssumption DEF Idle, Process, Details, Outcomes
  <2>3. PICK p \in Process, j \in 0..MaxJobs : p = Idle /\ j = script
    BY <2>1, <2>2
  <2>4. [p EXCEPT !.step = "stop", !.job = j] \in Process
    BY DEF Process, Details
  <2>5. proc'[r] = [p EXCEPT !.step = "stop", !.job = j] /\ \A q \in Runs \ {r} : proc'[q] = proc[q]
    BY <1>1, <1>2, <2>3 DEF UpgradeTypes
  <2>6. [p EXCEPT !.step = "stop", !.job = j].step = "stop" /\ [p EXCEPT !.step = "stop", !.job = j].job = j
    BY DEF Process
  <2> QED
    BY <2>3, <2>4, <2>5, <2>6
<1>5. Active' = Active \cup {r} /\ r \in Active'
  BY <1>4 DEF Active
<1>6. Calm' => Calm /\ Active = {} /\ script \notin started
  BY <1>3 DEF Calm
<1>7. UpgradeTypes'
  <2>1. proc' \in [Runs -> Process]
    BY <1>1, <1>2, <1>4 DEF UpgradeTypes
  <2>2. \A q \in Runs : proc'[q].job <= jobs /\ (proc'[q].step # "idle" => proc'[q].job # 0)
    BY <1>1, <1>3, <1>4 DEF UpgradeTypes
  <2> QED
    BY <1>1, <1>3, <2>1, <2>2 DEF UpgradeTypes
<1>8. LineIsStarted' /\ AcceptedIsRun' /\ ReadyToRun'
  BY <1>1, <1>3 DEF LineIsStarted, AcceptedIsRun, ReadyToRun
<1>9. OneAtATime'
  BY <1>5, <1>6 DEF OneAtATime
<1>10. ASSUME Calm', NEW q \in Runs
       PROVE  RunIsAt(q)'
  <2>1. CASE q = r
    <3>1. staged = "new" /\ bin = before[script]
      BY <1>1, <1>3, <1>6, <1>10 DEF ReadyToRun
    <3> QED
      BY <1>3, <1>4, <2>1, <3>1 DEF RunIsAt
  <2>2. CASE q # r
    <3>1. proc'[q] = proc[q] /\ proc[q].step \in {"idle", "done"}
      BY <1>4, <1>6, <1>10, <2>2 DEF Active
    <3> QED
      BY <1>5, <2>2, <3>1 DEF RunIsAt
  <2> QED
    BY <2>1, <2>2
<1>11. BeatIsResult' /\ ReportedWasStored'
  BY <1>1, <1>3 DEF BeatIsResult, ReportedWasStored
<1> QED
  BY <1>7, <1>8, <1>9, <1>10, <1>11 DEF UpgradeInv, RunsAreSound

LEMMA RebootKeeps ==
    ASSUME UpgradeInv, Reboot
    PROVE  UpgradeInv'
<1>1. /\ UpgradeTypes /\ LineIsStarted /\ AcceptedIsRun /\ ReportedWasStored
  BY DEF UpgradeInv
<1>2. /\ odd = {} /\ odd' = {"reboot"} /\ beat' = Absent
      /\ proc' = [r \in Runs |-> IF r \in Active THEN [proc[r] EXCEPT !.step = "done"] ELSE proc[r]]
      /\ UNCHANGED <<kind, fit, staged, bin, backups, requestVars, result, stored>>
  BY DEF Reboot
<1>3. ~Calm'
  BY <1>2 DEF Calm
<1>4. \A r \in Runs : /\ proc'[r] \in Process /\ proc'[r].job = proc[r].job
                      /\ proc'[r].step \in {"idle", "done"} /\ (proc[r].step = "idle" => proc'[r].step = "idle")
                      /\ (proc'[r].step = "idle" => proc[r].step = "idle")
  <2> TAKE r \in Runs
  <2>1. proc[r] \in Process
    BY <1>1 DEF UpgradeTypes
  <2>2. CASE r \in Active
    <3>1. proc'[r] = [proc[r] EXCEPT !.step = "done"]
      BY <1>2, <2>2
    <3> QED
      BY <2>1, <2>2, <3>1 DEF Process, Details, Active
  <2>3. CASE r \notin Active
    BY <1>2, <2>1, <2>3 DEF Active
  <2> QED
    BY <2>2, <2>3
<1>5. Active' = {}
  BY <1>4 DEF Active
<1>6. UpgradeTypes'
  <2>1. proc' \in [Runs -> Process]
    BY <1>2, <1>4
  <2>2. \A r \in Runs : proc'[r].job <= jobs /\ (proc'[r].step # "idle" => proc'[r].job # 0)
    BY <1>1, <1>4 DEF UpgradeTypes
  <2> QED
    BY <1>1, <1>2, <2>1, <2>2 DEF UpgradeTypes
<1>7. LineIsStarted' /\ AcceptedIsRun' /\ BeatIsResult' /\ ReportedWasStored'
  BY <1>1, <1>2, <1>5 DEF LineIsStarted, AcceptedIsRun, BeatIsResult, ReportedWasStored
<1> QED
  BY <1>3, <1>6, <1>7 DEF UpgradeInv, ReadyToRun, OneAtATime, RunsAreSound

\* The binary that runs, and its heartbeats.
LEMMA LivesKeep ==
    ASSUME UpgradeInv, Dies \/ Respawn \/ Beat \/ Served \/ Answered
    PROVE  UpgradeInv'
<1>1. /\ UpgradeTypes /\ LineIsStarted /\ AcceptedIsRun /\ ReadyToRun
      /\ BeatIsResult /\ ReportedWasStored
  BY DEF UpgradeInv
<1>2. /\ UNCHANGED <<kind, fit, staged, bin, wanted, backups, requestVars, proc>>
      /\ odd' = odd \/ (odd' = {"ledger"} /\ odd = {})
  BY DEF Dies, Respawn, Beat, Served, Answered
<1>3. /\ result' \in [run : 0..MaxRuns, outcome : Outcomes, reported : BOOLEAN]
      /\ result'.run = result.run /\ result'.outcome = result.outcome
      /\ result'.reported = result.reported \/ Answered
  <2>1. UNCHANGED result \/ (Answered /\ result' = [result EXCEPT !.reported = TRUE])
    BY DEF Dies, Respawn, Beat, Served, Answered
  <2> QED
    BY <1>1, <2>1 DEF UpgradeTypes
<1>4. bin = "old" /\ up = "old" => up' = "old"
  BY DEF Dies, Respawn, Beat, Served, Answered, FitOf
<1>5. up = Absent /\ kind # "systemd" => up' = Absent
  BY DEF Dies, Respawn, Beat, Served, Answered
<1>6. odd \subseteq odd' /\ Active' = Active
  BY <1>2 DEF Active
<1>7. OneAtATime' /\ RunsAreSound' /\ (Calm' => Calm)
  BY <1>2, <1>3, <1>4, <1>5, <1>6, RunsRest
<1>8. UpgradeTypes'
  BY <1>1, <1>2, <1>3 DEF UpgradeTypes
<1>9. LineIsStarted' /\ AcceptedIsRun' /\ ReadyToRun'
  BY <1>1, <1>2, <1>6, <1>7 DEF LineIsStarted, AcceptedIsRun, ReadyToRun
<1>10. BeatIsResult'
  <2>1. beat' = beat \/ beat' = Absent \/ beat' = result.run
    BY DEF Dies, Respawn, Beat, Served, Answered
  <2> QED
    BY <1>1, <1>2, <1>3, <2>1 DEF BeatIsResult
<1>11. ReportedWasStored'
  <2>1. stored \subseteq stored' /\ ("overtaken" \notin odd' => "overtaken" \notin odd)
        /\ ("ledger" \notin odd' => "ledger" \notin odd)
    BY <1>2 DEF Dies, Respawn, Beat, Served, Answered
  <2>2. ASSUME result'.reported, ~result.reported, odd' \cap {"ledger", "overtaken"} = {}
        PROVE  result.run \in stored
    <3>1. Answered
      BY <1>1, <1>3, <2>2 DEF UpgradeTypes
    <3>2. beat # Absent /\ UNCHANGED <<stored, odd>>
      BY <3>1 DEF Answered
    <3>3. beat \in stored \/ "ledger" \in odd
      BY <2>2, <3>1 DEF Answered, MarkedWhen
    <3> QED
      BY <1>1, <2>1, <2>2, <3>2, <3>3 DEF BeatIsResult
  <2> QED
    BY <1>1, <1>3, <2>1, <2>2 DEF ReportedWasStored
<1> QED
  BY <1>7, <1>8, <1>9, <1>10, <1>11 DEF UpgradeInv

LEMMA UpgradeStarts == UpgradeInit => UpgradeInv
<1> SUFFICES ASSUME UpgradeInit PROVE UpgradeInv
  OBVIOUS
<1>1. proc = [r \in Runs |-> Idle] /\ \A r \in Runs : proc[r] = Idle
  BY DEF UpgradeInit
<1>2. Idle \in Process /\ Idle.step = "idle" /\ Idle.job = 0
  BY UpgradeAssumption DEF Idle, Process, Details, Outcomes
<1>3. Active = {}
  BY <1>1, <1>2 DEF Active
<1>4. UpgradeTypes
  <2>1. [run |-> 0, outcome |-> Absent, reported |-> TRUE] \in [run : 0..MaxRuns, outcome : Outcomes, reported : BOOLEAN]
    BY UpgradeAssumption DEF Outcomes
  <2>2. result \in [run : 0..MaxRuns, outcome : Outcomes, reported : BOOLEAN]
    BY <2>1 DEF UpgradeInit
  <2>3. proc \in [Runs -> Process] /\ \A r \in Runs : proc[r].job = 0 /\ proc[r].step = "idle"
    BY <1>1, <1>2
  <2>4. /\ backups \in [1..MaxJobs -> Binaries \cup {Absent}]
        /\ before \in [1..MaxJobs -> Binaries \cup {Absent}]
    BY DEF UpgradeInit
  <2>5. jobs = 0 /\ script = 0 /\ line = FALSE /\ staged = "new" /\ bin = "old"
        /\ kind \in {"systemd", "direct"} /\ fit \in {"good", "late", "bad"}
    BY DEF UpgradeInit
  <2>6. jobs \in 0..MaxJobs /\ script \in 0..jobs
    BY <2>5, UpgradeAssumption
  <2>9. line \in BOOLEAN /\ (line => script # 0)
    BY <2>5, Zenon
  <2>7. staged \in Binaries \cup {Absent} /\ bin \in Binaries \cup {Absent}
    BY <2>5 DEF Binaries
  <2>8. \A r \in Runs : proc[r].job <= jobs /\ (proc[r].step # "idle" => proc[r].job # 0)
    BY <2>3, <2>5
  <2> QED
    BY <2>2, <2>3, <2>4, <2>5, <2>6, <2>7, <2>8, <2>9 DEF UpgradeTypes
<1>5. BeatIsResult /\ ReportedWasStored /\ LineIsStarted /\ AcceptedIsRun /\ ReadyToRun /\ OneAtATime
  BY <1>3 DEF UpgradeInit, BeatIsResult, ReportedWasStored, LineIsStarted, AcceptedIsRun, ReadyToRun, OneAtATime
<1>6. RunsAreSound
  BY <1>1, <1>2 DEF RunsAreSound, RunIsAt
<1> QED
  BY <1>4, <1>5, <1>6 DEF UpgradeInv

\* For any number of jobs and runs of the script: what a run reports is what it
\* left installed, a result marked reported was stored, an accepted job is run.
THEOREM UpgradeStaysTold == UpgradeSpec => []UpgradeTells
<1>1. UpgradeInv /\ [UpgradeNext]_upgradeVars => UpgradeInv'
  <2> SUFFICES ASSUME UpgradeInv, [UpgradeNext]_upgradeVars
               PROVE  UpgradeInv'
    OBVIOUS
  <2>1. CASE UNCHANGED upgradeVars
    <3>1. Active' = Active
      BY <2>1 DEF Active
    <3> QED
      BY <2>1, <3>1 DEF UpgradeInv, UpgradeTypes, BeatIsResult, ReportedWasStored, LineIsStarted, AcceptedIsRun,
         ReadyToRun, OneAtATime, RunsAreSound, RunIsAt, Calm, Told, Back, Saved
  <2>2. CASE UpgradeNext
    BY <2>2, RefuseKeeps, AcceptKeeps, StageKeeps, CronKeeps, StepKeeps, RebootKeeps, LivesKeep DEF UpgradeNext
  <2> QED
    BY <2>1, <2>2
<1>2. UpgradeInv => UpgradeTells
  <2> SUFFICES ASSUME UpgradeInv
               PROVE  OutcomeNamesBinary
    BY DEF UpgradeInv, UpgradeTells
  <2>1. RunsAreSound
    BY DEF UpgradeInv
  <2> QED
    BY <2>1 DEF OutcomeNamesBinary, RunsAreSound, RunIsAt, Told, Back, Calm
<1> QED
  BY <1>1, <1>2, UpgradeStarts, PTL DEF UpgradeSpec

-----------------------------------------------------------------------------
(* The eBPF collector                                                      *)

Counts == [Fields -> Nat]

IsCount(m) == DOMAIN m \subseteq Conns /\ m \in [DOMAIN m -> Counts]

\* The key that an entry probe left is that of the innermost call.
KeysArePaired ==
    /\ entry \in [Threads -> Conns \cup {NoConn}]
    /\ calls \in [Threads -> Seq(Frame)]
    /\ \A t \in Threads : entry[t] # NoConn => calls[t] # <<>> /\ Top(t).conn = entry[t]

\* Between its reading and its zeroing an entry stays, and only grows.
ReadStays ==
    \A k \in DOMAIN snapshot :
        pc = "read" \/ (pc = "zero" /\ k \in todo)
            => k \in DOMAIN agg /\ \A f \in Fields : snapshot[k][f] <= agg[k][f]

LoopTypes ==
    /\ IsCount(snapshot) /\ sent \in [Conns -> Counts]
    /\ pc \in {"sleep", "read", "zero"} /\ flush \in Nat /\ now \in Nat

\* The records made so far are of earlier buckets than those of this cycle.
BucketsPass ==
    flush >= Bucket =>
        /\ ~again
        /\ \A i \in ids : /\ i.bucket \in Int /\ i.bucket <= BucketStart(now)
                          /\ pc # "sleep" => i.bucket < BucketStart(now)

EbpfInv ==
    /\ happened \in [Conns -> Counts] /\ IsCount(agg)
    /\ KeysArePaired /\ LoopTypes /\ ReadStays
    /\ CountedOnce /\ BucketsPass

KeptIn(m, k, f) == IF k \in DOMAIN m THEN m[k][f] ELSE 0

LEMMA BumpAddsOne ==
    ASSUME NEW m, IsCount(m), NEW k \in Conns, NEW f \in Fields
    PROVE  /\ IsCount(Bump(m, k, f)) /\ DOMAIN m \subseteq DOMAIN Bump(m, k, f)
           /\ \A j \in Conns, g \in Fields :
                /\ KeptIn(m, j, g) \in Nat /\ KeptIn(Bump(m, k, f), j, g) \in Nat
                /\ KeptIn(m, j, g) <= KeptIn(Bump(m, k, f), j, g)
                /\ KeptIn(Bump(m, k, f), j, g) <= KeptIn(m, j, g) + (IF j = k /\ g = f THEN 1 ELSE 0)
<1>1. \A j \in Conns, g \in Fields : KeptIn(m, j, g) \in Nat
  BY DEF KeptIn, IsCount, Counts
<1>2. \A c \in Counts : With(c, f) \in Counts /\ With(c, f)[f] = c[f] + 1
                        /\ \A g \in Fields : g # f => With(c, f)[g] = c[g]
  BY DEF With, Counts
<1>3. Zero \in Counts /\ \A g \in Fields : Zero[g] = 0
  BY DEF Zero, Counts
<1>4. CASE k \in DOMAIN m
  <2>1. PICK b : b = Bump(m, k, f)
    OBVIOUS
  <2>2. b = [j \in DOMAIN m |-> IF j = k THEN With(m[k], f) ELSE m[j]]
    <3>1. DOMAIN m \cup {k} = DOMAIN m
      BY <1>4
    <3> QED
      BY <1>4, <2>1, <3>1 DEF Bump, Inserted
  <2>3. DOMAIN b = DOMAIN m /\ b[k] = With(m[k], f) /\ \A j \in DOMAIN m \ {k} : b[j] = m[j]
    BY <1>4, <2>2
  <2>4. m[k] \in Counts
    BY <1>4 DEF IsCount
  <2>5. IsCount(b)
    BY <1>2, <2>2, <2>3, <2>4 DEF IsCount
  <2>6. \A j \in Conns, g \in Fields :
           /\ KeptIn(b, j, g) \in Nat /\ KeptIn(m, j, g) <= KeptIn(b, j, g)
           /\ KeptIn(b, j, g) <= KeptIn(m, j, g) + (IF j = k /\ g = f THEN 1 ELSE 0)
    <3> TAKE j \in Conns, g \in Fields
    <3>1. CASE j = k
      <4>1. KeptIn(b, j, g) = With(m[k], f)[g] /\ KeptIn(m, j, g) = m[k][g] /\ m[k][g] \in Nat
        BY <1>4, <2>3, <2>4, <3>1 DEF KeptIn, Counts
      <4> QED
        BY <1>2, <2>4, <3>1, <4>1
    <3>2. CASE j # k
      <4>1. KeptIn(b, j, g) = KeptIn(m, j, g)
        BY <2>3, <3>2 DEF KeptIn
      <4> QED
        BY <1>1, <3>2, <4>1
    <3> QED
      BY <3>1, <3>2
  <2> QED
    BY <1>1, <2>1, <2>3, <2>5, <2>6
<1>5. CASE k \notin DOMAIN m /\ Cardinality(DOMAIN m) < MapMaxEntries
  <2>1. PICK b : b = Bump(m, k, f)
    OBVIOUS
  <2>3. b = [j \in DOMAIN m \cup {k} |-> IF j = k THEN With(Zero, f) ELSE m[j]]
    BY <1>5, <2>1 DEF Bump, Inserted
  <2>4. DOMAIN b = DOMAIN m \cup {k} /\ b[k] = With(Zero, f) /\ \A j \in DOMAIN m : b[j] = m[j]
    BY <1>5, <2>3
  <2>5. IsCount(b)
    BY <1>2, <1>3, <2>3 DEF IsCount
  <2>6. \A j \in Conns, g \in Fields :
           /\ KeptIn(b, j, g) \in Nat /\ KeptIn(m, j, g) <= KeptIn(b, j, g)
           /\ KeptIn(b, j, g) <= KeptIn(m, j, g) + (IF j = k /\ g = f THEN 1 ELSE 0)
    <3> TAKE j \in Conns, g \in Fields
    <3>1. CASE j = k
      <4>1. KeptIn(b, j, g) = With(Zero, f)[g] /\ KeptIn(m, j, g) = 0
        BY <1>5, <2>4, <3>1 DEF KeptIn
      <4> QED
        BY <1>2, <1>3, <3>1, <4>1
    <3>2. CASE j # k
      <4>1. KeptIn(b, j, g) = KeptIn(m, j, g)
        BY <2>4, <3>2 DEF KeptIn
      <4> QED
        BY <1>1, <3>2, <4>1
    <3> QED
      BY <3>1, <3>2
  <2> QED
    BY <1>1, <2>1, <2>4, <2>5, <2>6
<1>6. CASE k \notin DOMAIN m /\ ~(Cardinality(DOMAIN m) < MapMaxEntries)
  <2>1. Bump(m, k, f) = m
    BY <1>6 DEF Bump
  <2> QED
    BY <1>1, <2>1
<1> QED
  BY <1>4, <1>5, <1>6

\* A step of the kernel counts no more than what happened.
LEMMA KernelCounts ==
    ASSUME EbpfInv, UNCHANGED loopVars, happened' \in [Conns -> Counts], IsCount(agg'), KeysArePaired',
           DOMAIN agg \subseteq DOMAIN agg',
           \A k \in Conns, f \in Fields :
               /\ KeptIn(agg, k, f) <= KeptIn(agg', k, f)
               /\ KeptIn(agg', k, f) - KeptIn(agg, k, f) <= happened'[k][f] - happened[k][f]
    PROVE  EbpfInv'
<1>1. /\ happened \in [Conns -> Counts] /\ IsCount(agg) /\ LoopTypes /\ ReadStays /\ CountedOnce /\ BucketsPass
      /\ IsCount(snapshot) /\ sent \in [Conns -> Counts]
  BY DEF EbpfInv, LoopTypes
<1>2. /\ LoopTypes' /\ BucketsPass'
      /\ UNCHANGED <<pc, snapshot, todo, sent>>
  BY <1>1 DEF LoopTypes, BucketsPass, loopVars, BucketStart
<1>3. \A k \in Conns, f \in Fields :
         /\ KeptIn(agg, k, f) \in Nat /\ KeptIn(agg', k, f) \in Nat
         /\ happened[k][f] \in Nat /\ happened'[k][f] \in Nat
         /\ sent[k][f] \in Nat /\ Held(k, f) \in Nat
  BY <1>1 DEF KeptIn, IsCount, Counts, Held
<1>4. CountedOnce'
  <2> SUFFICES ASSUME NEW k \in Conns, NEW f \in Fields
               PROVE  sent'[k][f] + Held(k, f)' + Kept(k, f)' <= happened'[k][f]
    BY DEF CountedOnce
  <2>1. sent'[k][f] = sent[k][f] /\ Held(k, f)' = Held(k, f) /\ Kept(k, f)' = KeptIn(agg', k, f)
        /\ Kept(k, f) = KeptIn(agg, k, f)
    BY <1>2 DEF Held, Kept, KeptIn
  <2>2. sent[k][f] + Held(k, f) + KeptIn(agg, k, f) <= happened[k][f]
    BY <1>1, <2>1 DEF CountedOnce
  <2>3. KeptIn(agg', k, f) - KeptIn(agg, k, f) <= happened'[k][f] - happened[k][f]
    OBVIOUS
  <2> QED
    BY <1>3, <2>1, <2>2, <2>3
<1>5. ReadStays'
  <2> SUFFICES ASSUME NEW k \in DOMAIN snapshot, pc = "read" \/ (pc = "zero" /\ k \in todo)
               PROVE  k \in DOMAIN agg' /\ \A f \in Fields : snapshot[k][f] <= agg'[k][f]
    BY <1>2 DEF ReadStays
  <2>1. k \in DOMAIN agg /\ k \in DOMAIN agg' /\ k \in Conns /\ \A f \in Fields : snapshot[k][f] <= agg[k][f]
    BY <1>1 DEF ReadStays, IsCount
  <2>2. \A f \in Fields : agg[k][f] <= agg'[k][f]
    BY <2>1 DEF KeptIn
  <2>3. \A f \in Fields : snapshot[k][f] \in Nat /\ agg[k][f] \in Nat /\ agg'[k][f] \in Nat
    BY <1>1, <2>1 DEF IsCount, Counts
  <2> QED
    BY <2>1, <2>2, <2>3
<1> QED
  BY <1>1, <1>2, <1>4, <1>5 DEF EbpfInv

\* One more of a field has happened to a connection.
LEMMA HappensAddsOne ==
    ASSUME happened \in [Conns -> Counts], NEW k \in Conns, NEW f \in Fields, Happens(k, f)
    PROVE  /\ happened' \in [Conns -> Counts]
           /\ \A j \in Conns, g \in Fields :
                happened'[j][g] - happened[j][g] = (IF j = k /\ g = f THEN 1 ELSE 0)
<1>1. happened' = [happened EXCEPT ![k] = [happened[k] EXCEPT ![f] = @ + 1]]
  BY DEF Happens, With
<1>2. happened[k] \in Counts
  OBVIOUS
<1> QED
  BY <1>1, <1>2 DEF Counts

LEMMA EstablishedKeeps ==
    ASSUME EbpfInv, NEW k \in Conns, Established(k), UNCHANGED loopVars
    PROVE  EbpfInv'
<1>1. happened \in [Conns -> Counts] /\ IsCount(agg) /\ KeysArePaired
  BY DEF EbpfInv
<1>2. /\ Happens(k, "connections") /\ UNCHANGED <<entry, calls>> /\ "connections" \in Fields
      /\ agg' = agg \/ agg' = Bump(agg, k, "connections")
  BY DEF Established, Fields
<1>3. /\ happened' \in [Conns -> Counts]
      /\ \A j \in Conns, g \in Fields :
           happened'[j][g] - happened[j][g] = (IF j = k /\ g = "connections" THEN 1 ELSE 0)
  BY <1>1, <1>2, HappensAddsOne
<1>4. /\ IsCount(agg') /\ DOMAIN agg \subseteq DOMAIN agg'
      /\ \A j \in Conns, g \in Fields :
           /\ KeptIn(agg, j, g) \in Nat /\ KeptIn(agg', j, g) \in Nat
           /\ KeptIn(agg, j, g) <= KeptIn(agg', j, g)
           /\ KeptIn(agg', j, g) <= KeptIn(agg, j, g) + (IF j = k /\ g = "connections" THEN 1 ELSE 0)
  <2>1. PICK b : b = Bump(agg, k, "connections")
    OBVIOUS
  <2>2. /\ IsCount(b) /\ DOMAIN agg \subseteq DOMAIN b
        /\ \A j \in Conns, g \in Fields :
             /\ KeptIn(agg, j, g) \in Nat /\ KeptIn(b, j, g) \in Nat
             /\ KeptIn(agg, j, g) <= KeptIn(b, j, g)
             /\ KeptIn(b, j, g) <= KeptIn(agg, j, g) + (IF j = k /\ g = "connections" THEN 1 ELSE 0)
    BY <1>1, <1>2, <2>1, BumpAddsOne
  <2> QED
    BY <1>1, <1>2, <2>1, <2>2
<1>5. KeysArePaired'
  BY <1>1, <1>2 DEF KeysArePaired, Top
<1>6. \A j \in Conns, g \in Fields :
         KeptIn(agg', j, g) - KeptIn(agg, j, g) <= happened'[j][g] - happened[j][g]
  BY <1>3, <1>4
<1> QED
  BY <1>3, <1>4, <1>5, <1>6, KernelCounts

LEMMA ClosedKeeps ==
    ASSUME EbpfInv, NEW k \in Conns, NEW s, Closed(k, s), UNCHANGED loopVars
    PROVE  EbpfInv'
<1>1. happened \in [Conns -> Counts] /\ IsCount(agg) /\ KeysArePaired
  BY DEF EbpfInv
<1> DEFINE one == IF k \in born THEN Bump(agg, k, "durations") ELSE agg
           two == IF s = "SYN_SENT" THEN Bump(one, k, "failures") ELSE one
           add == IF s = "SYN_SENT" THEN 1 ELSE 0
<1>2. /\ happened' = [happened EXCEPT ![k].durations = @ + 1, ![k].failures = @ + add]
      /\ UNCHANGED <<entry, calls>> /\ {"durations", "failures"} \subseteq Fields
      /\ agg' = agg \/ agg' = two
  BY DEF Closed, Fields
<1>3. /\ happened' \in [Conns -> Counts]
      /\ \A j \in Conns, g \in Fields :
           happened'[j][g] - happened[j][g]
             = (IF j = k /\ g = "durations" THEN 1 ELSE 0) + (IF j = k /\ g = "failures" THEN add ELSE 0)
  <2>1. happened[k] \in Counts /\ add \in Nat
    BY <1>1
  <2>2. happened' = [happened EXCEPT ![k] = [happened[k] EXCEPT !["durations"] = @ + 1, !["failures"] = @ + add]]
    BY <1>1, <1>2
  <2>3. PICK n \in Counts : n = happened'[k]
    BY <1>1, <2>1, <2>2 DEF Counts
  <2>4. /\ n["durations"] = happened[k]["durations"] + 1 /\ n["failures"] = happened[k]["failures"] + add
        /\ \A g \in Fields \ {"durations", "failures"} : n[g] = happened[k][g]
    BY <1>1, <1>2, <2>1, <2>2, <2>3 DEF Counts
  <2>5. happened' \in [Conns -> Counts] /\ \A j \in Conns \ {k} : happened'[j] = happened[j]
    BY <1>1, <2>2, <2>3
  <2> HIDE DEF add
  <2>6. ASSUME NEW j \in Conns, NEW g \in Fields
        PROVE  happened'[j][g] - happened[j][g]
                 = (IF j = k /\ g = "durations" THEN 1 ELSE 0) + (IF j = k /\ g = "failures" THEN add ELSE 0)
    <3>1. happened[j][g] \in Nat
      BY <1>1 DEF Counts
    <3>2. CASE j # k
      BY <2>5, <3>1, <3>2
    <3>3. CASE j = k /\ g = "durations"
      BY <2>3, <2>4, <3>1, <3>3
    <3>4. CASE j = k /\ g = "failures"
      BY <2>1, <2>3, <2>4, <3>1, <3>4
    <3>5. CASE j = k /\ g \notin {"durations", "failures"}
      BY <2>3, <2>4, <3>1, <3>5
    <3> QED
      BY <3>2, <3>3, <3>4, <3>5
  <2> QED
    BY <2>5, <2>6
<1>4. /\ IsCount(two) /\ DOMAIN agg \subseteq DOMAIN two
      /\ \A j \in Conns, g \in Fields :
           /\ KeptIn(agg, j, g) \in Nat /\ KeptIn(two, j, g) \in Nat
           /\ KeptIn(agg, j, g) <= KeptIn(two, j, g)
           /\ KeptIn(two, j, g) <= KeptIn(agg, j, g)
                + (IF j = k /\ g = "durations" THEN 1 ELSE 0) + (IF j = k /\ g = "failures" THEN add ELSE 0)
  <2>1. PICK a, b, c : a = agg /\ b = one /\ c = two
    OBVIOUS
  <2>2. IsCount(a) /\ \A j \in Conns, g \in Fields : KeptIn(a, j, g) \in Nat
    BY <1>1, <2>1 DEF KeptIn, IsCount, Counts
  <2>3. /\ IsCount(b) /\ DOMAIN a \subseteq DOMAIN b
        /\ \A j \in Conns, g \in Fields :
             /\ KeptIn(b, j, g) \in Nat
             /\ KeptIn(a, j, g) <= KeptIn(b, j, g)
             /\ KeptIn(b, j, g) <= KeptIn(a, j, g) + (IF j = k /\ g = "durations" THEN 1 ELSE 0)
    <3>1. CASE b = a
      BY <2>2, <3>1
    <3>2. CASE b = Bump(a, k, "durations")
      BY <1>2, <2>2, <3>2, BumpAddsOne
    <3> QED
      BY <2>1, <3>1, <3>2
  <2>4. /\ IsCount(c) /\ DOMAIN b \subseteq DOMAIN c
        /\ \A j \in Conns, g \in Fields :
             /\ KeptIn(c, j, g) \in Nat
             /\ KeptIn(b, j, g) <= KeptIn(c, j, g)
             /\ KeptIn(c, j, g) <= KeptIn(b, j, g) + (IF j = k /\ g = "failures" THEN add ELSE 0)
    <3>1. CASE s # "SYN_SENT"
      BY <2>1, <2>3, <3>1
    <3>2. CASE s = "SYN_SENT"
      <4>1. c = Bump(b, k, "failures") /\ add = 1
        BY <2>1, <3>2
      <4> QED
        BY <1>2, <2>3, <4>1, BumpAddsOne
    <3> QED
      BY <3>1, <3>2
  <2> HIDE DEF one, two
  <2>5. IsCount(c) /\ DOMAIN a \subseteq DOMAIN c
    BY <2>3, <2>4
  <2>6. ASSUME NEW j \in Conns, NEW g \in Fields
        PROVE  /\ KeptIn(a, j, g) \in Nat /\ KeptIn(c, j, g) \in Nat
               /\ KeptIn(a, j, g) <= KeptIn(c, j, g)
               /\ KeptIn(c, j, g) <= KeptIn(a, j, g)
                    + (IF j = k /\ g = "durations" THEN 1 ELSE 0) + (IF j = k /\ g = "failures" THEN add ELSE 0)
    BY <2>2, <2>3, <2>4
  <2> QED
    BY <2>1, <2>5, <2>6
<1> HIDE DEF one, two
<1>5. KeysArePaired'
  BY <1>1, <1>2 DEF KeysArePaired, Top
<1>6. IsCount(agg') /\ DOMAIN agg \subseteq DOMAIN agg'
  BY <1>1, <1>2, <1>4
<1>7. ASSUME NEW j \in Conns, NEW g \in Fields
      PROVE  /\ KeptIn(agg, j, g) <= KeptIn(agg', j, g)
             /\ KeptIn(agg', j, g) - KeptIn(agg, j, g) <= happened'[j][g] - happened[j][g]
  <2>1. add \in {0, 1}
    OBVIOUS
  <2> HIDE DEF add
  <2> QED
    BY <1>2, <1>3, <1>4, <2>1
<1> QED
  BY <1>3, <1>5, <1>6, <1>7, KernelCounts

LEMMA EnterKeeps ==
    ASSUME EbpfInv, NEW t \in Threads, NEW fn \in {"send", "connect"}, NEW k \in Conns, Enter(t, fn, k),
           UNCHANGED loopVars
    PROVE  EbpfInv'
<1>1. happened \in [Conns -> Counts] /\ IsCount(agg) /\ KeysArePaired
      /\ calls \in [Threads -> Seq(Frame)] /\ entry \in [Threads -> Conns \cup {NoConn}]
  BY DEF EbpfInv, KeysArePaired
<1>2. /\ UNCHANGED <<happened, agg>>
      /\ calls[t] = <<>> \/ Top(t).conn = k
      /\ calls' = [calls EXCEPT ![t] = Append(@, [fn |-> fn, conn |-> k])]
      /\ entry' = entry \/ entry' = [entry EXCEPT ![t] = k]
  BY DEF Enter
<1>3. PICK w \in Frame : w = [fn |-> fn, conn |-> k] /\ w.conn = k
  <2>1. [fn |-> fn, conn |-> k] \in Frame
    BY DEF Frame
  <2> QED
    BY <2>1
<1>4. PICK c \in Seq(Frame) : c = calls[t]
  BY <1>1
<1>5. /\ calls' \in [Threads -> Seq(Frame)] /\ calls'[t] = Append(c, w)
      /\ \A u \in Threads \ {t} : calls'[u] = calls[u]
  BY <1>1, <1>2, <1>3, <1>4
<1>6. calls'[t] # <<>> /\ Top(t)' = w
  BY <1>5 DEF Top
<1>7. KeysArePaired'
  <2>1. entry' \in [Threads -> Conns \cup {NoConn}] /\ \A u \in Threads \ {t} : entry'[u] = entry[u]
    BY <1>1, <1>2
  <2>2. ASSUME NEW u \in Threads, entry'[u] # NoConn
        PROVE  calls'[u] # <<>> /\ Top(u)'.conn = entry'[u]
    <3>1. CASE u # t
      BY <1>1, <1>5, <2>1, <2>2, <3>1 DEF KeysArePaired, Top
    <3>2. CASE u = t
      <4>1. entry'[t] = k
        <5>1. entry' = entry => calls[t] # <<>> /\ Top(t).conn = entry[t]
          BY <1>1, <2>2, <3>2 DEF KeysArePaired
        <5> QED
          BY <1>1, <1>2, <5>1
      <4> QED
        BY <1>3, <1>6, <3>2, <4>1
    <3> QED
      BY <3>1, <3>2
  <2> QED
    BY <1>5, <2>1, <2>2 DEF KeysArePaired
<1>8. \A j \in Conns, g \in Fields : KeptIn(agg, j, g) \in Nat /\ happened[j][g] \in Nat
  BY <1>1 DEF KeptIn, IsCount, Counts
<1> QED
  BY <1>1, <1>2, <1>7, <1>8, KernelCounts

LEMMA ReturnKeeps ==
    ASSUME EbpfInv, NEW t \in Threads, NEW counts \in BOOLEAN, Return(t, counts), UNCHANGED loopVars
    PROVE  EbpfInv'
<1>1. happened \in [Conns -> Counts] /\ IsCount(agg) /\ KeysArePaired
      /\ calls \in [Threads -> Seq(Frame)] /\ entry \in [Threads -> Conns \cup {NoConn}]
  BY DEF EbpfInv, KeysArePaired
<1>2. /\ calls[t] # <<>>
      /\ calls' = [calls EXCEPT ![t] = SubSeq(@, 1, Len(@) - 1)]
      /\ entry' = [entry EXCEPT ![t] = NoConn]
  BY DEF Return
<1>3. PICK c \in Seq(Frame) : c = calls[t]
  BY <1>1
<1>4. c # <<>> /\ Len(c) \in 1 .. Len(c) /\ c[Len(c)] \in Frame /\ SubSeq(c, 1, Len(c) - 1) \in Seq(Frame)
  BY <1>2, <1>3
<1>5. PICK w \in Frame : w = Top(t)
  BY <1>3, <1>4 DEF Top
<1>6. KeysArePaired'
  <2>1. /\ calls' \in [Threads -> Seq(Frame)] /\ \A u \in Threads \ {t} : calls'[u] = calls[u]
        /\ entry' \in [Threads -> Conns \cup {NoConn}] /\ entry'[t] = NoConn
        /\ \A u \in Threads \ {t} : entry'[u] = entry[u]
    BY <1>1, <1>2, <1>3, <1>4
  <2> QED
    BY <1>1, <2>1 DEF KeysArePaired, Top
<1>7. \A j \in Conns, g \in Fields : KeptIn(agg, j, g) \in Nat /\ happened[j][g] \in Nat
  BY <1>1 DEF KeptIn, IsCount, Counts
<1>8. CASE ~counts
  <2>1. UNCHANGED <<happened, agg>>
    BY <1>8 DEF Return
  <2> QED
    BY <1>1, <1>6, <1>7, <2>1, KernelCounts
<1>9. CASE counts
  <2>1. PICK f \in Fields : f = FieldOf(w.fn)
    BY DEF FieldOf, Fields
  <2>2. /\ w.conn \in Conns /\ Happens(w.conn, f)
        /\ agg' = IF entry[t] = NoConn THEN agg ELSE Bump(agg, entry[t], f)
    BY <1>5, <1>9, <2>1 DEF Return, Frame
  <2>3. /\ happened' \in [Conns -> Counts]
        /\ \A j \in Conns, g \in Fields :
             happened'[j][g] - happened[j][g] = (IF j = w.conn /\ g = f THEN 1 ELSE 0)
    BY <1>1, <2>2, HappensAddsOne
  <2>4. agg' = agg \/ agg' = Bump(agg, w.conn, f)
    BY <1>1, <1>5, <2>2 DEF KeysArePaired
  <2>5. /\ IsCount(agg') /\ DOMAIN agg \subseteq DOMAIN agg'
        /\ \A j \in Conns, g \in Fields :
             /\ KeptIn(agg, j, g) \in Nat /\ KeptIn(agg', j, g) \in Nat
             /\ KeptIn(agg, j, g) <= KeptIn(agg', j, g)
             /\ KeptIn(agg', j, g) <= KeptIn(agg, j, g) + (IF j = w.conn /\ g = f THEN 1 ELSE 0)
    <3>1. PICK b : b = Bump(agg, w.conn, f)
      OBVIOUS
    <3>2. /\ IsCount(b) /\ DOMAIN agg \subseteq DOMAIN b
          /\ \A j \in Conns, g \in Fields :
               /\ KeptIn(agg, j, g) \in Nat /\ KeptIn(b, j, g) \in Nat
               /\ KeptIn(agg, j, g) <= KeptIn(b, j, g)
               /\ KeptIn(b, j, g) <= KeptIn(agg, j, g) + (IF j = w.conn /\ g = f THEN 1 ELSE 0)
      BY <1>1, <2>2, <3>1, BumpAddsOne
    <3> QED
      BY <1>1, <1>7, <2>4, <3>1, <3>2
  <2>6. \A j \in Conns, g \in Fields :
           KeptIn(agg', j, g) - KeptIn(agg, j, g) <= happened'[j][g] - happened[j][g]
    BY <2>3, <2>5
  <2> QED
    BY <1>6, <2>3, <2>5, <2>6, KernelCounts
<1> QED
  BY <1>8, <1>9

LEMMA KernelKeeps ==
    ASSUME EbpfInv, Kernel, UNCHANGED loopVars
    PROVE  EbpfInv'
BY EstablishedKeeps, ClosedKeeps, EnterKeeps, ReturnKeeps DEF Kernel

LEMMA EmptyCounts == IsCount(Empty) /\ DOMAIN Empty = {}
BY DEF Empty, IsCount

LEMMA ModRange == \A a \in Nat, b \in Nat \ {0} : a % b \in 0 .. b - 1
OBVIOUS

\* The bucket of a later cycle is another one if the interval is as long.
LEMMA BucketsRise ==
    /\ \A a \in Nat : BucketStart(a) \in Int
    /\ \A a, b \in Nat : b >= Bucket => BucketStart(a) < BucketStart(a + b)
<1>1. Bucket \in Nat \ {0}
  BY EbpfAssumption
<1>2. \A a \in Nat : a % Bucket \in 0 .. Bucket - 1
  BY <1>1, ModRange
<1>3. \A a \in Nat : a % Bucket \in Int
  BY <1>1, <1>2
<1>4. ASSUME NEW a \in Nat, NEW b \in Nat, b >= Bucket
      PROVE  BucketStart(a) < BucketStart(a + b)
  <2>1. PICK c \in 0 .. Bucket - 1 : c = a % Bucket
    BY <1>2
  <2>2. PICK d \in 0 .. Bucket - 1 : d = (a + b) % Bucket
    BY <1>2, <1>4
  <2>3. a - c < a + b - d
    BY <1>1, <1>4
  <2> QED
    BY <2>1, <2>2, <2>3 DEF BucketStart
<1> QED
  BY <1>3, <1>4 DEF BucketStart

\* Where what the loop holds is given up or not yet zeroed, nothing is gained.
LEMMA LoopGainsNothing ==
    ASSUME EbpfInv, UNCHANGED kernelVars, UNCHANGED sent, LoopTypes', ReadStays', BucketsPass',
           \A k \in Conns, f \in Fields : Held(k, f)' = 0
    PROVE  EbpfInv'
<1>1. /\ happened \in [Conns -> Counts] /\ IsCount(agg) /\ KeysArePaired /\ CountedOnce
      /\ IsCount(snapshot) /\ sent \in [Conns -> Counts]
  BY DEF EbpfInv, LoopTypes
<1>2. KeysArePaired' /\ UNCHANGED <<happened, agg>>
  BY <1>1 DEF KeysArePaired, Top, kernelVars
<1>3. CountedOnce'
  <2> SUFFICES ASSUME NEW k \in Conns, NEW f \in Fields
               PROVE  sent'[k][f] + Held(k, f)' + Kept(k, f)' <= happened'[k][f]
    BY DEF CountedOnce
  <2>1. sent[k][f] \in Nat /\ Held(k, f) \in Nat /\ Kept(k, f) \in Nat /\ happened[k][f] \in Nat
    BY <1>1 DEF Held, Kept, IsCount, Counts
  <2>2. Kept(k, f)' = Kept(k, f) /\ Held(k, f)' = 0
    BY <1>2 DEF Kept
  <2>3. sent[k][f] + Held(k, f) + Kept(k, f) <= happened[k][f]
    BY <1>1 DEF CountedOnce
  <2> QED
    BY <1>2, <2>1, <2>2, <2>3
<1> QED
  BY <1>1, <1>2, <1>3 DEF EbpfInv

LEMMA WakeKeeps ==
    ASSUME EbpfInv, Wake, UNCHANGED kernelVars
    PROVE  EbpfInv'
<1>1. LoopTypes /\ BucketsPass /\ flush \in Nat /\ now \in Nat
  BY DEF EbpfInv, LoopTypes
<1>2. /\ pc = "sleep" /\ pc' = "read" /\ now' = now + flush /\ snapshot' = Empty
      /\ UNCHANGED <<flush, sent, ids, again>>
  BY DEF Wake
<1>3. LoopTypes' /\ ReadStays'
  BY <1>1, <1>2, EmptyCounts DEF LoopTypes, ReadStays
<1>4. BucketsPass'
  <2> SUFFICES ASSUME flush >= Bucket
               PROVE  ~again /\ \A i \in ids : /\ i.bucket \in Int /\ i.bucket <= BucketStart(now')
                                               /\ i.bucket < BucketStart(now')
    BY <1>2 DEF BucketsPass, BucketStart
  <2>1. ~again /\ \A i \in ids : i.bucket \in Int /\ i.bucket <= BucketStart(now)
    BY <1>1 DEF BucketsPass
  <2>2. /\ BucketStart(now) < BucketStart(now + flush)
        /\ BucketStart(now) \in Int /\ BucketStart(now + flush) \in Int
    BY <1>1, BucketsRise
  <2> QED
    BY <1>2, <2>1, <2>2
<1>5. \A k \in Conns, f \in Fields : Held(k, f)' = 0
  BY <1>2 DEF Held
<1> QED
  BY <1>2, <1>3, <1>4, <1>5, LoopGainsNothing

LEMMA ReadKeyKeeps ==
    ASSUME EbpfInv, NEW k \in Conns, ReadKey(k), UNCHANGED kernelVars
    PROVE  EbpfInv'
<1>1. LoopTypes /\ BucketsPass /\ ReadStays /\ IsCount(snapshot) /\ IsCount(agg)
  BY DEF EbpfInv, LoopTypes
<1>2. /\ pc = "read" /\ k \in DOMAIN agg
      /\ snapshot' = [j \in DOMAIN snapshot \cup {k} |-> IF j = k THEN agg[k] ELSE snapshot[j]]
      /\ UNCHANGED <<pc, todo, flush, now, sent, ids, again>> /\ agg' = agg
  BY DEF ReadKey, Inserted, kernelVars
<1>3. agg[k] \in Counts
  BY <1>1, <1>2 DEF IsCount
<1>4. IsCount(snapshot')
  BY <1>1, <1>2, <1>3 DEF IsCount
<1>5. ReadStays'
  <2>1. \A f \in Fields : agg[k][f] <= agg[k][f]
    BY <1>3 DEF Counts
  <2> QED
    BY <1>1, <1>2, <2>1 DEF ReadStays
<1>6. LoopTypes' /\ BucketsPass'
  BY <1>1, <1>2, <1>4 DEF LoopTypes, BucketsPass, BucketStart
<1>7. \A j \in Conns, f \in Fields : Held(j, f)' = 0
  BY <1>2 DEF Held
<1> QED
  BY <1>2, <1>5, <1>6, <1>7, LoopGainsNothing

LEMMA ReadEndsKeeps ==
    ASSUME EbpfInv, ReadEnds, UNCHANGED kernelVars
    PROVE  EbpfInv'
<1>1. LoopTypes /\ BucketsPass /\ ReadStays
  BY DEF EbpfInv
<1>2. /\ pc = "read" /\ pc' = "zero" /\ todo' = DOMAIN snapshot
      /\ UNCHANGED <<snapshot, flush, now, sent, ids, again>> /\ agg' = agg
  BY DEF ReadEnds, kernelVars
<1>3. LoopTypes' /\ BucketsPass' /\ ReadStays'
  BY <1>1, <1>2 DEF LoopTypes, BucketsPass, BucketStart, ReadStays
<1>4. \A j \in Conns, f \in Fields : Held(j, f)' = 0
  BY <1>2 DEF Held
<1> QED
  BY <1>2, <1>3, <1>4, LoopGainsNothing

LEMMA DrainFailsKeeps ==
    ASSUME EbpfInv, DrainFails, UNCHANGED kernelVars
    PROVE  EbpfInv'
<1>1. LoopTypes /\ BucketsPass
  BY DEF EbpfInv
<1>2. /\ pc' = "sleep" /\ snapshot' = Empty
      /\ UNCHANGED <<flush, now, sent, ids, again>>
  BY DEF DrainFails
<1>3. LoopTypes' /\ BucketsPass' /\ ReadStays'
  BY <1>1, <1>2, EmptyCounts DEF LoopTypes, BucketsPass, BucketStart, ReadStays
<1>4. \A j \in Conns, f \in Fields : Held(j, f)' = 0
  BY <1>2 DEF Held
<1> QED
  BY <1>2, <1>3, <1>4, LoopGainsNothing

\* What was read of an entry is held from its zeroing on.
LEMMA ZeroKeyKeeps ==
    ASSUME EbpfInv, NEW k \in Conns, ZeroKey(k), UNCHANGED <<happened, born, entry, calls, ops>>
    PROVE  EbpfInv'
<1>1. /\ happened \in [Conns -> Counts] /\ IsCount(agg) /\ KeysArePaired /\ CountedOnce
      /\ LoopTypes /\ BucketsPass /\ ReadStays /\ IsCount(snapshot) /\ sent \in [Conns -> Counts]
  BY DEF EbpfInv, LoopTypes
<1>2. /\ pc = "zero" /\ k \in todo /\ todo' = todo \ {k} /\ agg' = [agg EXCEPT ![k] = Zero]
      /\ UNCHANGED <<pc, snapshot, flush, now, sent, ids, again>>
  BY DEF ZeroKey
<1>3. Zero \in Counts /\ \A f \in Fields : Zero[f] = 0
  BY DEF Zero, Counts
<1>4. /\ IsCount(agg') /\ DOMAIN agg' = DOMAIN agg /\ (k \in DOMAIN agg => agg'[k] = Zero)
      /\ \A j \in DOMAIN agg \ {k} : agg'[j] = agg[j]
  BY <1>1, <1>2, <1>3 DEF IsCount
<1>5. LoopTypes' /\ BucketsPass' /\ KeysArePaired'
  BY <1>1, <1>2 DEF LoopTypes, BucketsPass, BucketStart, KeysArePaired, Top
<1>6. ReadStays'
  BY <1>1, <1>2, <1>4 DEF ReadStays
<1>7. CountedOnce'
  <2> SUFFICES ASSUME NEW j \in Conns, NEW f \in Fields
               PROVE  sent'[j][f] + Held(j, f)' + Kept(j, f)' <= happened'[j][f]
    BY DEF CountedOnce
  <2>1. sent[j][f] \in Nat /\ Held(j, f) \in Nat /\ Kept(j, f) \in Nat /\ happened[j][f] \in Nat
    BY <1>1 DEF Held, Kept, IsCount, Counts
  <2>2. sent[j][f] + Held(j, f) + Kept(j, f) <= happened[j][f]
    BY <1>1 DEF CountedOnce
  <2>3. CASE j # k
    <3>1. Held(j, f)' = Held(j, f) /\ Kept(j, f)' = Kept(j, f)
      BY <1>2, <1>4, <2>3 DEF Held, Kept
    <3> QED
      BY <1>2, <2>2, <3>1
  <2>4. CASE j = k /\ k \in DOMAIN snapshot
    <3>1. k \in DOMAIN agg /\ snapshot[k][f] <= agg[k][f]
      BY <1>1, <1>2, <2>4 DEF ReadStays
    <3>2. Held(j, f) = 0 /\ Kept(j, f) = agg[k][f] /\ Held(j, f)' = snapshot[k][f] /\ Kept(j, f)' = 0
      BY <1>2, <1>3, <1>4, <2>4, <3>1 DEF Held, Kept
    <3>3. snapshot[k][f] \in Nat /\ agg[k][f] \in Nat
      BY <1>1, <2>4, <3>1 DEF IsCount, Counts
    <3> QED
      BY <1>2, <2>1, <2>2, <3>1, <3>2, <3>3
  <2>5. CASE j = k /\ k \notin DOMAIN snapshot
    <3>1. Held(j, f) = 0 /\ Held(j, f)' = 0 /\ Kept(j, f)' = 0
      BY <1>2, <1>3, <1>4, <2>5 DEF Held, Kept
    <3> QED
      BY <1>2, <2>1, <2>2, <3>1
  <2> QED
    BY <2>3, <2>4, <2>5
<1> QED
  BY <1>1, <1>2, <1>4, <1>5, <1>6, <1>7 DEF EbpfInv

LEMMA ReportKeeps ==
    ASSUME EbpfInv, Report, UNCHANGED kernelVars
    PROVE  EbpfInv'
<1>1. /\ happened \in [Conns -> Counts] /\ IsCount(agg) /\ KeysArePaired /\ CountedOnce
      /\ LoopTypes /\ BucketsPass /\ IsCount(snapshot) /\ sent \in [Conns -> Counts] /\ now \in Nat
  BY DEF EbpfInv, LoopTypes
<1>2. /\ pc = "zero" /\ todo = {} /\ pc' = "sleep" /\ snapshot' = Empty
      /\ sent' = [k \in Conns |-> IF k \in Edges THEN [f \in Fields |-> sent[k][f] + snapshot[k][f]] ELSE sent[k]]
      /\ UNCHANGED <<todo, flush, now>> /\ UNCHANGED <<happened, agg, entry, calls>>
  BY DEF Report, kernelVars
<1>3. PICK made : /\ made = {[conn |-> k, bucket |-> BucketStart(now)] : k \in Edges}
                  /\ again' = (again \/ made \cap ids # {}) /\ ids' = ids \cup made
  BY DEF Report
<1>4. Edges \subseteq DOMAIN snapshot
  BY DEF Edges
<1>5. /\ sent' \in [Conns -> Counts]
      /\ \A k \in Conns, f \in Fields :
           sent'[k][f] = sent[k][f] + (IF k \in Edges THEN snapshot[k][f] ELSE 0)
  <2>1. \A k \in Edges, f \in Fields : sent[k][f] \in Nat /\ snapshot[k][f] \in Nat
    BY <1>1, <1>4 DEF IsCount, Counts
  <2>2. \A k \in Edges : [f \in Fields |-> sent[k][f] + snapshot[k][f]] \in Counts
    BY <2>1 DEF Counts
  <2>3. \A k \in Conns, f \in Fields : sent[k][f] \in Nat
    BY <1>1 DEF Counts
  <2>4. sent' \in [Conns -> Counts]
    BY <1>1, <1>2, <2>2
  <2>5. ASSUME NEW k \in Conns, NEW f \in Fields
        PROVE  sent'[k][f] = sent[k][f] + (IF k \in Edges THEN snapshot[k][f] ELSE 0)
    <3>1. CASE k \in Edges
      <4>1. sent'[k] = [g \in Fields |-> sent[k][g] + snapshot[k][g]]
        BY <1>2, <3>1
      <4> QED
        BY <3>1, <4>1
    <3>2. CASE k \notin Edges
      BY <1>2, <2>3, <3>2
    <3> QED
      BY <3>1, <3>2
  <2> QED
    BY <2>4, <2>5
<1>6. LoopTypes' /\ ReadStays' /\ KeysArePaired'
  BY <1>1, <1>2, <1>5, EmptyCounts DEF LoopTypes, ReadStays, KeysArePaired, Top
<1>7. CountedOnce'
  <2> SUFFICES ASSUME NEW k \in Conns, NEW f \in Fields
               PROVE  sent'[k][f] + Held(k, f)' + Kept(k, f)' <= happened'[k][f]
    BY DEF CountedOnce
  <2>1. sent[k][f] \in Nat /\ Held(k, f) \in Nat /\ Kept(k, f) \in Nat /\ happened[k][f] \in Nat
    BY <1>1 DEF Held, Kept, IsCount, Counts
  <2>2. sent[k][f] + Held(k, f) + Kept(k, f) <= happened[k][f]
    BY <1>1 DEF CountedOnce
  <2>3. Held(k, f)' = 0 /\ Kept(k, f)' = Kept(k, f)
    BY <1>2 DEF Held, Kept
  <2>4. k \in Edges => Held(k, f) = snapshot[k][f]
    BY <1>2, <1>4 DEF Held
  <2>5. k \in Edges => sent'[k][f] = sent[k][f] + Held(k, f)
    BY <1>5, <2>4
  <2>6. k \notin Edges => sent'[k][f] = sent[k][f]
    BY <1>5, <2>1
  <2> QED
    BY <1>2, <2>1, <2>2, <2>3, <2>5, <2>6
<1>8. BucketsPass'
  <2> SUFFICES ASSUME flush >= Bucket
               PROVE  ~again' /\ \A i \in ids' : i.bucket \in Int /\ i.bucket <= BucketStart(now)
    BY <1>2 DEF BucketsPass, BucketStart
  <2>1. ~again /\ \A i \in ids : i.bucket \in Int /\ i.bucket < BucketStart(now)
    BY <1>1, <1>2 DEF BucketsPass
  <2>2. \A i \in made : i.bucket = BucketStart(now)
    BY <1>3
  <2>3. BucketStart(now) \in Int
    BY <1>1, BucketsRise
  <2>4. made \cap ids = {}
    BY <2>1, <2>2, <2>3
  <2>5. ~again'
    BY <1>3, <2>1, <2>4
  <2>6. \A i \in ids : i.bucket \in Int /\ i.bucket <= BucketStart(now)
    BY <2>1, <2>3
  <2>7. \A i \in made : i.bucket \in Int /\ i.bucket <= BucketStart(now)
    BY <2>2, <2>3
  <2> QED
    BY <1>3, <2>5, <2>6, <2>7
<1> QED
  BY <1>1, <1>2, <1>6, <1>7, <1>8 DEF EbpfInv

LEMMA EbpfStarts == EbpfInit => EbpfInv
<1> SUFFICES ASSUME EbpfInit PROVE EbpfInv
  OBVIOUS
<1>1. Zero \in Counts /\ \A f \in Fields : Zero[f] = 0
  BY DEF Zero, Counts
<1>2. /\ happened = [k \in Conns |-> Zero] /\ sent = [k \in Conns |-> Zero]
      /\ agg = Empty /\ snapshot = Empty /\ pc = "sleep" /\ now = 0 /\ ids = {} /\ again = FALSE
      /\ entry = [t \in Threads |-> NoConn] /\ calls = [t \in Threads |-> <<>>]
      /\ flush \in {Bucket - 1, Bucket} \ {0}
  BY DEF EbpfInit
<1>3. happened \in [Conns -> Counts] /\ IsCount(agg)
  BY <1>1, <1>2, EmptyCounts
<1>4. KeysArePaired
  BY <1>2 DEF KeysArePaired
<1>5. LoopTypes
  BY <1>1, <1>2, EmptyCounts, EbpfAssumption DEF LoopTypes
<1>6. ReadStays
  BY <1>2 DEF ReadStays
<1>7. CountedOnce
  <2> SUFFICES ASSUME NEW k \in Conns, NEW f \in Fields
               PROVE  sent[k][f] + Held(k, f) + Kept(k, f) <= happened[k][f]
    BY DEF CountedOnce
  <2>1. Held(k, f) = 0 /\ Kept(k, f) = 0 /\ sent[k][f] = 0 /\ happened[k][f] = 0
    BY <1>1, <1>2, EmptyCounts DEF Held, Kept
  <2> QED
    BY <2>1
<1>8. BucketsPass
  BY <1>2 DEF BucketsPass
<1> QED
  BY <1>3, <1>4, <1>5, <1>6, <1>7, <1>8 DEF EbpfInv

\* For any connections, threads and bounds: whatever the probes and the loop
\* do between each other's steps, no count leaves the kernel twice, and with an
\* interval as long as a bucket no record takes the place of another.
THEOREM EdgesStayCounted == EbpfSpec => []EdgesAreCounted
<1>1. EbpfInv /\ [EbpfNext]_<<kernelVars, loopVars>> => EbpfInv'
  <2> SUFFICES ASSUME EbpfInv, [EbpfNext]_<<kernelVars, loopVars>>
               PROVE  EbpfInv'
    OBVIOUS
  <2>1. CASE UNCHANGED <<kernelVars, loopVars>>
    BY <2>1 DEF EbpfInv, IsCount, KeysArePaired, Top, LoopTypes, ReadStays, CountedOnce, Held, Kept,
       BucketsPass, BucketStart, kernelVars, loopVars
  <2>2. CASE EbpfNext
    BY <2>2, KernelKeeps, WakeKeeps, ReadKeyKeeps, ReadEndsKeeps, DrainFailsKeeps, ZeroKeyKeeps, ReportKeeps
       DEF EbpfNext, LoopAlone
  <2> QED
    BY <2>1, <2>2
<1>2. EbpfInv => EdgesAreCounted
  BY DEF EbpfInv, BucketsPass, EdgesAreCounted, RecordsDiffer
<1> QED
  BY <1>1, <1>2, EbpfStarts, PTL DEF EbpfSpec

-----------------------------------------------------------------------------
(* The log collectors                                                      *)

USE DEF logVars, fileVars, podVars

Positions == [inode : Nat, offset : Nat]

\* Whether the poll stands at an offset of a file.
Stands == state # Unknown \/ at \in {"read", "push"}

\* The poll stands at the file of the path or at one that was there before.
FileTypes ==
    /\ file \in [inode : Nat, length : Nat]
    /\ at \in {"sleep", "begin", "read", "push"}
    /\ Stands => state \in Positions /\ state.inode <= file.inode
    /\ at = "begin" => met \in Nat /\ met <= file.inode

LineRecord(i, e) ==
    [inode |-> i, offset |-> e - LineLen(i), text |-> <<i, e - LineLen(i), e>>]

\* The poll stands between two lines of the file, and the lines before it are
\* recorded.
LinesAreReached ==
    mode = "head" /\ cut = {} /\ Stands /\ state.inode = file.inode =>
        /\ state.offset <= file.length /\ state.offset % LineLen(file.inode) = 0
        /\ \A e \in 1..state.offset : e % LineLen(file.inode) = 0 => LineRecord(file.inode, e) \in Records

\* A record of text of the file of its id holds one whole line.
LinesAreWhole ==
    mode = "head" /\ cut = {} =>
        \A r \in Records :
            /\ r = [inode |-> r.inode, offset |-> r.offset, text |-> r.text]
            /\ r.text[1] = r.inode => r.text = <<r.inode, r.offset, r.offset + LineLen(r.inode)>>

ThreadStates == {"none", "open", "check", "line", "pause", "ended"}

Late(t) == {s \in shipped : s.thread = t /\ s.late}

\* The one thread that is not told to stop is the one that is known, and one
\* that sent a line after it was told is about to end.
FollowersAreKnown ==
    /\ threads \in [Followers -> [at : ThreadStates, stop : BOOLEAN, read : Nat]]
    /\ active \in Followers \cup {Unknown}
    /\ \A t \in Followers :
         /\ threads[t].at \notin {"none", "ended"} /\ ~ threads[t].stop => t = active
         /\ Late(t) # {} => threads[t].stop /\ threads[t].at \in {"check", "ended"}
         /\ \A s, u \in Late(t) : s = u

LogInv == FileTypes /\ LinesAreReached /\ LinesAreWhole /\ FollowersAreKnown /\ lines \in Nat

\* Between two multiples of a length there is room for one.
LEMMA MultiplesApart ==
    ASSUME NEW n \in Nat \ {0}, NEW a \in Nat, NEW b \in Nat, a % n = 0, b % n = 0, a < b
    PROVE  a + n <= b
<1>1. PICK c \in Nat : a = n * c
  OBVIOUS
<1>2. PICK d \in Nat : b = n * d
  OBVIOUS
<1>3. c < d
  <2>1. d <= c => n * d <= n * c
    OBVIOUS
  <2> QED
    BY <1>1, <1>2, <2>1
<1>4. n * (c + 1) <= n * d
  BY <1>3
<1>5. n * (c + 1) = n * c + n
  OBVIOUS
<1> QED
  BY <1>1, <1>2, <1>4, <1>5

LEMMA ZeroIsMultiple == \A n \in Nat \ {0} : 0 % n = 0
OBVIOUS

\* A set of numbers that is not empty has a least one.
LEMMA LeastExists ==
    ASSUME NEW T \in SUBSET Nat, T # {}
    PROVE  \E x \in T : \A y \in T : ~(y < x)
<1> DEFINE Below == {0 .. x : x \in T}
<1>1. Below \subseteq FiniteSubsetsOf(Nat) /\ Below # {}
  <2>1. ASSUME NEW x \in T
        PROVE  0 .. x \subseteq Nat /\ IsFiniteSet(0 .. x)
    BY FS_Interval
  <2> QED
    BY <2>1 DEF FiniteSubsetsOf
<1>2. PICK B \in Below : \A C \in Below : <<C, B>> \notin StrictSubsetOrdering(Nat)
  <2> HIDE DEF Below
  <2> QED
    BY <1>1, FS_StrictSubsetOrderingWellFounded, WFMin
<1>3. PICK x \in T : B = 0 .. x
  BY <1>2
<1>4. ASSUME NEW y \in T, y < x
      PROVE  FALSE
  <2>1. 0 .. y \subseteq 0 .. x /\ x \in 0 .. x /\ x \notin 0 .. y /\ 0 .. x \subseteq Nat
    BY <1>4
  <2>2. <<0 .. y, 0 .. x>> \in StrictSubsetOrdering(Nat)
    BY <2>1 DEF StrictSubsetOrdering
  <2> QED
    BY <1>2, <1>3, <2>2
<1> QED
  BY <1>4

\* The next read begins after the last whole line.
LEMMA NextIsLastEnd ==
    ASSUME NEW f \in [inode : Nat, length : Nat], NEW from \in Nat
    PROVE  /\ NextOffset(f, from) \in Nat
           /\ from <= f.length => NextOffset(f, from) <= f.length
           /\ from <= f.length /\ from % LineLen(f.inode) = 0 => NextOffset(f, from) % LineLen(f.inode) = 0
<1>1. CASE from > f.length
  BY <1>1 DEF NextOffset
<1>2. CASE ~(from > f.length) /\ Ends(f, from) = {}
  BY <1>2 DEF NextOffset
<1>3. CASE ~(from > f.length) /\ Ends(f, from) # {}
  <2> DEFINE E == Ends(f, from)
             T == {f.length - e : e \in E}
  <2>1. E \subseteq (from + 1) .. f.length /\ \A e \in E : e % LineLen(f.inode) = 0
    BY DEF Ends
  <2>2. \A e \in E : e \in Nat /\ e <= f.length /\ f.length - e \in Nat
    BY <2>1
  <2>3. T \in SUBSET Nat /\ T # {}
    BY <1>3, <2>2
  <2>4. PICK x \in T : \A y \in T : ~(y < x)
    <3> HIDE DEF T
    <3> QED
      BY <2>3, LeastExists
  <2>5. PICK m \in E : x = f.length - m
    BY <2>4
  <2>6. \A d \in E : d <= m
    <3> TAKE d \in E
    <3>1. ~(f.length - d < f.length - m)
      BY <2>4, <2>5
    <3> QED
      BY <2>2, <3>1
  <2>7. NextOffset(f, from) = CHOOSE e \in E : \A d \in E : d <= e
    BY <1>3 DEF NextOffset
  <2> HIDE DEF E, T
  <2>8. NextOffset(f, from) \in E
    BY <2>6, <2>7
  <2> QED
    BY <2>1, <2>2, <2>8
<1> QED
  BY <1>1, <1>2, <1>3

\* What a step that is not of the followers leaves of them.
LEMMA FollowersRest ==
    ASSUME FollowersAreKnown, UNCHANGED <<threads, active, shipped>>
    PROVE  FollowersAreKnown'
BY DEF FollowersAreKnown, Late

\* What a step of the followers leaves of the file.
LEMMA FileRests ==
    ASSUME LogInv, UNCHANGED fileVars
    PROVE  FileTypes' /\ LinesAreReached' /\ LinesAreWhole'
BY DEF LogInv, FileTypes, Stands, LinesAreReached, LinesAreWhole, Records

LEMMA FileIsWritten ==
    ASSUME LogInv, Write \/ Rotate \/ CopyTruncate
    PROVE  LogInv'
<1>1. FileTypes /\ LinesAreReached /\ LinesAreWhole /\ FollowersAreKnown /\ lines \in Nat
  BY DEF LogInv
<1>2. UNCHANGED <<source, mode, state, at, met, pending, pushed, starts, listed, threads, active, lines, shipped>>
  BY DEF Write, Rotate, CopyTruncate
<1>3. file' \in [inode : Nat, length : Nat] /\ file'.inode \in {file.inode, file.inode + 1}
  <2>1. PICK f \in [inode : Nat, length : Nat] : f = file
    BY <1>1 DEF FileTypes
  <2>2. CASE Write
    <3>1. file' = [f EXCEPT !.length = f.length + 1]
      BY <2>1, <2>2 DEF Write
    <3> QED
      BY <2>1, <3>1
  <2>3. CASE Rotate
    <3>1. file' = [inode |-> f.inode + 1, length |-> 0]
      BY <2>1, <2>3 DEF Rotate
    <3> QED
      BY <2>1, <3>1
  <2>4. CASE CopyTruncate
    <3>1. file' = [f EXCEPT !.length = 0]
      BY <2>1, <2>4 DEF CopyTruncate
    <3> QED
      BY <2>1, <3>1
  <2> QED
    BY <2>2, <2>3, <2>4
<1>4. file.inode \in Nat /\ file.length \in Nat /\ (Stands => state.inode \in Nat /\ state.offset \in Nat)
  BY <1>1 DEF FileTypes, Positions
<1>5. cut' = {} => cut = {} /\ (file'.inode = file.inode => file.length <= file'.length)
  <2>1. PICK f \in [inode : Nat, length : Nat] : f = file
    BY <1>1 DEF FileTypes
  <2>2. CASE Write
    <3>1. file' = [f EXCEPT !.length = f.length + 1] /\ cut' = cut
      BY <2>1, <2>2 DEF Write
    <3> QED
      BY <2>1, <3>1
  <2>3. CASE Rotate
    <3>1. file' = [inode |-> f.inode + 1, length |-> 0] /\ cut' = cut
      BY <2>1, <2>3 DEF Rotate
    <3> QED
      BY <2>1, <3>1
  <2>4. CASE CopyTruncate
    BY <2>4 DEF CopyTruncate
  <2> QED
    BY <2>2, <2>3, <2>4
<1>6. (Stands' <=> Stands) /\ Records' = Records
  BY <1>2 DEF Stands, Records
<1>7. FileTypes'
  BY <1>1, <1>2, <1>3, <1>4, <1>6 DEF FileTypes
<1>8. LinesAreReached'
  <2> SUFFICES ASSUME mode = "head", cut' = {}, Stands, state.inode = file'.inode
               PROVE  /\ state.offset <= file'.length /\ state.offset % LineLen(file'.inode) = 0
                      /\ \A e \in 1..state.offset :
                           e % LineLen(file'.inode) = 0 => LineRecord(file'.inode, e) \in Records
    BY <1>2, <1>6 DEF LinesAreReached
  <2>1. state.inode <= file.inode
    BY <1>1 DEF FileTypes
  <2>2. file'.inode = file.inode
    BY <1>3, <1>4, <2>1
  <2>3. /\ state.offset <= file.length /\ state.offset % LineLen(file.inode) = 0
        /\ \A e \in 1..state.offset :
             e % LineLen(file.inode) = 0 => LineRecord(file.inode, e) \in Records
    BY <1>1, <1>5, <2>2 DEF LinesAreReached
  <2>4. file'.length \in Nat /\ file.length <= file'.length
    BY <1>3, <1>5, <2>2
  <2> QED
    BY <1>4, <2>2, <2>3, <2>4
<1>9. LinesAreWhole'
  BY <1>1, <1>2, <1>5, <1>6 DEF LinesAreWhole
<1> QED
  BY <1>1, <1>2, <1>7, <1>8, <1>9, FollowersRest DEF LogInv

LEMMA PollMetaKeeps ==
    ASSUME LogInv, PollMeta
    PROVE  LogInv'
<1>1. FileTypes /\ LinesAreReached /\ LinesAreWhole /\ FollowersAreKnown /\ lines \in Nat
  BY DEF LogInv
<1>2. /\ at = "sleep" /\ met' = file.inode
      /\ at' = IF state # Unknown /\ state.inode = file.inode THEN "read" ELSE "begin"
      /\ UNCHANGED <<source, mode, file, cut, state, pending, pushed, starts, podVars>>
  BY DEF PollMeta
<1>3. (Stands' <=> Stands) /\ Records' = Records
  BY <1>2 DEF Stands, Records
<1>4. FileTypes'
  BY <1>1, <1>2, <1>3 DEF FileTypes
<1>5. LinesAreReached' /\ LinesAreWhole'
  BY <1>1, <1>2, <1>3 DEF LinesAreReached, LinesAreWhole
<1> QED
  BY <1>1, <1>2, <1>4, <1>5, FollowersRest DEF LogInv

LEMMA PollBeginKeeps ==
    ASSUME LogInv, PollBegin
    PROVE  LogInv'
<1>1. FileTypes /\ LinesAreReached /\ LinesAreWhole /\ FollowersAreKnown /\ lines \in Nat
  BY DEF LogInv
<1>2. /\ at = "begin" /\ at' = "read"
      /\ state' = [inode |-> met, offset |-> IF mode = "head" THEN 0 ELSE file.length]
      /\ mode = "head" => pending' = pending
      /\ UNCHANGED <<source, mode, file, cut, met, pushed, starts, podVars>>
  BY DEF PollBegin
<1>3. /\ met \in Nat /\ met <= file.inode /\ file.inode \in Nat /\ file.length \in Nat
  BY <1>1, <1>2 DEF FileTypes
<1>4. state' \in Positions /\ state'.inode = met /\ (mode = "head" => state'.offset = 0)
  BY <1>2, <1>3 DEF Positions
<1>5. FileTypes'
  BY <1>1, <1>2, <1>3, <1>4 DEF FileTypes
<1>6. LinesAreReached'
  <2>1. LineLen(file.inode) \in Nat \ {0}
    BY <1>3 DEF LineLen
  <2>2. 0 % LineLen(file.inode) = 0
    BY <2>1, ZeroIsMultiple
  <2> QED
    BY <1>2, <1>3, <1>4, <2>2 DEF LinesAreReached
<1>7. LinesAreWhole'
  BY <1>1, <1>2 DEF LinesAreWhole, Records
<1> QED
  BY <1>1, <1>2, <1>5, <1>6, <1>7, FollowersRest DEF LogInv

\* A read begins and ends between two lines, if the file is the one it began.
LEMMA PollReadKeeps ==
    ASSUME LogInv, PollRead
    PROVE  LogInv'
<1>1. FileTypes /\ LinesAreReached /\ LinesAreWhole /\ FollowersAreKnown /\ lines \in Nat
  BY DEF LogInv
<1>2. /\ at = "read" /\ at' = "push"
      /\ pending' = IF state.offset > file.length THEN pending
                    ELSE pending \cup NewLines(file, state.inode, state.offset)
      /\ state' = [state EXCEPT !.offset = NextOffset(file, state.offset)]
      /\ UNCHANGED <<source, mode, file, cut, met, pushed, starts, podVars>>
  BY DEF PollRead
<1>3. PICK f \in [inode : Nat, length : Nat], s \in Positions : f = file /\ s = state /\ s.inode <= f.inode
  BY <1>1, <1>2 DEF FileTypes, Stands
<1> DEFINE next == NextOffset(f, s.offset)
           L    == LineLen(f.inode)
<1>4. f.inode \in Nat /\ f.length \in Nat /\ s.inode \in Nat /\ s.offset \in Nat /\ L \in Nat \ {0}
  BY <1>3 DEF Positions, LineLen
<1>5. /\ next \in Nat
      /\ s.offset <= f.length => next <= f.length
      /\ s.offset <= f.length /\ s.offset % L = 0 => next % L = 0
  BY <1>4, NextIsLastEnd
<1> HIDE DEF next
<1>6. state' \in Positions /\ state'.inode = s.inode /\ state'.offset = next
  <2>1. state' = [s EXCEPT !.offset = next]
    BY <1>2, <1>3 DEF next
  <2> QED
    BY <1>5, <2>1 DEF Positions
<1>7. FileTypes'
  BY <1>1, <1>2, <1>3, <1>6 DEF FileTypes
<1>8. ASSUME mode = "head", cut = {}, s.inode = f.inode
      PROVE  /\ s.offset <= f.length /\ s.offset % L = 0
             /\ \A e \in 1..s.offset : e % L = 0 => LineRecord(f.inode, e) \in Records
  BY <1>1, <1>2, <1>3, <1>8 DEF LinesAreReached, Stands
\* A line that is read of the file begins where the text read begins, or later.
<1>9. ASSUME mode = "head", cut = {}, s.inode = f.inode, NEW e \in Ends(f, s.offset)
      PROVE  /\ e \in Nat /\ Greater(s.offset, e - L) = e - L /\ e - L \in Nat
  <2>1. e \in (s.offset + 1) .. f.length /\ e % L = 0
    BY DEF Ends
  <2>2. e \in Nat /\ s.offset < e
    BY <1>4, <2>1
  <2>3. s.offset + L <= e
    BY <1>4, <1>8, <1>9, <2>1, <2>2, MultiplesApart
  <2>4. e - L \in Nat /\ ~(s.offset > e - L)
    BY <1>4, <2>2, <2>3
  <2> QED
    BY <2>2, <2>4 DEF Greater
<1>10. LinesAreReached'
  <2> SUFFICES ASSUME mode = "head", cut = {}, s.inode = f.inode
               PROVE  /\ next <= f.length /\ next % L = 0
                      /\ \A e \in 1..next : e % L = 0 => LineRecord(f.inode, e) \in Records'
    BY <1>2, <1>3, <1>6 DEF LinesAreReached
  <2>1. Records \subseteq Records'
    BY <1>2 DEF Records
  <2>2. ASSUME NEW e \in 1..next, e % L = 0
        PROVE  LineRecord(f.inode, e) \in Records'
    <3>1. CASE e <= s.offset
      BY <1>4, <1>5, <1>8, <2>1, <2>2, <3>1
    <3>2. CASE e > s.offset
      <4>1. e \in Ends(f, s.offset)
        BY <1>4, <1>5, <1>8, <2>2, <3>2 DEF Ends
      <4>2. [inode |-> s.inode, offset |-> Greater(s.offset, e - L), text |-> <<f.inode, Greater(s.offset, e - L), e>>]
              \in NewLines(f, s.inode, s.offset)
        BY <4>1 DEF NewLines
      <4>3. LineRecord(f.inode, e) \in NewLines(f, s.inode, s.offset)
        BY <1>9, <4>1, <4>2 DEF LineRecord
      <4>4. ~(s.offset > f.length)
        BY <1>4, <1>8
      <4> QED
        BY <1>2, <1>3, <4>3, <4>4 DEF Records
    <3> QED
      BY <1>4, <1>5, <3>1, <3>2
  <2> QED
    BY <1>5, <1>8, <2>2
<1>11. LinesAreWhole'
  <2> SUFFICES ASSUME mode = "head", cut = {}, NEW r \in Records'
               PROVE  /\ r = [inode |-> r.inode, offset |-> r.offset, text |-> r.text]
                      /\ r.text[1] = r.inode => r.text = <<r.inode, r.offset, r.offset + LineLen(r.inode)>>
    BY <1>2 DEF LinesAreWhole
  <2>1. CASE r \in Records
    BY <1>1, <2>1 DEF LinesAreWhole
  <2>2. CASE r \notin Records
    <3>1. r \in NewLines(f, s.inode, s.offset)
      BY <1>2, <1>3, <2>2 DEF Records
    <3>2. PICK e \in Ends(f, s.offset) :
             r = [inode |-> s.inode, offset |-> Greater(s.offset, e - L), text |-> <<f.inode, Greater(s.offset, e - L), e>>]
      BY <3>1 DEF NewLines
    <3>3. r.inode = s.inode /\ r.offset = Greater(s.offset, e - L) /\ r.text = <<f.inode, Greater(s.offset, e - L), e>>
      BY <3>2
    <3>4. r.text[1] = f.inode
      BY <3>3
    <3>5. ASSUME s.inode = f.inode
          PROVE  r.text = <<r.inode, r.offset, r.offset + LineLen(r.inode)>>
      <4>1. e \in Nat /\ Greater(s.offset, e - L) = e - L
        BY <1>9, <3>5
      <4>2. (e - L) + L = e
        BY <1>4, <4>1
      <4> QED
        BY <3>3, <3>5, <4>1, <4>2
    <3> QED
      BY <3>2, <3>3, <3>4, <3>5
  <2> QED
    BY <2>1, <2>2
<1> QED
  BY <1>1, <1>2, <1>7, <1>10, <1>11, FollowersRest DEF LogInv

LEMMA PushKeeps ==
    ASSUME LogInv, Push
    PROVE  LogInv'
<1>1. FileTypes /\ LinesAreReached /\ LinesAreWhole /\ FollowersAreKnown /\ lines \in Nat
  BY DEF LogInv
<1>2. /\ at = "push" /\ at' = "sleep" /\ pushed' = pushed \cup pending /\ pending' = {}
      /\ UNCHANGED <<source, mode, file, cut, state, met, starts, podVars>>
  BY DEF Push
<1>3. (Stands' => Stands) /\ Records' = Records
  BY <1>2 DEF Stands, Records
<1>4. FileTypes' /\ LinesAreReached' /\ LinesAreWhole'
  BY <1>1, <1>2, <1>3 DEF FileTypes, LinesAreReached, LinesAreWhole
<1> QED
  BY <1>1, <1>2, <1>4, FollowersRest DEF LogInv

LEMMA RestartKeeps ==
    ASSUME LogInv, Restart
    PROVE  LogInv'
<1>1. FileTypes /\ LinesAreReached /\ LinesAreWhole /\ FollowersAreKnown /\ lines \in Nat
  BY DEF LogInv
<1>2. /\ state' = Unknown /\ pending' = {} /\ at' = "sleep" /\ active' = Unknown
      /\ threads' = [t \in Followers |-> [threads[t] EXCEPT !.stop = (threads[t].at # "none")]]
      /\ UNCHANGED <<source, mode, file, cut, met, pushed, listed, lines, shipped>>
  BY DEF Restart
<1>3. ~Stands' /\ Records' \subseteq Records
  BY <1>2 DEF Stands, Records
<1>4. FileTypes' /\ LinesAreReached' /\ LinesAreWhole'
  BY <1>1, <1>2, <1>3 DEF FileTypes, LinesAreReached, LinesAreWhole
<1>5. \A t \in Followers :
         /\ threads'[t] \in [at : ThreadStates, stop : BOOLEAN, read : Nat]
         /\ threads'[t].at = threads[t].at /\ (threads'[t].stop <=> threads[t].at # "none")
  <2> TAKE t \in Followers
  <2>1. PICK h \in [at : ThreadStates, stop : BOOLEAN, read : Nat], b \in BOOLEAN : h = threads[t] /\ (b <=> h.at # "none")
    BY <1>1 DEF FollowersAreKnown
  <2>2. threads'[t] = [h EXCEPT !.stop = b]
    BY <1>2, <2>1
  <2> QED
    BY <2>1, <2>2
<1>6. FollowersAreKnown'
  <2>1. threads' \in [Followers -> [at : ThreadStates, stop : BOOLEAN, read : Nat]]
    BY <1>2, <1>5
  <2>2. \A t \in Followers : Late(t)' = Late(t)
    BY <1>2 DEF Late
  <2> QED
    BY <1>1, <1>2, <1>5, <2>1, <2>2 DEF FollowersAreKnown
<1> QED
  BY <1>1, <1>2, <1>4, <1>6 DEF LogInv

Thread == [at : ThreadStates, stop : BOOLEAN, read : Nat]

\* One follower goes on: it does not come to life, and tells nothing more.
LEMMA FollowerMoves ==
    ASSUME LogInv, NEW t \in Followers, NEW h \in Thread, threads' = [threads EXCEPT ![t] = h],
           h.stop = threads[t].stop, UNCHANGED <<source, fileVars, active>>, lines' \in Nat,
           h.at \notin {"none", "ended"} => threads[t].at \notin {"none", "ended"},
           \A u \in Followers \ {t} : Late(u)' = Late(u),
           Late(t)' # {} => h.stop /\ h.at \in {"check", "ended"},
           \A s, u \in Late(t)' : s = u
    PROVE  LogInv'
<1>1. FollowersAreKnown /\ threads \in [Followers -> Thread]
  BY DEF LogInv, FollowersAreKnown, Thread
<1>2. threads' \in [Followers -> Thread] /\ threads'[t] = h /\ \A u \in Followers \ {t} : threads'[u] = threads[u]
  BY <1>1
<1>3. ASSUME NEW u \in Followers
      PROVE  /\ threads'[u].at \notin {"none", "ended"} /\ ~ threads'[u].stop => u = active
             /\ Late(u)' # {} => threads'[u].stop /\ threads'[u].at \in {"check", "ended"}
             /\ \A s, v \in Late(u)' : s = v
  <2>1. CASE u = t
    BY <1>1, <1>2, <2>1 DEF FollowersAreKnown
  <2>2. CASE u # t
    BY <1>1, <1>2, <2>2 DEF FollowersAreKnown
  <2> QED
    BY <2>1, <2>2
<1>4. FollowersAreKnown'
  BY <1>1, <1>2, <1>3 DEF FollowersAreKnown, Thread
<1> QED
  BY <1>4, FileRests DEF LogInv

LEMMA FollowersKeep ==
    ASSUME LogInv, NEW t \in Followers,
           Open(t) \/ CheckStop(t) \/ SendLine(t) \/ StreamEnds(t) \/ Pause(t)
    PROVE  LogInv'
<1>1. PICK h \in Thread : h = threads[t]
  BY DEF LogInv, FollowersAreKnown, Thread
<1>2. /\ threads \in [Followers -> Thread] /\ lines \in Nat
      /\ Late(t) # {} => h.stop /\ h.at \in {"check", "ended"}
      /\ \A s, u \in Late(t) : s = u
  BY <1>1 DEF LogInv, FollowersAreKnown, Thread
<1>3. UNCHANGED <<source, fileVars, active, lines>>
  BY DEF Open, CheckStop, SendLine, StreamEnds, Pause
<1>4. CASE Open(t)
  <2>1. PICK where \in {"check", "pause"} : threads' = [threads EXCEPT ![t].at = where, ![t].read = 0]
    BY <1>4 DEF Open
  <2>2. PICK g \in Thread : g = [h EXCEPT !.at = where, !.read = 0]
    <3>1. [h EXCEPT !.at = where, !.read = 0] \in Thread
      BY DEF Thread, ThreadStates
    <3> QED
      BY <3>1
  <2>3. threads' = [threads EXCEPT ![t] = g]
    BY <1>1, <1>2, <2>1, <2>2
  <2>4. g.at = where /\ g.stop = h.stop
    BY <2>2 DEF Thread
  <2>5. h.at = "open" /\ shipped' = shipped
    BY <1>1, <1>4 DEF Open
  <2>6. \A u \in Followers : Late(u)' = Late(u)
    BY <2>5 DEF Late
  <2> QED
    BY <1>1, <1>2, <1>3, <2>3, <2>4, <2>5, <2>6, FollowerMoves
<1>5. CASE CheckStop(t)
  <2>1. PICK where \in {"ended", "line"} :
           where = (IF h.stop THEN "ended" ELSE "line") /\ threads' = [threads EXCEPT ![t].at = where]
    BY <1>1, <1>5 DEF CheckStop
  <2>2. PICK g \in Thread : g = [h EXCEPT !.at = where]
    <3>1. [h EXCEPT !.at = where] \in Thread
      BY DEF Thread, ThreadStates
    <3> QED
      BY <3>1
  <2>3. threads' = [threads EXCEPT ![t] = g]
    BY <1>1, <1>2, <2>1, <2>2
  <2>4. g.at = where /\ g.stop = h.stop
    BY <2>2 DEF Thread
  <2>5. h.at = "check" /\ shipped' = shipped
    BY <1>1, <1>5 DEF CheckStop
  <2>6. \A u \in Followers : Late(u)' = Late(u)
    BY <2>5 DEF Late
  <2>7. Late(t)' # {} => g.stop /\ g.at \in {"check", "ended"}
    BY <1>2, <2>1, <2>4, <2>6
  <2>8. \A s, u \in Late(t)' : s = u
    BY <1>2, <2>6
  <2>9. g.stop = threads[t].stop /\ threads[t].at \notin {"none", "ended"}
    BY <1>1, <2>4, <2>5
  <2> QED
    BY <1>2, <1>3, <2>3, <2>6, <2>7, <2>8, <2>9, FollowerMoves
\* No line of a follower that is told was sent before this one.
<1>6. CASE SendLine(t)
  <2>1. /\ h.at = "line" /\ threads' = [threads EXCEPT ![t].at = "check", ![t].read = @ + 1]
        /\ shipped' = shipped \cup {[thread |-> t, line |-> h.read + 1, late |-> h.stop]}
    BY <1>1, <1>6 DEF SendLine
  <2>2. PICK g \in Thread : g = [h EXCEPT !.at = "check", !.read = h.read + 1]
    <3>1. h.read + 1 \in Nat
      BY DEF Thread
    <3>2. PICK n \in Nat : n = h.read + 1
      BY <3>1
    <3>3. [h EXCEPT !.at = "check", !.read = n] \in Thread
      BY DEF Thread, ThreadStates
    <3> QED
      BY <3>2, <3>3
  <2>3. threads' = [threads EXCEPT ![t] = g]
    BY <1>1, <1>2, <2>1, <2>2
  <2>4. g.at = "check" /\ g.stop = h.stop
    BY <2>2 DEF Thread
  <2>5. PICK w : w = [thread |-> t, line |-> h.read + 1, late |-> h.stop]
    OBVIOUS
  <2>6. w.thread = t /\ w.late = h.stop /\ shipped' = shipped \cup {w}
    BY <2>1, <2>5
  <2>7. Late(t) = {}
    BY <1>2, <2>1
  <2>8. \A u \in Followers \ {t} : Late(u)' = Late(u)
    BY <2>6 DEF Late
  <2>9. \A s \in Late(t)' : s = w /\ h.stop
    BY <2>6, <2>7 DEF Late
  <2>10. Late(t)' # {} => g.stop /\ g.at \in {"check", "ended"}
    BY <2>4, <2>9
  <2>11. \A s, u \in Late(t)' : s = u
    BY <2>9
  <2> QED
    BY <1>1, <1>2, <1>3, <2>1, <2>3, <2>4, <2>8, <2>10, <2>11, FollowerMoves
<1>7. CASE StreamEnds(t)
  <2>2. PICK g \in Thread : g = [h EXCEPT !.at = "pause"]
    <3>1. [h EXCEPT !.at = "pause"] \in Thread
      BY DEF Thread, ThreadStates
    <3> QED
      BY <3>1
  <2>3. threads' = [threads EXCEPT ![t] = g]
    BY <1>1, <1>2, <1>7, <2>2 DEF StreamEnds
  <2>4. g.at = "pause" /\ g.stop = h.stop
    BY <2>2 DEF Thread
  <2>5. h.at = "line" /\ shipped' = shipped
    BY <1>1, <1>7 DEF StreamEnds
  <2>6. \A u \in Followers : Late(u)' = Late(u)
    BY <2>5 DEF Late
  <2> QED
    BY <1>1, <1>2, <1>3, <2>3, <2>4, <2>5, <2>6, FollowerMoves
<1>8. CASE Pause(t)
  <2>1. PICK where \in {"ended", "open"} :
           where = (IF h.stop THEN "ended" ELSE "open") /\ threads' = [threads EXCEPT ![t].at = where]
    BY <1>1, <1>8 DEF Pause
  <2>2. PICK g \in Thread : g = [h EXCEPT !.at = where]
    <3>1. [h EXCEPT !.at = where] \in Thread
      BY DEF Thread, ThreadStates
    <3> QED
      BY <3>1
  <2>3. threads' = [threads EXCEPT ![t] = g]
    BY <1>1, <1>2, <2>1, <2>2
  <2>4. g.at = where /\ g.stop = h.stop
    BY <2>2 DEF Thread
  <2>5. h.at = "pause" /\ shipped' = shipped
    BY <1>1, <1>8 DEF Pause
  <2>6. \A u \in Followers : Late(u)' = Late(u)
    BY <2>5 DEF Late
  <2>7. Late(t)' # {} => g.stop /\ g.at \in {"check", "ended"}
    BY <1>2, <2>1, <2>4, <2>6
  <2>8. \A s, u \in Late(t)' : s = u
    BY <1>2, <2>6
  <2>9. g.stop = threads[t].stop /\ threads[t].at \notin {"none", "ended"}
    BY <1>1, <2>4, <2>5
  <2> QED
    BY <1>2, <1>3, <2>3, <2>6, <2>7, <2>8, <2>9, FollowerMoves
<1> QED
  BY <1>4, <1>5, <1>6, <1>7, <1>8

\* A container gets a thread when none is known: then none runs untold.
LEMMA RefreshKeeps ==
    ASSUME LogInv, Refresh
    PROVE  LogInv'
<1>1. FollowersAreKnown /\ threads \in [Followers -> Thread] /\ active \in Followers \cup {Unknown} /\ lines \in Nat
  BY DEF LogInv, FollowersAreKnown, Thread
<1>2. UNCHANGED <<source, fileVars, shipped, lines>>
  BY DEF Refresh
<1>3. \A t \in Followers : Late(t)' = Late(t)
  BY <1>2 DEF Late
<1>4. CASE /\ active # Unknown /\ active' = Unknown
           /\ threads' = [threads EXCEPT ![active] = Stopped(active)]
  <2>1. PICK t \in Followers, h \in Thread : t = active /\ h = threads[active]
    BY <1>1, <1>4
  <2>2. PICK g \in Thread : g = [h EXCEPT !.stop = TRUE]
    <3>1. [h EXCEPT !.stop = TRUE] \in Thread
      BY DEF Thread
    <3> QED
      BY <3>1
  <2>3. g.at = h.at /\ g.stop
    BY <2>2 DEF Thread
  <2>4. threads' = [threads EXCEPT ![t] = g]
    BY <1>4, <2>1, <2>2 DEF Stopped
  <2>5. threads' \in [Followers -> Thread] /\ threads'[t] = g /\ \A u \in Followers \ {t} : threads'[u] = threads[u]
    BY <1>1, <2>4
  <2>6. ASSUME NEW u \in Followers
        PROVE  /\ threads'[u].at \notin {"none", "ended"} /\ ~ threads'[u].stop => u = active'
               /\ Late(u)' # {} => threads'[u].stop /\ threads'[u].at \in {"check", "ended"}
               /\ \A s, v \in Late(u)' : s = v
    <3>1. CASE u = t
      BY <1>1, <1>3, <2>1, <2>3, <2>5, <3>1 DEF FollowersAreKnown
    <3>2. CASE u # t
      BY <1>1, <1>3, <2>1, <2>5, <3>2 DEF FollowersAreKnown
    <3> QED
      BY <3>1, <3>2
  <2>7. FollowersAreKnown'
    BY <1>4, <2>5, <2>6 DEF FollowersAreKnown, Thread
  <2> QED
    BY <1>1, <1>2, <2>7, FileRests DEF LogInv
<1>5. CASE /\ active = Unknown
           /\ \E t \in Followers :
                /\ threads[t].at = "none" /\ active' = t
                /\ threads' = [threads EXCEPT ![t] = [at |-> "open", stop |-> FALSE, read |-> 0]]
  <2>1. PICK t \in Followers :
             /\ threads[t].at = "none" /\ active' = t
             /\ threads' = [threads EXCEPT ![t] = [at |-> "open", stop |-> FALSE, read |-> 0]]
    BY <1>5
  <2>2. PICK g \in Thread : g = [at |-> "open", stop |-> FALSE, read |-> 0]
    <3>1. [at |-> "open", stop |-> FALSE, read |-> 0] \in Thread
      BY DEF Thread, ThreadStates
    <3> QED
      BY <3>1
  <2>3. threads' \in [Followers -> Thread] /\ threads'[t] = g /\ \A u \in Followers \ {t} : threads'[u] = threads[u]
    BY <1>1, <2>1, <2>2
  <2>4. ASSUME NEW u \in Followers
        PROVE  /\ threads'[u].at \notin {"none", "ended"} /\ ~ threads'[u].stop => u = active'
               /\ Late(u)' # {} => threads'[u].stop /\ threads'[u].at \in {"check", "ended"}
               /\ \A s, v \in Late(u)' : s = v
    <3>1. CASE u = t
      BY <1>1, <1>3, <2>1, <3>1 DEF FollowersAreKnown
    <3>2. CASE u # t
      <4>1. u # Unknown
        BY LogFollowAssumption
      <4> QED
        BY <1>1, <1>3, <1>5, <2>3, <3>2, <4>1 DEF FollowersAreKnown
    <3> QED
      BY <3>1, <3>2
  <2>5. FollowersAreKnown'
    BY <2>1, <2>3, <2>4 DEF FollowersAreKnown, Thread
  <2> QED
    BY <1>1, <1>2, <2>5, FileRests DEF LogInv
<1> QED
  BY <1>4, <1>5 DEF Refresh

LEMMA PodKeeps ==
    ASSUME LogInv, PodLogs \/ PodComesOrGoes
    PROVE  LogInv'
<1>1. FollowersAreKnown /\ lines \in Nat
  BY DEF LogInv
<1>2. UNCHANGED <<fileVars, threads, active, shipped>> /\ lines' \in Nat
  BY <1>1 DEF PodLogs, PodComesOrGoes
<1> QED
  BY <1>1, <1>2, FileRests, FollowersRest DEF LogInv

LEMMA LogStarts == LogInit => LogInv
<1> SUFFICES ASSUME LogInit PROVE LogInv
  OBVIOUS
<1>1. /\ file = [inode |-> 1, length |-> 0] /\ at = "sleep" /\ state = Unknown
      /\ pending = {} /\ pushed = {} /\ threads = [t \in Followers |-> Thread0] /\ active = Unknown
      /\ lines = 0 /\ shipped = {}
  BY DEF LogInit
<1>2. ~Stands /\ Records = {}
  BY <1>1 DEF Stands, Records
<1>3. FileTypes /\ LinesAreReached /\ LinesAreWhole
  BY <1>1, <1>2 DEF FileTypes, LinesAreReached, LinesAreWhole
<1>4. \A t \in Followers : threads[t] = Thread0 /\ Late(t) = {}
  BY <1>1 DEF Late
<1>5. Thread0 \in [at : ThreadStates, stop : BOOLEAN, read : Nat] /\ Thread0.at = "none"
  BY DEF Thread0, ThreadStates
<1>6. FollowersAreKnown
  BY <1>1, <1>4, <1>5 DEF FollowersAreKnown
<1> QED
  BY <1>1, <1>3, <1>6 DEF LogInv

LEMMA InvFollowsLines == LogInv => LinesAreFollowed
<1> SUFFICES ASSUME LogInv PROVE LinesAreFollowed
  OBVIOUS
<1>1. FileTypes /\ LinesAreReached /\ LinesAreWhole /\ FollowersAreKnown
  BY DEF LogInv
<1>2. HeadKeepsLines
  <2> SUFFICES ASSUME mode = "head", cut = {}
               PROVE  /\ state # Unknown /\ state.inode = file.inode /\ at # "begin" =>
                           \A e \in {d \in 1..state.offset : d % LineLen(file.inode) = 0} :
                               LineRecord(file.inode, e) \in Records
                      /\ \A r, q \in {o \in Records : o.text[1] = o.inode} :
                           r.inode = q.inode /\ r.offset = q.offset => r = q
    BY DEF HeadKeepsLines, LineRecord
  <2>1. ASSUME state # Unknown, state.inode = file.inode
        PROVE  \A e \in {d \in 1..state.offset : d % LineLen(file.inode) = 0} : LineRecord(file.inode, e) \in Records
    BY <1>1, <2>1 DEF LinesAreReached, Stands
  <2>2. ASSUME NEW r \in Records, NEW q \in Records, r.text[1] = r.inode, q.text[1] = q.inode,
               r.inode = q.inode, r.offset = q.offset
        PROVE  r = q
    <3>1. /\ r = [inode |-> r.inode, offset |-> r.offset, text |-> r.text]
          /\ r.text = <<r.inode, r.offset, r.offset + LineLen(r.inode)>>
          /\ q = [inode |-> q.inode, offset |-> q.offset, text |-> q.text]
          /\ q.text = <<q.inode, q.offset, q.offset + LineLen(q.inode)>>
      BY <1>1, <2>2 DEF LinesAreWhole
    <3>2. r.text = q.text
      BY <2>2, <3>1
    <3> QED
      BY <2>2, <3>1, <3>2
  <2> QED
    BY <2>1, <2>2
<1>3. OneFollower
  <2> SUFFICES ASSUME NEW t \in Followers
               PROVE  Cardinality(Late(t)) <= 1
    BY <1>1 DEF OneFollower, FollowersAreKnown, Late
  <2>1. CASE Late(t) = {}
    BY <2>1, FS_EmptySet
  <2>2. CASE Late(t) # {}
    <3>1. PICK s \in Late(t) : Late(t) = {s}
      BY <1>1, <2>2 DEF FollowersAreKnown
    <3>2. Cardinality({s}) = 1
      BY FS_Singleton
    <3> QED
      BY <3>1, <3>2
  <2> QED
    BY <2>1, <2>2
<1> QED
  BY <1>2, <1>3 DEF LinesAreFollowed

\* For any files, lengths, starts and threads: each line before the position of
\* the poll was read whole, under an id of its own, and a container has one
\* thread that is not told to stop.
THEOREM LinesStayFollowed == LogSpec => []LinesAreFollowed
<1>1. LogInv /\ [LogNext]_logVars => LogInv'
  <2> SUFFICES ASSUME LogInv, [LogNext]_logVars
               PROVE  LogInv'
    OBVIOUS
  <2>1. CASE UNCHANGED logVars
    BY <2>1, FileRests, FollowersRest DEF LogInv
  <2>2. CASE LogNext
    BY <2>2, FileIsWritten, PollMetaKeeps, PollBeginKeeps, PollReadKeeps, PushKeeps, RestartKeeps,
       PodKeeps, RefreshKeeps, FollowersKeep DEF LogNext
  <2> QED
    BY <2>1, <2>2
<1> QED
  BY <1>1, LogStarts, InvFollowsLines, PTL DEF LogSpec

-----------------------------------------------------------------------------
(* vmctl                                                                   *)

Statuses == {"pending", "running"} \cup Final

\* Before the job is posted there is none; a client that reads it waits for it,
\* and has slept less often than the time allows.
VmctlInv ==
    /\ step \in {"arguments", "upload", "post", "read", "sleep", "done"}
    /\ job \in {Nothing} \cup Statuses /\ waited \in Nat /\ waited <= Polls
    /\ files \in {0, 1} /\ (files = 1 => Uploads(cmd) /\ Accepted(cmd))
    /\ step # "done" => code = Nothing
    /\ step = "arguments" => files = 0
    /\ step \in {"arguments", "upload", "post"} => job = Nothing
    /\ step = "upload" => Uploads(cmd) /\ files = 0
    /\ step \in {"upload", "post", "read", "sleep"} => Accepted(cmd)
    /\ step \in {"read", "sleep"} => Waits(cmd) /\ job # Nothing
    /\ step = "sleep" => waited < Polls
    /\ job # Nothing => Accepted(cmd)
    /\ code = 0 => job # Nothing /\ (Waits(cmd) => job = "succeeded")
    /\ code = 2 => Waits(cmd) /\ (waited = Polls \/ job = "timeout")

LEMMA NothingApart == Nothing \notin {0, 1, 2} /\ Nothing \notin Statuses
BY VmctlAssumption DEF Statuses

LEMMA ReadJobKeeps ==
    ASSUME VmctlInv, ReadJob
    PROVE  VmctlInv'
<1>1. step = "read" /\ UNCHANGED <<cmd, waited, job, files>> /\ (AfterRead(job) \/ End(1))
  BY DEF ReadJob
<1>2. job \in Statuses /\ Waits(cmd) /\ waited \in Nat /\ Polls \in Nat /\ waited <= Polls
  BY <1>1, VmctlAssumption DEF VmctlInv
<1>3. CASE End(1)
  BY <1>1, <1>2, <1>3 DEF VmctlInv, End
<1>4. CASE AfterRead(job)
  <2>1. WaitExitCode(job) \in {Nothing, 0, 1, 2} /\ (WaitExitCode(job) = 0 => job = "succeeded")
        /\ (WaitExitCode(job) = 2 => job = "timeout")
    BY NothingApart DEF WaitExitCode
  <2>2. CASE WaitExitCode(job) # Nothing
    <3>1. step' = "done" /\ code' = WaitExitCode(job)
      BY <1>4, <2>2 DEF AfterRead, End
    <3> QED
      BY <1>1, <1>2, <2>1, <2>2, <3>1 DEF VmctlInv
  <2>3. CASE WaitExitCode(job) = Nothing /\ waited >= Polls
    <3>1. step' = "done" /\ code' = 2 /\ waited = Polls
      BY <1>2, <1>4, <2>3 DEF AfterRead, End
    <3> QED
      BY <1>1, <1>2, <3>1 DEF VmctlInv
  <2>4. CASE WaitExitCode(job) = Nothing /\ ~(waited >= Polls)
    <3>1. step' = "sleep" /\ code' = code /\ waited < Polls
      BY <1>2, <1>4, <2>4 DEF AfterRead
    <3> QED
      BY <1>1, <1>2, <3>1 DEF VmctlInv
  <2> QED
    BY <2>2, <2>3, <2>4
<1> QED
  BY <1>1, <1>3, <1>4

LEMMA VmctlKeeps ==
    ASSUME VmctlInv, [VmctlNext]_vmctlVars
    PROVE  VmctlInv'
<1> USE NothingApart
<1>1. CASE ReadArguments
  BY <1>1 DEF ReadArguments, VmctlInv, End
<1>2. CASE Upload
  BY <1>2 DEF Upload, VmctlInv, End
<1>3. CASE Post
  <2>1. PICK made \in BOOLEAN, answered \in BOOLEAN :
          /\ job' = IF made THEN "pending" ELSE job
          /\ IF ~ (made /\ answered) THEN End(1)
             ELSE IF Waits(cmd) THEN step' = "read" /\ UNCHANGED code
             ELSE End(0)
    BY <1>3 DEF Post
  <2>2. step = "post" /\ job = Nothing /\ UNCHANGED <<cmd, waited, files>>
    BY <1>3 DEF Post, VmctlInv
  <2>3. "pending" \in Statuses /\ "pending" # Nothing
    BY DEF Statuses
  <2>4. CASE ~ (made /\ answered)
    BY <2>1, <2>2, <2>3, <2>4 DEF VmctlInv, End
  <2>5. CASE made /\ answered
    BY <2>1, <2>2, <2>3, <2>5 DEF VmctlInv, End
  <2> QED
    BY <2>4, <2>5
<1>4. CASE ReadJob
  BY <1>4, ReadJobKeeps
<1>5. CASE Sleep
  BY <1>5, VmctlAssumption DEF Sleep, VmctlInv
<1>6. CASE JobMoves
  <2>1. job \in {"pending", "running"} /\ job' \in Statuses /\ UNCHANGED <<cmd, step, code, waited, files>>
    BY <1>6 DEF JobMoves, Statuses
  <2>2. job # "succeeded" /\ job # "timeout" /\ job # Nothing /\ job' # Nothing
    BY <2>1 DEF Statuses
  <2> QED
    BY <2>1, <2>2 DEF VmctlInv
<1>7. CASE UNCHANGED vmctlVars
  BY <1>7 DEF VmctlInv, vmctlVars
<1> QED
  BY <1>1, <1>2, <1>3, <1>4, <1>5, <1>6, <1>7 DEF VmctlNext

\* An item that is on and passes has a fresh stream of each of its types.
LEMMA PassedItems ==
    ASSUME NEW items, NEW streams, NEW time, Failing(Verdicts(items, streams, time)) = {},
           NEW i \in items, i.enabled, NEW t \in TypesOf(i)
    PROVE  streams # Nothing /\ streams[t] # Nothing /\ time <= streams[t] + Threshold(IntervalOf(i.interval))
<1>1. VerdictOf(i, t, streams, time) \in Verdicts(items, streams, time)
  <2>1. TypesOf(i) # {}
    OBVIOUS
  <2> QED
    BY <2>1 DEF Verdicts
<1>2. VerdictOf(i, t, streams, time) \notin {"stale", "not_reporting", "unknown"}
  BY <1>1 DEF Failing
<1> QED
  BY <1>2 DEF VerdictOf, Classify

LEMMA JudgesAgree == VmctlJudges
<1>1. DoctorAgrees
  BY DEF DoctorAgrees, DoctorCode, StatusCode, CollectOk
<1>2. ASSUME NEW r \in SomeReads, StatusCode(r) = 0
      PROVE  \A i \in r.spec.items : i.enabled => \A t \in TypesOf(i) :
                 r.streams # Nothing /\ r.streams[t] # Nothing
                 /\ r.now - r.streams[t] <= IF i.interval = Nothing THEN 60 ELSE 3 * i.interval
  <2>1. r.spec # Nothing /\ r.spec.items # Nothing /\ Failing(Verdicts(r.spec.items, r.streams, r.now)) = {}
    BY <1>2 DEF StatusCode
  <2>2. r.spec.items \in SomeItems
    BY <2>1 DEF SomeReads
  <2>3. r.streams # Nothing => r.streams \in [{"metrics", "ebpf_edges"} -> {Nothing, 200, 90, 75, 50}]
    BY DEF SomeReads
  <2>4. r.now = 150
    BY DEF SomeReads
  <2> SUFFICES ASSUME NEW i \in r.spec.items, i.enabled, NEW t \in TypesOf(i)
               PROVE  r.streams # Nothing /\ r.streams[t] # Nothing
                      /\ r.now - r.streams[t] <= IF i.interval = Nothing THEN 60 ELSE 3 * i.interval
    OBVIOUS
  <2>5. i \in [kind : {"ebpf_network", "metrics_host", "new"}, enabled : BOOLEAN, interval : {Nothing, 30}]
    BY <2>2 DEF SomeItems, kSubset
  <2>6. t \in {"metrics", "ebpf_edges"}
    BY <2>5 DEF TypesOf, KindDataTypes
  <2>7. r.streams # Nothing /\ r.streams[t] # Nothing /\ r.now <= r.streams[t] + Threshold(IntervalOf(i.interval))
    BY <2>1, PassedItems
  <2>8. r.streams[t] \in {200, 90, 75, 50}
    BY <2>3, <2>6, <2>7
  <2>9. CASE i.interval = Nothing
    <3>1. IntervalOf(i.interval) = 15
      BY <2>9, VmctlAssumption DEF IntervalOf, DefaultInterval
    <3>2. Threshold(15) = 60
      BY DEF Threshold, MinThreshold
    <3> QED
      BY <2>4, <2>7, <2>8, <2>9, <3>1, <3>2
  <2>10. CASE i.interval # Nothing
    <3>1. i.interval = 30 /\ IntervalOf(i.interval) = 30
      BY <2>5, <2>10 DEF IntervalOf
    <3>2. Threshold(30) = 90
      BY DEF Threshold, MinThreshold
    <3> QED
      BY <2>4, <2>7, <2>8, <2>10, <3>1, <3>2
  <2> QED
    BY <2>9, <2>10
<1> QED
  BY <1>1, <1>2 DEF VmctlJudges, PassedIsSeen

\* For any time to wait: a wait that ends with 0 has seen the job succeed, one
\* that ends with 2 has waited its time or seen it time out, and the verdicts
\* of status and doctor are those of the reads.
THEOREM VmctlStaysTrue == VmctlSpec => []VmctlTells
<1>1. VmctlInit => VmctlInv
  BY NothingApart, VmctlAssumption DEF VmctlInit, VmctlInv
<1>2. VmctlInv /\ [VmctlNext]_vmctlVars => VmctlInv'
  BY VmctlKeeps
<1>3. VmctlInv => VmctlTells
  <2>1. VmctlInv => WaitTellsOutcome
    BY NothingApart DEF VmctlInv, WaitTellsOutcome
  <2> QED
    BY <2>1, JudgesAgree DEF VmctlTells
<1> QED
  BY <1>1, <1>2, <1>3, PTL DEF VmctlSpec

-----------------------------------------------------------------------------
(* The limits of the eBPF collector                                        *)

LEMMA LimitConstants ==
    /\ Tick \in Nat \ {0} /\ PerTick \in Nat \ {0} /\ Burst \in Nat \ {0} /\ Ttl \in Nat \ {0}
    /\ Minute \in Nat \ {0} /\ MaxPids \in Nat \ {0} /\ Points \in Nat \ {0} /\ Base \in Nat \ {0}
    /\ DegradeWindow \in Nat /\ Horizon \in Nat /\ Samples \in Nat /\ MaxWait \in Nat
BY EbpfLimitsAssumption

-----------------------------------------------------------------------------
(* The token bucket                                                        *)

\* What an event would find, were it the last one.
RateInv ==
    /\ clock \in Nat \ {0} /\ bucket.last \in 0 .. clock /\ bucket.tokens \in 0 .. Burst
    /\ bucket.given \subseteq 1 .. bucket.last
    /\ \A s \in bucket.given :
         Within(bucket.given, s, bucket.last) + bucket.tokens
            <= Burst + PerTick * ((bucket.last - s) \div Tick)
    /\ RateHolds

LEMMA MulMono == \A n, x, y \in Nat : x <= y => n * x \in Nat /\ n * x <= n * y
OBVIOUS

LEMMA MulAdd == \A n, x, y \in Nat : n * (x + y) = n * x + n * y
OBVIOUS

\* Whole ticks of two stretches are whole ticks of both together.
LEMMA DivAdds ==
    \A a, b \in Nat, n \in Nat \ {0} :
        /\ a \div n \in Nat /\ b \div n \in Nat /\ (a + b) \div n \in Nat
        /\ (a \div n) + (b \div n) <= (a + b) \div n
<1> SUFFICES ASSUME NEW a \in Nat, NEW b \in Nat, NEW n \in Nat \ {0}
             PROVE  /\ a \div n \in Nat /\ b \div n \in Nat /\ (a + b) \div n \in Nat
                    /\ (a \div n) + (b \div n) <= (a + b) \div n
  OBVIOUS
<1>1. \A x \in Nat : x \div n \in Nat /\ n * (x \div n) <= x
  OBVIOUS
<1>2. PICK p \in Nat : p = a \div n /\ n * p <= a
  BY <1>1
<1>3. PICK q \in Nat : q = b \div n /\ n * q <= b
  BY <1>1
<1>4. n * (p + q) = n * p + n * q /\ n * (p + q) \in Nat /\ n * p \in Nat /\ n * q \in Nat
  BY MulAdd
<1>5. n * (p + q) <= a + b
  BY <1>2, <1>3, <1>4
<1>6. \A x, y \in Nat : n * y <= x => y <= x \div n
  OBVIOUS
<1>7. a + b \in Nat /\ p + q \in Nat
  OBVIOUS
<1>8. p + q <= (a + b) \div n
  BY <1>5, <1>6, <1>7
<1> QED
  BY <1>1, <1>2, <1>3, <1>7, <1>8

\* The events of a stretch, before and after one more.
LEMMA WithinCounts ==
    ASSUME NEW n \in Nat, NEW G \in SUBSET (1 .. n), NEW t \in Nat, t > n
    PROVE  /\ \A s, u \in Nat : Within(G, s, u) \in Nat
           /\ \A s, u \in 1 .. n : Within(G \cup {t}, s, u) = Within(G, s, u)
           /\ \A s \in 1 .. n : Within(G \cup {t}, s, t) = Within(G, s, n) + 1
           /\ \A s \in 1 .. n : Within(G, s, t) = Within(G, s, n)
           /\ Within(G \cup {t}, t, t) = 1
<1>0. \A e \in G : e \in Nat /\ e <= n /\ e < t
  OBVIOUS
<1>7. t \notin G
  OBVIOUS
<1>1. IsFiniteSet(G)
  <2>1. IsFiniteSet(1 .. n)
    BY FS_Interval
  <2> QED
    BY <2>1, FS_Subset
<1>2. \A s, u \in Nat : IsFiniteSet({e \in G : s <= e /\ e <= u})
  BY <1>1, FS_Subset
<1>3. \A s, u \in Nat : Within(G, s, u) \in Nat
  BY <1>2, FS_CardinalityType DEF Within
<1>4. \A s, u \in 1 .. n : Within(G \cup {t}, s, u) = Within(G, s, u)
  <2> SUFFICES ASSUME NEW s \in 1 .. n, NEW u \in 1 .. n
               PROVE  {e \in G \cup {t} : s <= e /\ e <= u} = {e \in G : s <= e /\ e <= u}
    BY DEF Within
  <2> QED
    OBVIOUS
<1>5. ASSUME NEW s \in 1 .. n
      PROVE  Within(G \cup {t}, s, t) = Within(G, s, n) + 1 /\ Within(G, s, t) = Within(G, s, n)
  <2>0. /\ \A e \in G : e <= t /\ e <= n
        /\ s <= t /\ t <= t
    BY <1>0
  <2>1. {e \in G : s <= e /\ e <= t} = {e \in G : s <= e /\ e <= n}
    BY <2>0, Zenon
  <2>2. {e \in G \cup {t} : s <= e /\ e <= t} = {e \in G : s <= e /\ e <= n} \cup {t}
    <3>1. \A e \in G \cup {t} : s <= e /\ e <= t <=> e \in {x \in G : s <= x /\ x <= n} \cup {t}
      BY <2>0, Zenon
    <3> QED
      BY <3>1, Zenon
  <2>3. t \notin {e \in G : s <= e /\ e <= n}
    BY <1>7
  <2>4. IsFiniteSet({e \in G : s <= e /\ e <= n})
    BY <1>2
  <2> QED
    BY <2>1, <2>2, <2>3, <2>4, FS_AddElement DEF Within
<1>6. Within(G \cup {t}, t, t) = 1
  <2>1. {e \in G \cup {t} : t <= e /\ e <= t} = {t}
    <3>1. t <= t
      OBVIOUS
    <3>2. \A e \in G : ~(t <= e)
      BY <1>0
    <3> QED
      BY <3>1, <3>2
  <2> QED
    BY <2>1, FS_Singleton DEF Within
<1> QED
  BY <1>3, <1>4, <1>5, <1>6

\* What an event finds is what was left and what the whole ticks since brought,
\* or less (token_bucket_step).
LEMMA AvailableBound ==
    ASSUME RateInv, clock # bucket.last
    PROVE  /\ Available(clock) \in 0 .. Burst
           /\ bucket.last # 0 =>
                Available(clock) <= bucket.tokens + PerTick * ((clock - bucket.last) \div Tick)
<1>0. /\ clock \in Nat /\ bucket.last \in Nat /\ bucket.tokens \in 0 .. Burst
      /\ clock - bucket.last \in Nat
  BY DEF RateInv
<1>1. PICK d \in Nat : d = (clock - bucket.last) \div Tick
  BY <1>0, LimitConstants, DivAdds
<1>2. PICK m \in Nat : m = Burst \div PerTick + 1
  BY LimitConstants, DivAdds
<1>3. Lesser(d, m) \in Nat /\ Lesser(d, m) <= d
  BY DEF Lesser
<1>4. PICK l \in Nat : l = Lesser(d, m) /\ l <= d
  BY <1>3
<1>5. PerTick * l \in Nat /\ PerTick * l <= PerTick * d
  BY <1>4, LimitConstants, MulMono
<1>6. Available(clock) = IF bucket.last = 0 THEN Burst ELSE Lesser(Burst, bucket.tokens + PerTick * l)
  BY <1>1, <1>2, <1>4 DEF Available
<1>7. PICK k \in Nat : k = PerTick * l
  BY <1>5
<1>8. PICK x \in Nat : x = bucket.tokens
  BY <1>0
<1>9. /\ Lesser(Burst, x + k) \in 0 .. Burst
      /\ Lesser(Burst, x + k) <= x + k
  BY LimitConstants DEF Lesser
<1>10. Burst \in 0 .. Burst
  BY LimitConstants
<1>11. Available(clock) \in 0 .. Burst
  BY <1>6, <1>7, <1>8, <1>9, <1>10
<1>12. bucket.last # 0 => Available(clock) <= x + k
  BY <1>6, <1>7, <1>8, <1>9
<1>13. PICK e \in Nat : e = PerTick * d /\ k <= e
  BY <1>5, <1>7, LimitConstants, MulMono
<1>14. bucket.last # 0 => Available(clock) <= x + e
  BY <1>11, <1>12, <1>13
<1> QED
  BY <1>1, <1>8, <1>11, <1>13, <1>14

\* An event keeps the bound of every stretch (rate_allow).
LEMMA RateAllowKeeps ==
    ASSUME RateInv, RateAllow
    PROVE  RateInv'
<1>1. PICK t \in Nat \ {0} : t = clock
  BY DEF RateInv
<1>2. PICK n \in Nat : n = bucket.last /\ n <= t
  BY <1>1 DEF RateInv
<1>3. n < t /\ t # n
  BY <1>1, <1>2 DEF RateAllow
<1>4. PICK G \in SUBSET (1 .. n) : G = bucket.given
  BY <1>2 DEF RateInv
<1>5. PICK x \in 0 .. Burst : x = bucket.tokens
  BY DEF RateInv
<1>6. PICK h \in 0 .. Burst : h = Available(clock) /\ (n # 0 => h <= x + PerTick * ((t - n) \div Tick))
  BY <1>1, <1>2, <1>3, <1>5, AvailableBound
<1>7. \A s, u \in G : s <= u => Within(G, s, u) <= Burst + PerTick * ((u - s) \div Tick)
  BY <1>4 DEF RateInv, RateHolds
<1>8. \A s \in G : Within(G, s, n) + x <= Burst + PerTick * ((n - s) \div Tick)
  BY <1>2, <1>4, <1>5 DEF RateInv
<1>9. /\ bucket'.last = t /\ clock' = t
      /\ bucket'.tokens = IF h = 0 THEN 0 ELSE h - 1
      /\ bucket'.given = IF h = 0 THEN G ELSE G \cup {t}
  BY <1>1, <1>4, <1>6 DEF RateAllow
<1>14. t \in Nat /\ t > n
  BY <1>3
<1> DEFINE H == G \cup {t}
<1>13. /\ \A s \in G : Within(G, s, n) \in Nat /\ Within(G, s, t) = Within(G, s, n)
       /\ \A s, u \in G : Within(H, s, u) = Within(G, s, u)
       /\ \A s \in G : Within(H, s, t) = Within(G, s, n) + 1
       /\ Within(H, t, t) = 1
  <2>1. \A s \in G : s \in 1 .. n /\ s \in Nat
    OBVIOUS
  <2>2. /\ \A s, u \in Nat : Within(G, s, u) \in Nat
        /\ \A s, u \in 1 .. n : Within(H, s, u) = Within(G, s, u)
        /\ \A s \in 1 .. n : Within(H, s, t) = Within(G, s, n) + 1
        /\ \A s \in 1 .. n : Within(G, s, t) = Within(G, s, n)
        /\ Within(H, t, t) = 1
    BY <1>14, WithinCounts
  <2> HIDE DEF H
  <2> QED
    BY <2>1, <2>2
<1> HIDE DEF H
<1>10. ASSUME NEW s \in G
       PROVE  Within(G, s, n) + h <= Burst + PerTick * ((t - s) \div Tick)
  <2>1. s \in 1 .. n /\ n # 0
    OBVIOUS
  <2>2. PICK a \in Nat : a = n - s
    BY <2>1
  <2>3. PICK b \in Nat : b = t - n
    BY <1>3
  <2>4. t - s = a + b
    BY <2>1, <2>2, <2>3
  <2>5. PICK p \in Nat : p = a \div Tick
    BY LimitConstants, DivAdds
  <2>6. PICK q \in Nat : q = b \div Tick
    BY LimitConstants, DivAdds
  <2>7. PICK r \in Nat : r = (t - s) \div Tick /\ p + q <= r
    BY <2>4, <2>5, <2>6, LimitConstants, DivAdds
  <2>8. PerTick * (p + q) = PerTick * p + PerTick * q /\ PerTick * (p + q) <= PerTick * r
    BY <2>7, LimitConstants, MulAdd, MulMono
  <2>9. PICK y \in Nat : y = Within(G, s, n)
    BY <1>13
  <2>10. y + x <= Burst + PerTick * p
    BY <1>8, <2>2, <2>5, <2>9
  <2>11. h <= x + PerTick * q
    BY <1>6, <2>1, <2>3, <2>6
  <2>12. PerTick * p \in Nat /\ PerTick * q \in Nat /\ PerTick * r \in Nat /\ Burst \in Nat
    BY LimitConstants, MulMono
  <2>13. y + h <= Burst + PerTick * r
    <3>1. PICK P \in Nat : P = PerTick * p
      BY <2>12
    <3>2. PICK Q \in Nat : Q = PerTick * q
      BY <2>12
    <3>3. PICK R \in Nat : R = PerTick * r
      BY <2>12
    <3>4. P + Q <= R
      BY <2>8, <3>1, <3>2, <3>3
    <3> QED
      BY <2>10, <2>11, <2>12, <3>1, <3>2, <3>3, <3>4
  <2> QED
    BY <2>7, <2>9, <2>13
<1>11. CASE h = 0
  <2>1. bucket'.given = G /\ bucket'.tokens = 0
    BY <1>9, <1>11
  <2>2. \A s \in G : Within(G, s, t) = Within(G, s, n)
    BY <1>13
  <2>4. \A s \in G : Within(G, s, t) + 0 <= Burst + PerTick * ((t - s) \div Tick)
    BY <1>10, <1>11, <2>2
  <2>5. RateHolds'
    BY <1>7, <2>1 DEF RateHolds
  <2>6. G \subseteq 1 .. t
    BY <1>3
  <2>7. t \in 0 .. t /\ 0 \in 0 .. Burst
    BY LimitConstants
  <2> QED
    BY <1>9, <2>1, <2>4, <2>5, <2>6, <2>7 DEF RateInv
<1>12. CASE h # 0
  <2>1. bucket'.given = H /\ bucket'.tokens = h - 1
    BY <1>9, <1>12 DEF H
  <2>0. H = G \cup {t}
    BY DEF H
  <2>2. /\ \A s \in G : Within(H, s, t) = Within(G, s, n) + 1 /\ Within(G, s, n) \in Nat
        /\ \A s, u \in G : Within(H, s, u) = Within(G, s, u)
        /\ Within(H, t, t) = 1
    BY <1>13
  <2>3. PerTick * ((t - t) \div Tick) = 0
    BY LimitConstants
  <2>4. ASSUME NEW s \in H
        PROVE  Within(H, s, t) + (h - 1) <= Burst + PerTick * ((t - s) \div Tick)
    <3>1. CASE s = t
      BY <2>2, <2>3, <3>1, LimitConstants
    <3>2. CASE s \in G
      <4>1. PICK y \in Nat : y = Within(G, s, n)
        BY <2>2, <3>2
      <4>2. y + h <= Burst + PerTick * ((t - s) \div Tick)
        BY <1>10, <3>2, <4>1
      <4>3. Within(H, s, t) + (h - 1) = y + h
        BY <2>2, <3>2, <4>1
      <4> QED
        BY <4>2, <4>3
    <3> QED
      BY <2>0, <3>1, <3>2
  <2>5. ASSUME NEW s \in H, NEW u \in H, s <= u
        PROVE  Within(H, s, u) <= Burst + PerTick * ((u - s) \div Tick)
    <3>1. CASE u = t
      <4>1. PICK w \in Nat : w = Within(H, s, t)
        BY <2>0, <2>2
      <4>2. PICK b \in Nat : b = PerTick * ((t - s) \div Tick)
        <5>1. t - s \in Nat
          BY <3>1, <2>5
        <5>2. PICK a \in Nat : a = (t - s) \div Tick
          BY <5>1, LimitConstants, DivAdds
        <5>3. PerTick * a \in Nat
          BY LimitConstants, MulMono
        <5> QED
          BY <5>2, <5>3
      <4>3. w + (h - 1) <= Burst + b
        BY <2>4, <4>1, <4>2
      <4>4. w <= Burst + b
        BY <1>12, <4>3, LimitConstants
      <4> QED
        BY <3>1, <4>1, <4>2, <4>4
    <3>2. CASE u \in G
      <4>1. s \in G
        BY <1>3, <2>0, <2>5, <3>2
      <4> QED
        BY <1>7, <2>2, <2>5, <3>2, <4>1
    <3> QED
      BY <2>0, <3>1, <3>2
  <2>6. RateHolds'
    BY <2>1, <2>5 DEF RateHolds
  <2>7. H \subseteq 1 .. t /\ t \in 0 .. t /\ h - 1 \in 0 .. Burst
    BY <1>3, <1>12, <2>0, LimitConstants
  <2> QED
    BY <1>9, <2>1, <2>4, <2>6, <2>7 DEF RateInv
<1> QED
  BY <1>11, <1>12

-----------------------------------------------------------------------------
(* The minutes                                                             *)

Minutes == [width : Nat \ {0}, seen : SUBSET Nat, held : [0 .. Horizon -> SUBSET Nat],
            made : [0 .. Horizon -> Seq(SUBSET Nat)]]

\* A bucket that was made a point is of a minute that is over, and stays empty:
\* the bucket of the moment is of a minute that is not.
MinuteInv ==
    limit = "minutes" =>
        /\ minute \in Minutes /\ clock \in Nat /\ \A c \in minute.seen : c < clock
        /\ Minute % minute.width = 0 =>
             \A b \in 0 .. Horizon :
                /\ minute.held[b] \cup PointOf(b) = {c \in minute.seen : BucketOf(c) = b}
                /\ minute.made[b] # <<>> =>
                     minute.held[b] = {} /\ Len(minute.made[b]) = 1 /\ MinuteOver(b)

\* When buckets fit into the minute, the bucket of a moment begins in the
\* moment's minute.
LEMMA BucketsFit ==
    ASSUME NEW t \in Nat, NEW w \in Nat \ {0}, NEW n \in Nat \ {0}, n % w = 0
    PROVE  t % w <= t % n /\ t % w \in Nat /\ t % n \in Nat /\ t % w <= t /\ t % n <= t
<1>1. PICK k \in Nat : n = w * k
  OBVIOUS
<1>2. PICK q \in Nat, r \in Nat : t = n * q + r /\ r = t % n
  OBVIOUS
<1>3. PICK p \in Nat, s \in 0 .. w - 1 : r = w * p + s
  <2>1. r = w * (r \div w) + (r % w) /\ r \div w \in Nat /\ r % w \in 0 .. w - 1
    OBVIOUS
  <2> QED
    BY <2>1
<1>4. t = w * (k * q + p) + s
  <2>1. (w * k) * q = w * (k * q)
    OBVIOUS
  <2>2. w * (k * q + p) = w * (k * q) + w * p
    OBVIOUS
  <2>3. n * q = w * (k * q)
    BY <1>1, <2>1
  <2>4. w * (k * q) \in Nat /\ w * p \in Nat /\ n * q \in Nat
    OBVIOUS
  <2>5. t = (w * (k * q) + w * p) + s
    <3>1. PICK a \in Nat : a = w * (k * q)
      BY <2>4
    <3>2. PICK b \in Nat : b = w * p
      BY <2>4
    <3>3. t = a + r /\ r = b + s
      BY <1>2, <1>3, <2>3, <3>1, <3>2
    <3> QED
      BY <3>1, <3>2, <3>3
  <2> QED
    BY <2>2, <2>5
<1>5. t % w = s
  <2>1. PICK x \in Nat : x = k * q + p
    OBVIOUS
  <2>2. t = w * x + s
    BY <1>4, <2>1
  <2> QED
    BY <2>2
<1>6. w * p \in Nat /\ n * q \in Nat
  OBVIOUS
<1>7. s <= r /\ r <= t /\ s \in Nat
  <2>1. PICK a \in Nat : a = n * q
    BY <1>6
  <2>2. PICK b \in Nat : b = w * p
    BY <1>6
  <2>3. t = a + r /\ r = b + s
    BY <1>2, <1>3, <2>1, <2>2
  <2> QED
    BY <2>3
<1> QED
  BY <1>2, <1>5, <1>7

\* Minutes do not go back.
LEMMA MinutesPass ==
    ASSUME NEW t \in Nat, NEW n \in Nat \ {0}
    PROVE  t - (t % n) <= (t + 1) - ((t + 1) % n)
<1>1. PICK q \in Nat, r \in 0 .. n - 1 : t = n * q + r /\ r = t % n
  OBVIOUS
<1>2. PICK p \in Nat, s \in 0 .. n - 1 : t + 1 = n * p + s /\ s = (t + 1) % n
  OBVIOUS
<1>3. q <= p
  <2>1. p + 1 <= q => n * (p + 1) <= n * q
    OBVIOUS
  <2>2. n * (p + 1) = n * p + n
    OBVIOUS
  <2>3. n * p \in Nat /\ n * q \in Nat
    OBVIOUS
  <2> QED
    BY <1>1, <1>2, <2>1, <2>2, <2>3
<1>4. n * q <= n * p /\ n * p \in Nat /\ n * q \in Nat
  BY <1>3
<1>5. t - (t % n) = n * q
  BY <1>1, <1>4
<1>6. (t + 1) - ((t + 1) % n) = n * p
  BY <1>2, <1>4
<1> QED
  BY <1>4, <1>5, <1>6

LEMMA PointsAppend ==
    ASSUME NEW p \in Seq(SUBSET Nat), NEW S \in SUBSET Nat
    PROVE  /\ Append(p, S) \in Seq(SUBSET Nat)
           /\ p = <<>> => Append(p, S) # <<>> /\ Append(p, S)[1] = S /\ Len(Append(p, S)) = 1
<1>1. /\ Append(p, S) \in Seq(SUBSET Nat) /\ Len(Append(p, S)) = Len(p) + 1
      /\ Append(p, S)[Len(p) + 1] = S /\ Len(p) \in Nat
  OBVIOUS
<1>2. p = <<>> => Len(p) = 0
  OBVIOUS
<1>3. Len(<<>>) = 0
  OBVIOUS
<1> QED
  BY <1>1, <1>2, <1>3

\* A cycle counts what it read in its bucket and makes points of the buckets of
\* the minutes that are over (observe, drain_closed).
LEMMA MinuteCycleKeeps ==
    ASSUME MinuteInv, MinuteCycle
    PROVE  MinuteInv'
<1>1. limit = "minutes" /\ limit' = limit
  BY DEF MinuteCycle
<1>2. PICK t \in Nat : t = clock /\ t < Horizon /\ clock' = t + 1
  BY <1>1 DEF MinuteInv, MinuteCycle
<1>3. PICK m \in Minutes : m = minute
  BY <1>1 DEF MinuteInv
<1>4. m.width \in Nat \ {0} /\ m.seen \in SUBSET Nat
  BY DEF Minutes
<1>5. PICK w \in Nat \ {0} : w = m.width
  BY <1>4
<1>6. \A c \in m.seen : c \in Nat /\ c < t /\ c < t + 1
  BY <1>1, <1>2, <1>3, <1>4 DEF MinuteInv
<1>7. t - (t % Minute) <= (t + 1) - ((t + 1) % Minute)
  BY LimitConstants, MinutesPass
<1>8. t % Minute \in Nat /\ (t + 1) % Minute \in Nat /\ t % w \in Nat
  BY LimitConstants
<1>9. \A b \in Nat : MinuteOver(b) => MinuteOver(b)'
  <2> SUFFICES ASSUME NEW b \in Nat, b < t - (t % Minute)
               PROVE  b < (t + 1) - ((t + 1) % Minute)
    BY <1>2 DEF MinuteOver
  <2> QED
    BY <1>7, <1>8
<1>10. CASE UNCHANGED minute
  <2>1. \A b \in 0 .. Horizon : MinuteOver(b) => MinuteOver(b)'
    BY <1>9
  <2>2. \A c : BucketOf(c)' = BucketOf(c)
    BY <1>10 DEF BucketOf
  <2>3. \A b : PointOf(b)' = PointOf(b)
    BY <1>10 DEF PointOf
  <2> QED
    BY <1>1, <1>2, <1>3, <1>6, <1>10, <2>1, <2>2, <2>3 DEF MinuteInv
<1>11. ASSUME NEW read \in {{}, {t}},
              minute' = [MinuteDrained(MinuteObserved(read)) EXCEPT !.seen = @ \cup read]
       PROVE  MinuteInv'
  <2> DEFINE slot == t - (t % w)
             counts == [b \in 0 .. Horizon |-> m.held[b] \cup IF b = slot THEN read ELSE {}]
             over == {b \in 0 .. Horizon : counts[b] # {} /\ MinuteOver(b)}
             held == [b \in 0 .. Horizon |-> IF b \in over THEN {} ELSE counts[b]]
             made == [b \in 0 .. Horizon |-> IF b \in over THEN Append(m.made[b], counts[b]) ELSE m.made[b]]
  <2>1. MinuteObserved(read) = counts
    BY <1>2, <1>3, <1>5 DEF MinuteObserved, BucketOf
  <2>2. counts \in [0 .. Horizon -> SUBSET Nat] /\ read \subseteq Nat
    BY <1>2 DEF Minutes
  <2>3. held \in [0 .. Horizon -> SUBSET Nat]
    BY <2>2
  <2>4. made \in [0 .. Horizon -> Seq(SUBSET Nat)]
    <3>1. m.made \in [0 .. Horizon -> Seq(SUBSET Nat)]
      BY DEF Minutes
    <3>2. \A b \in 0 .. Horizon : Append(m.made[b], counts[b]) \in Seq(SUBSET Nat)
      BY <2>2, <3>1, PointsAppend
    <3> QED
      BY <3>1, <3>2
  <2>5. minute' = [width |-> w, seen |-> m.seen \cup read, held |-> held, made |-> made]
    <3>1. MinuteDrained(counts) = [m EXCEPT !.held = held, !.made = made]
      <4>1. m.made \in [0 .. Horizon -> Seq(SUBSET Nat)]
        BY DEF Minutes
      <4> QED
        BY <1>3, <4>1 DEF MinuteDrained
    <3>2. minute' = [[m EXCEPT !.held = held, !.made = made] EXCEPT !.seen = @ \cup read]
      BY <1>11, <2>1, <3>1
    <3> HIDE DEF held, made
    <3> QED
      BY <1>5, <3>2 DEF Minutes
  <2>6. minute' \in Minutes
    <3> HIDE DEF held, made
    <3> QED
      BY <1>4, <2>2, <2>3, <2>4, <2>5 DEF Minutes
  <2>7. clock' \in Nat /\ \A c \in minute'.seen : c < clock'
    BY <1>2, <1>6, <2>5
  <2>8. ASSUME Minute % w = 0, NEW b \in 0 .. Horizon
        PROVE  /\ minute'.held[b] \cup PointOf(b)' = {c \in minute'.seen : BucketOf(c)' = b}
               /\ minute'.made[b] # <<>> =>
                    minute'.held[b] = {} /\ Len(minute'.made[b]) = 1 /\ MinuteOver(b)'
    <3>1. /\ minute'.held[b] = held[b] /\ minute'.made[b] = made[b]
          /\ minute'.seen = m.seen \cup read /\ minute'.width = w
      BY <2>5
    <3>2. /\ m.held[b] \cup PointOf(b) = {c \in m.seen : c - (c % w) = b}
          /\ m.made[b] # <<>> => m.held[b] = {} /\ Len(m.made[b]) = 1 /\ MinuteOver(b)
      BY <1>1, <1>3, <1>5, <2>8 DEF MinuteInv, BucketOf
    <3>3. PointOf(b) = IF m.made[b] = <<>> THEN {} ELSE m.made[b][1]
      BY <1>3 DEF PointOf
    <3>4. PointOf(b)' = IF made[b] = <<>> THEN {} ELSE made[b][1]
      BY <3>1 DEF PointOf
    <3>5. {c \in minute'.seen : BucketOf(c)' = b} = {c \in m.seen \cup read : c - (c % w) = b}
      BY <3>1 DEF BucketOf
    <3>6. ~MinuteOver(slot)
      <4>1. t % w <= t % Minute
        BY <2>8, LimitConstants, BucketsFit
      <4> QED
        BY <1>2, <1>8, <4>1 DEF MinuteOver
    <3>7. {c \in m.seen \cup read : c - (c % w) = b}
            = {c \in m.seen : c - (c % w) = b} \cup IF b = slot THEN read ELSE {}
      OBVIOUS
    <3>8. CASE b \in over
      <4>1. b # slot /\ counts[b] = m.held[b] /\ m.held[b] # {}
        BY <3>6, <3>8
      <4>2. m.made[b] = <<>>
        BY <3>2, <4>1
      <4>3. held[b] = {} /\ made[b] = Append(<<>>, m.held[b])
        BY <3>8, <4>1, <4>2
      <4>4. m.held[b] \in SUBSET Nat
        BY DEF Minutes
      <4>5. made[b] # <<>> /\ made[b][1] = m.held[b] /\ Len(made[b]) = 1
        <5>1. <<>> \in Seq(SUBSET Nat)
          OBVIOUS
        <5> HIDE DEF made
        <5> QED
          BY <4>3, <4>4, <5>1, PointsAppend
      <4>6. MinuteOver(b)'
        BY <1>9, <3>8
      <4> HIDE DEF slot, counts, over, held, made
      <4> QED
        BY <3>1, <3>2, <3>3, <3>4, <3>5, <3>7, <4>1, <4>2, <4>3, <4>5, <4>6
    <3>9. CASE b \notin over
      <4>1. held[b] = m.held[b] \cup (IF b = slot THEN read ELSE {}) /\ made[b] = m.made[b]
        BY <3>9
      <4>2. m.made[b] # <<>> => b # slot
        BY <3>2, <3>6
      <4>3. MinuteOver(b) => MinuteOver(b)'
        BY <1>9
      <4> HIDE DEF slot, counts, over, held, made
      <4> QED
        BY <3>1, <3>2, <3>3, <3>4, <3>5, <3>7, <4>1, <4>2, <4>3
    <3> QED
      BY <3>8, <3>9
  <2>9. minute'.width = w
    BY <2>5
  <2> HIDE DEF slot, counts, over, held, made
  <2> QED
    BY <2>6, <2>7, <2>8, <2>9 DEF MinuteInv
<1> QED
  BY <1>2, <1>10, <1>11 DEF MinuteCycle

-----------------------------------------------------------------------------
(* The CPU share                                                           *)

\* The samples that were compared with one before.
Reads(samples) ==
    {i \in 1 .. Len(samples) : samples[i] # "none" /\ \E j \in 1 .. Len(samples) : samples[j] # "none" /\ j < i}

\* over_since is the first read of the stretch that the last one is of.
CpuInv ==
    /\ cpu.samples \in Seq({"over", "under", "none"}) /\ cpu.based \in BOOLEAN
    /\ cpu.degraded \in BOOLEAN /\ cpu.over_since \in Nat \cup {Unset}
    /\ limit = "cpu" => clock = Len(cpu.samples) + 1
    /\ cpu.based <=> \E i \in 1 .. Len(cpu.samples) : cpu.samples[i] # "none"
    /\ Reads(cpu.samples) # {} => \E end \in Reads(cpu.samples) : \A j \in Reads(cpu.samples) : j <= end
    /\ cpu.over_since # Unset =>
         /\ cpu.over_since \in Reads(cpu.samples)
         /\ \A j \in Reads(cpu.samples) : j >= cpu.over_since => cpu.samples[j] = "over"
    /\ \A i \in Reads(cpu.samples) :
         (\A j \in Reads(cpu.samples) : j >= i => cpu.samples[j] = "over") =>
            cpu.over_since # Unset /\ cpu.over_since <= i
    /\ cpu.degraded <=> /\ cpu.over_since # Unset
                        /\ \E end \in Reads(cpu.samples) : end - cpu.over_since >= DegradeWindow

LEMMA UnsetApart == Unset \notin Nat
BY EbpfLimitsAssumption

\* A sample that can be read, after another, is read as well.
LEMMA ReadsGrow ==
    ASSUME NEW q \in Seq({"over", "under", "none"}), NEW s \in {"over", "under", "none"}
    PROVE  LET t == Len(q) + 1 IN
           /\ Append(q, s) \in Seq({"over", "under", "none"}) /\ Len(Append(q, s)) = t /\ t \in Nat
           /\ Append(q, s)[t] = s /\ \A i \in 1 .. Len(q) : Append(q, s)[i] = q[i]
           /\ Reads(q) \subseteq 1 .. Len(q)
           /\ \A i : i \in 1 .. t <=> i \in 1 .. Len(q) \/ i = t
           /\ Reads(Append(q, s)) =
                Reads(q) \cup IF s # "none" /\ \E i \in 1 .. Len(q) : q[i] # "none" THEN {t} ELSE {}
<1> DEFINE t == Len(q) + 1
           r == Append(q, s)
<1>1. Len(q) \in Nat /\ t \in Nat
  OBVIOUS
<1>2. /\ r \in Seq({"over", "under", "none"}) /\ Len(r) = t /\ r[t] = s
      /\ \A i \in 1 .. Len(q) : r[i] = q[i]
  OBVIOUS
<1>3. \A i : i \in 1 .. t <=> i \in 1 .. Len(q) \/ i = t
  BY <1>1
<1>4. \A i \in 1 .. Len(q) : i < t /\ ~(t < i) /\ i \in Nat
  BY <1>1
<1>5. ~(t < t)
  BY <1>1
<1> HIDE DEF t, r
<1>6. Reads(r) = Reads(q) \cup IF s # "none" /\ \E i \in 1 .. Len(q) : q[i] # "none" THEN {t} ELSE {}
  <2>1. \A i \in 1 .. Len(q) : i \in Reads(r) <=> i \in Reads(q)
    BY <1>2, <1>3, <1>4 DEF Reads
  <2>2. t \in Reads(r) <=> s # "none" /\ \E i \in 1 .. Len(q) : q[i] # "none"
    BY <1>2, <1>3, <1>4, <1>5 DEF Reads
  <2>3. t \notin Reads(q) /\ Reads(q) \subseteq 1 .. Len(q) /\ Reads(r) \subseteq 1 .. t
    BY <1>2, <1>4, <1>5 DEF Reads
  <2> QED
    BY <1>3, <2>1, <2>2, <2>3
<1>7. Reads(q) \subseteq 1 .. Len(q)
  BY DEF Reads
<1> QED
  BY <1>1, <1>2, <1>3, <1>6, <1>7 DEF t, r

\* A sample keeps over_since where it is, ends the stretch or begins one
\* (CpuTracker::observe).
LEMMA ObserveKeeps ==
    ASSUME CpuInv, NEW s \in {"over", "under", "none"}, Observe(s)
    PROVE  CpuInv'
<1>1. PICK q \in Seq({"over", "under", "none"}) : q = cpu.samples
  BY DEF CpuInv
<1>2. PICK t \in Nat : t = Len(q) + 1 /\ t = clock
  BY <1>1 DEF CpuInv, Observe
<1>3. PICK since \in Nat \cup {Unset} : since = cpu.over_since
  BY DEF CpuInv
<1>4. PICK r \in Seq({"over", "under", "none"}) : r = Append(q, s)
  BY ReadsGrow
<1>5. PICK R \in SUBSET (1 .. Len(q)) : R = Reads(q)
  BY <1>1, ReadsGrow
<1>6. PICK new \in Nat \cup {Unset} : new = OverSince(s)
  BY <1>2, <1>3 DEF OverSince
<1>7. /\ cpu'.samples = r /\ cpu'.over_since = new /\ clock' = t + 1 /\ limit' = limit
      /\ cpu'.based = (cpu.based \/ s # "none")
      /\ cpu'.degraded = IF s = "none" \/ ~cpu.based THEN cpu.degraded
                         ELSE new # Unset /\ (cpu.degraded \/ t - new >= DegradeWindow)
  BY <1>1, <1>2, <1>4, <1>6 DEF Observe
<1>8. /\ Len(r) = t /\ r[t] = s /\ \A i \in 1 .. Len(q) : r[i] = q[i]
      /\ \A i : i \in 1 .. t <=> i \in 1 .. Len(q) \/ i = t
      /\ Reads(r) = R \cup IF s # "none" /\ \E i \in 1 .. Len(q) : q[i] # "none" THEN {t} ELSE {}
  BY <1>2, <1>4, <1>5, ReadsGrow
<1>9. cpu.based <=> \E i \in 1 .. Len(q) : q[i] # "none"
  BY <1>1 DEF CpuInv
<1>10. Reads(r) = R \cup IF s # "none" /\ cpu.based THEN {t} ELSE {}
  BY <1>8, <1>9
<1>11. cpu'.based <=> \E i \in 1 .. Len(r) : r[i] # "none"
  BY <1>7, <1>8, <1>9
<1>12. /\ R # {} => \E end \in R : \A j \in R : j <= end
       /\ since # Unset => since \in R /\ \A j \in R : j >= since => q[j] = "over"
       /\ \A i \in R : (\A j \in R : j >= i => q[j] = "over") => since # Unset /\ since <= i
       /\ cpu.degraded <=> since # Unset /\ \E end \in R : end - since >= DegradeWindow
       /\ cpu.degraded \in BOOLEAN /\ cpu.based \in BOOLEAN
  BY <1>1, <1>3, <1>5 DEF CpuInv
<1>13. \A i \in R : i \in Nat /\ i < t /\ r[i] = q[i] /\ i \in 1 .. Len(q)
  BY <1>2, <1>8
<1>14. limit' = "cpu" => clock' = Len(r) + 1
  BY <1>7, <1>8
<1>15. cpu'.based \in BOOLEAN /\ cpu'.degraded \in BOOLEAN
  BY <1>7, <1>12
<1>16. CASE s = "none" \/ ~cpu.based
  <2>1. new = since /\ cpu'.degraded = cpu.degraded /\ Reads(r) = R
    BY <1>3, <1>6, <1>7, <1>10, <1>16 DEF OverSince
  <2>2. Reads(r) # {} => \E end \in Reads(r) : \A j \in Reads(r) : j <= end
    BY <1>12, <2>1
  <2>3. new # Unset => new \in Reads(r) /\ \A j \in Reads(r) : j >= new => r[j] = "over"
    BY <1>12, <1>13, <2>1
  <2>4. \A i \in Reads(r) : (\A j \in Reads(r) : j >= i => r[j] = "over") => new # Unset /\ new <= i
    BY <1>12, <1>13, <2>1
  <2>5. cpu'.degraded <=> new # Unset /\ \E end \in Reads(r) : end - new >= DegradeWindow
    BY <1>12, <2>1
  <2> QED
    BY <1>7, <1>11, <1>14, <1>15, <2>2, <2>3, <2>4, <2>5 DEF CpuInv
<1>17. CASE s # "none" /\ cpu.based
  <2>1. Reads(r) = R \cup {t} /\ \A i \in R \cup {t} : i \in Nat /\ i <= t
    BY <1>10, <1>13, <1>17
  <2>2. \E end \in Reads(r) : \A j \in Reads(r) : j <= end
    BY <2>1
  <2>3. CASE s = "under"
    <3>1. new = Unset /\ cpu'.degraded = FALSE
      BY <1>6, <1>7, <1>17, <2>3 DEF OverSince
    <3>2. \A i \in Reads(r) : ~(\A j \in Reads(r) : j >= i => r[j] = "over")
      BY <1>8, <2>1, <2>3
    <3> QED
      BY <1>7, <1>11, <1>14, <1>15, <2>2, <3>1, <3>2 DEF CpuInv
  <2>4. CASE s = "over" /\ since = Unset
    <3>1. new = t
      BY <1>2, <1>3, <1>6, <1>17, <2>4 DEF OverSince
    <3>2. new # Unset
      BY <3>1, UnsetApart
    <3>3. new \in Reads(r) /\ \A j \in Reads(r) : j >= new => r[j] = "over"
      <4>1. \A j \in R : ~(j >= t)
        BY <1>13
      <4>2. r[t] = "over"
        BY <1>8, <2>4
      <4> QED
        BY <2>1, <3>1, <4>1, <4>2
    <3>4. \A i \in Reads(r) : (\A j \in Reads(r) : j >= i => r[j] = "over") => new <= i
      <4>1. \A i \in R : ~(\A j \in R : j >= i => q[j] = "over")
        BY <1>12, <2>4
      <4> QED
        BY <1>13, <2>1, <3>1, <4>1
    <3>5. cpu'.degraded <=> \E end \in Reads(r) : end - new >= DegradeWindow
      <4>1. cpu'.degraded <=> t - t >= DegradeWindow
        BY <1>7, <1>12, <1>17, <2>4, <3>1, <3>2
      <4>2. \A end \in Reads(r) : end - t >= DegradeWindow => t - t >= DegradeWindow
        <5>1. \A end \in Nat : end <= t /\ end - t >= DegradeWindow => t - t >= DegradeWindow
          BY LimitConstants
        <5> QED
          BY <2>1, <5>1
      <4> QED
        BY <2>1, <3>1, <4>1, <4>2
    <3> QED
      BY <1>7, <1>11, <1>14, <1>15, <2>2, <3>2, <3>3, <3>4, <3>5 DEF CpuInv
  <2>5. CASE s = "over" /\ since # Unset
    <3>1. new = since /\ new # Unset /\ since \in R /\ new \in Nat
      BY <1>3, <1>6, <1>12, <1>17, <2>5 DEF OverSince
    <3>2. new \in Reads(r) /\ \A j \in Reads(r) : j >= new => r[j] = "over"
      BY <1>8, <1>12, <1>13, <2>1, <2>5, <3>1
    <3>3. \A i \in Reads(r) : (\A j \in Reads(r) : j >= i => r[j] = "over") => new <= i
      <4>1. new <= t
        BY <2>1, <3>1
      <4> QED
        BY <1>12, <1>13, <2>1, <3>1, <4>1
    <3>4. cpu'.degraded <=> \E end \in Reads(r) : end - new >= DegradeWindow
      <4>1. cpu'.degraded <=> cpu.degraded \/ t - new >= DegradeWindow
        BY <1>7, <1>12, <1>17, <3>1
      <4>2. cpu.degraded <=> \E end \in R : end - new >= DegradeWindow
        BY <1>12, <3>1
      <4> QED
        BY <2>1, <4>1, <4>2
    <3> QED
      BY <1>7, <1>11, <1>14, <1>15, <2>2, <3>1, <3>2, <3>3, <3>4 DEF CpuInv
  <2> QED
    BY <1>17, <2>3, <2>4, <2>5
<1> QED
  BY <1>16, <1>17

\* What CpuInv is for.
LEMMA CpuIsTold == CpuInv => DegradedIsSustained
<1> SUFFICES ASSUME CpuInv
             PROVE  DegradedIsSustained
  OBVIOUS
<1> DEFINE R == Reads(cpu.samples)
<1>1. \A i \in R : i \in Nat
  <2>1. Len(cpu.samples) \in Nat
    BY DEF CpuInv
  <2> QED
    BY <2>1 DEF Reads
<1>2. SUFFICES cpu.degraded <=> \E i, end \in R :
                                   /\ \A j \in R : j <= end /\ (j >= i => cpu.samples[j] = "over")
                                   /\ end - i >= DegradeWindow
  <2>1. {i \in {k \in 1..Len(cpu.samples) : cpu.samples[k] # "none"} :
           \E j \in {k \in 1..Len(cpu.samples) : cpu.samples[k] # "none"} : j < i} = R
    BY DEF Reads
  <2> HIDE DEF R
  <2> QED
    BY <2>1 DEF DegradedIsSustained
<1>3. ASSUME cpu.degraded
      PROVE  \E i, end \in R :
                /\ \A j \in R : j <= end /\ (j >= i => cpu.samples[j] = "over")
                /\ end - i >= DegradeWindow
  <2>1. PICK x \in R : x - cpu.over_since >= DegradeWindow
    BY <1>3 DEF CpuInv
  <2>2. PICK end \in R : \A j \in R : j <= end
    BY <2>1 DEF CpuInv
  <2>3. cpu.over_since \in R /\ \A j \in R : j >= cpu.over_since => cpu.samples[j] = "over"
    BY <1>3 DEF CpuInv
  <2>4. end - cpu.over_since >= DegradeWindow
    BY <1>1, <2>1, <2>2, <2>3, LimitConstants
  <2> QED
    BY <2>2, <2>3, <2>4
<1>4. ASSUME NEW i \in R, NEW end \in R,
             \A j \in R : j <= end /\ (j >= i => cpu.samples[j] = "over"),
             end - i >= DegradeWindow
      PROVE  cpu.degraded
  <2>1. cpu.over_since # Unset /\ cpu.over_since <= i
    BY <1>4 DEF CpuInv
  <2>2. cpu.over_since \in R
    BY <2>1 DEF CpuInv
  <2>3. end - cpu.over_since >= DegradeWindow
    BY <1>1, <1>4, <2>1, <2>2, LimitConstants
  <2> QED
    BY <2>1, <2>3 DEF CpuInv
<1> HIDE DEF R
<1> QED
  BY <1>3, <1>4

-----------------------------------------------------------------------------
(* The pids                                                                *)

Entries == [at : Nat, who : Nat]
Answers == [pid : Pids, who : Nat, at : Nat]
Caches  == UNION {[D -> Entries] : D \in SUBSET Pids}

\* Who was found at a moment lost the pid after it, or still has it.
HadAt(p, e) == e.who < pid.owner[p] => e.at <= pid.lost[p][e.who + 1]

PidInv ==
    /\ clock \in Nat
    /\ pid \in [owner : [Pids -> Nat], lost : [Pids -> Seq(Nat)], cache : Caches, answer : Answers \cup {Unset}]
    /\ \A p \in Pids : Len(pid.lost[p]) = pid.owner[p] /\ \A i \in 1 .. Len(pid.lost[p]) : pid.lost[p][i] <= clock
    /\ \A p \in DOMAIN pid.cache :
         pid.cache[p].at <= clock /\ pid.cache[p].who <= pid.owner[p] /\ HadAt(p, pid.cache[p])
    /\ pid.answer # Unset =>
         /\ pid.answer.at <= clock /\ pid.answer.who <= pid.owner[pid.answer.pid]
         /\ AnswersAreRecent

LEMMA UnsetIsNoAnswer == Unset \notin Answers
BY EbpfLimitsAssumption DEF Answers

LEMMA CacheTypes ==
    ASSUME NEW c \in Caches
    PROVE  DOMAIN c \subseteq Pids /\ \A p \in DOMAIN c : c[p] \in Entries /\ c[p].at \in Nat /\ c[p].who \in Nat
BY DEF Caches, Entries

\* A process that ends loses its pid after every answer about it.
LEMMA PidReusedKeeps ==
    ASSUME PidInv, NEW p \in Pids, PidReused(p)
    PROVE  PidInv'
<1>1. PICK t \in Nat : t = clock /\ clock' = t
  BY DEF PidInv, PidReused
<1>2. PICK owner \in [Pids -> Nat] : owner = pid.owner
  BY DEF PidInv
<1>3. PICK gone \in [Pids -> Seq(Nat)] : gone = pid.lost
  BY DEF PidInv
<1>4. PICK cache \in Caches : cache = pid.cache
  BY DEF PidInv
<1>5. PICK said \in Answers \cup {Unset} : said = pid.answer
  BY DEF PidInv
<1>6. pid' = [owner |-> [owner EXCEPT ![p] = @ + 1], lost |-> [gone EXCEPT ![p] = Append(@, t)],
              cache |-> cache, answer |-> said]
  <2>1. pid = [owner |-> owner, lost |-> gone, cache |-> cache, answer |-> said]
    BY <1>2, <1>3, <1>4, <1>5 DEF PidInv
  <2>2. pid' = [pid EXCEPT !.owner[p] = @ + 1, !.lost[p] = Append(@, t)]
    BY <1>1 DEF PidReused
  <2> QED
    BY <2>1, <2>2
<1>7. /\ [owner EXCEPT ![p] = @ + 1] \in [Pids -> Nat]
      /\ [gone EXCEPT ![p] = Append(@, t)] \in [Pids -> Seq(Nat)]
  OBVIOUS
<1>8. pid' \in [owner : [Pids -> Nat], lost : [Pids -> Seq(Nat)], cache : Caches, answer : Answers \cup {Unset}]
  BY <1>6, <1>7
<1>9. \A x \in Pids : /\ pid'.owner[x] = IF x = p THEN owner[p] + 1 ELSE owner[x]
                      /\ pid'.lost[x] = IF x = p THEN Append(gone[p], t) ELSE gone[x]
  BY <1>6
<1>10. \A x \in Pids : Len(gone[x]) = owner[x] /\ \A i \in 1 .. Len(gone[x]) : gone[x][i] \in Nat /\ gone[x][i] <= t
  BY <1>1, <1>2, <1>3 DEF PidInv
<1>11. /\ Len(Append(gone[p], t)) = owner[p] + 1 /\ Append(gone[p], t)[owner[p] + 1] = t
       /\ \A i \in 1 .. owner[p] : Append(gone[p], t)[i] = gone[p][i]
  <2>1. gone[p] \in Seq(Nat) /\ Len(gone[p]) = owner[p]
    BY <1>10
  <2> QED
    BY <2>1
<1>12. \A i \in 1 .. owner[p] + 1 : i \in 1 .. owner[p] \/ i = owner[p] + 1
  OBVIOUS
<1>13. \A x \in Pids : Len(pid'.lost[x]) = pid'.owner[x] /\ \A i \in 1 .. Len(pid'.lost[x]) : pid'.lost[x][i] <= t
  <2> SUFFICES ASSUME NEW x \in Pids
               PROVE  Len(pid'.lost[x]) = pid'.owner[x] /\ \A i \in 1 .. Len(pid'.lost[x]) : pid'.lost[x][i] <= t
    OBVIOUS
  <2>1. t <= t
    OBVIOUS
  <2>2. CASE x = p
    BY <1>9, <1>10, <1>11, <1>12, <2>1, <2>2, ZenonT(60)
  <2>3. CASE x # p
    BY <1>9, <1>10, <2>3
  <2> QED
    BY <2>2, <2>3
\* Whom a moment up to now found had the pid then, if anyone has lost it.
<1>14. ASSUME NEW x \in Pids, NEW who \in Nat, NEW when \in Nat, NEW late \in Int,
              who <= owner[x], when <= t, late >= 0,
              who < owner[x] => when - gone[x][who + 1] <= late
       PROVE  /\ who <= pid'.owner[x]
              /\ who < pid'.owner[x] => when - pid'.lost[x][who + 1] <= late
  <2>1. CASE x = p /\ who = owner[x]
    <3>1. pid'.owner[x] = who + 1 /\ pid'.lost[x] = Append(gone[p], t)
      BY <1>9, <2>1
    <3>2. pid'.lost[x][who + 1] = t
      BY <1>11, <2>1, <3>1
    <3>3. when - t <= late
      BY <1>14
    <3> QED
      BY <3>1, <3>2, <3>3
  <2>2. CASE x = p /\ who < owner[x]
    <3>1. pid'.owner[x] = owner[p] + 1 /\ pid'.lost[x] = Append(gone[p], t)
      BY <1>9, <2>2
    <3>2. who + 1 \in 1 .. owner[p]
      BY <2>2
    <3>3. pid'.lost[x][who + 1] = gone[x][who + 1]
      BY <1>11, <2>2, <3>1, <3>2
    <3>4. who <= owner[p] + 1
      BY <2>2
    <3> QED
      BY <1>14, <2>2, <3>1, <3>3, <3>4
  <2>3. CASE x # p
    BY <1>9, <1>14, <2>3
  <2> QED
    BY <1>14, <2>1, <2>2, <2>3
<1>15. ASSUME NEW x \in DOMAIN pid'.cache
       PROVE  /\ pid'.cache[x].at <= t /\ pid'.cache[x].who <= pid'.owner[x]
              /\ pid'.cache[x].who < pid'.owner[x] => pid'.cache[x].at <= pid'.lost[x][pid'.cache[x].who + 1]
  <2>1. pid'.cache = cache /\ x \in Pids
    BY <1>6, <1>15, CacheTypes
  <2>2. PICK who \in Nat : who = cache[x].who
    BY <1>15, <2>1, CacheTypes
  <2>3. PICK when \in Nat : when = cache[x].at
    BY <1>15, <2>1, CacheTypes
  <2>4. when <= t /\ who <= owner[x] /\ (who < owner[x] => when <= gone[x][who + 1])
    BY <1>1, <1>2, <1>3, <1>4, <1>15, <2>1, <2>2, <2>3 DEF PidInv, HadAt
  <2>5. \A i \in 1 .. Len(gone[x]) : gone[x][i] \in Nat
    BY <1>10, <2>1
  <2>6. who < owner[x] => gone[x][who + 1] \in Nat
    BY <1>10, <2>1, <2>5
  <2>7. who < owner[x] => when - gone[x][who + 1] <= 0
    BY <2>4, <2>6
  <2>8. who <= pid'.owner[x] /\ (who < pid'.owner[x] => when - pid'.lost[x][who + 1] <= 0)
    BY <1>14, <2>1, <2>4, <2>7
  <2>9. who < pid'.owner[x] => pid'.lost[x][who + 1] \in Nat
    <3>1. pid'.lost[x] \in Seq(Nat) /\ pid'.owner[x] = Len(pid'.lost[x])
      BY <1>8, <1>13, <2>1
    <3> QED
      BY <3>1, SMTT(60)
  <2>10. who < pid'.owner[x] => when <= pid'.lost[x][who + 1]
    BY <2>8, <2>9
  <2> QED
    BY <2>1, <2>2, <2>3, <2>4, <2>8, <2>10
<1>16. ASSUME pid'.answer # Unset
       PROVE  /\ pid'.answer.at <= t /\ pid'.answer.who <= pid'.owner[pid'.answer.pid]
              /\ AnswersAreRecent'
  <2>1. pid'.answer = said /\ said \in Answers
    BY <1>6, <1>16
  <2>2. PICK x \in Pids, who \in Nat, when \in Nat : said = [pid |-> x, who |-> who, at |-> when]
    BY <2>1 DEF Answers
  <2>3. when <= t /\ who <= owner[x] /\ (who < owner[x] => when - gone[x][who + 1] < Ttl)
    BY <1>1, <1>2, <1>3, <1>5, <1>16, <2>1, <2>2 DEF PidInv, AnswersAreRecent
  <2>4. \A i \in 1 .. Len(gone[x]) : gone[x][i] \in Nat
    BY <1>10
  <2>5. who < owner[x] => gone[x][who + 1] \in Nat
    BY <1>10, <2>4
  <2>6. Ttl - 1 \in Int /\ Ttl - 1 >= 0
    BY LimitConstants
  <2>7. who < owner[x] => when - gone[x][who + 1] <= Ttl - 1
    BY <2>3, <2>5, LimitConstants
  <2>8. who <= pid'.owner[x] /\ (who < pid'.owner[x] => when - pid'.lost[x][who + 1] <= Ttl - 1)
    BY <1>14, <2>3, <2>6, <2>7
  <2>9. who < pid'.owner[x] => pid'.lost[x][who + 1] \in Nat
    <3>1. pid'.lost[x] \in Seq(Nat) /\ pid'.owner[x] = Len(pid'.lost[x])
      BY <1>8, <1>13
    <3> QED
      BY <3>1, SMTT(60)
  <2>10. who < pid'.owner[x] => when - pid'.lost[x][who + 1] < Ttl
    BY <2>8, <2>9, LimitConstants, SMTT(60)
  <2> QED
    BY <2>1, <2>2, <2>3, <2>8, <2>10 DEF AnswersAreRecent
<1> QED
  BY <1>1, <1>8, <1>13, <1>15, <1>16 DEF PidInv, HadAt

\* An answer is looked up now, or is a fresh one (ProcessResolver::resolve).
LEMMA ResolveKeeps ==
    ASSUME PidInv, NEW p \in Pids, Resolve(p)
    PROVE  PidInv'
<1>1. PICK t \in Nat : t = clock /\ clock' = t
  BY DEF PidInv, Resolve
<1>2. PICK owner \in [Pids -> Nat] : owner = pid.owner
  BY DEF PidInv
<1>3. PICK gone \in [Pids -> Seq(Nat)] : gone = pid.lost
  BY DEF PidInv
<1>4. PICK cache \in Caches : cache = pid.cache
  BY DEF PidInv
<1>5. /\ DOMAIN cache \subseteq Pids
      /\ \A x \in DOMAIN cache : cache[x] \in Entries /\ cache[x].at \in Nat /\ cache[x].who \in Nat
  BY CacheTypes
<1>6. \A x \in DOMAIN cache : /\ cache[x].at <= t /\ cache[x].who <= owner[x]
                              /\ cache[x].who < owner[x] => cache[x].at <= gone[x][cache[x].who + 1]
  BY <1>1, <1>2, <1>3, <1>4 DEF PidInv, HadAt
<1>7. PICK who \in Nat : who = IF Fresh(p) THEN cache[p].who ELSE owner[p]
  BY <1>4, <1>5 DEF Fresh
<1>8. PICK cached : cached = Remember(p, who)
  OBVIOUS
<1>9. pid' = [owner |-> owner, lost |-> gone, cache |-> cached, answer |-> [pid |-> p, who |-> who, at |-> t]]
  <2>1. pid' = [pid EXCEPT !.cache = cached, !.answer = [pid |-> p, who |-> who, at |-> t]]
    BY <1>1, <1>2, <1>4, <1>7, <1>8 DEF Resolve
  <2> QED
    BY <1>2, <1>3, <2>1 DEF PidInv
<1>10. PICK D \in SUBSET Pids :
         /\ p \in D /\ DOMAIN cached = D
         /\ cached \in [D -> Entries]
         /\ \A x \in D : cached[x] = IF x = p /\ ~Fresh(p) THEN [at |-> t, who |-> who] ELSE cache[x]
         /\ \A x \in D : x \in DOMAIN cache \/ (x = p /\ ~Fresh(p))
  <2>1. CASE Fresh(p)
    <3>1. cached = cache /\ p \in DOMAIN cache
      BY <1>1, <1>4, <1>8, <2>1 DEF Remember, Fresh
    <3>2. cache \in [DOMAIN cache -> Entries]
      BY <1>5 DEF Caches
    <3> QED
      BY <1>5, <2>1, <3>1, <3>2
  <2>2. CASE ~Fresh(p)
    <3>1. PICK D \in SUBSET Pids : D \subseteq DOMAIN cache \cup {p} /\ p \in D
                 /\ cached = [x \in D |-> IF x = p THEN [at |-> t, who |-> who] ELSE cache[x]]
      BY <1>1, <1>4, <1>5, <1>8, <2>2 DEF Remember
    <3>2. [at |-> t, who |-> who] \in Entries
      BY DEF Entries
    <3> QED
      BY <1>5, <2>2, <3>1, <3>2
  <2> QED
    BY <2>1, <2>2
<1>11. cached \in Caches
  BY <1>10 DEF Caches
<1>12. [pid |-> p, who |-> who, at |-> t] \in Answers
  BY DEF Answers
<1>13. pid' \in [owner : [Pids -> Nat], lost : [Pids -> Seq(Nat)], cache : Caches, answer : Answers \cup {Unset}]
  BY <1>9, <1>11, <1>12
<1>14. \A x \in Pids : Len(gone[x]) = owner[x] /\ \A i \in 1 .. Len(gone[x]) : gone[x][i] \in Nat /\ gone[x][i] <= t
  BY <1>1, <1>2, <1>3 DEF PidInv
<1>15. ~Fresh(p) => who = owner[p]
  BY <1>7
<1>16. \A x \in D : /\ cached[x].at <= t /\ cached[x].who <= owner[x]
                    /\ cached[x].who < owner[x] => cached[x].at <= gone[x][cached[x].who + 1]
  <2> SUFFICES ASSUME NEW x \in D
               PROVE  /\ cached[x].at <= t /\ cached[x].who <= owner[x]
                      /\ cached[x].who < owner[x] => cached[x].at <= gone[x][cached[x].who + 1]
    OBVIOUS
  <2>1. CASE x = p /\ ~Fresh(p)
    <3>1. cached[x].at = t /\ cached[x].who = owner[x] /\ owner[x] \in Nat
      BY <1>10, <1>15, <2>1
    <3>2. t <= t /\ owner[x] <= owner[x] /\ ~(owner[x] < owner[x])
      BY <3>1
    <3> QED
      BY <3>1, <3>2
  <2>2. CASE ~(x = p /\ ~Fresh(p))
    BY <1>6, <1>10, <2>2
  <2> QED
    BY <2>1, <2>2
<1>17. t <= t /\ who <= owner[p]
  <2>1. CASE Fresh(p)
    BY <1>1, <1>4, <1>6, <1>7, <2>1 DEF Fresh
  <2>2. CASE ~Fresh(p)
    BY <1>15, <2>2
  <2> QED
    BY <2>1, <2>2
<1>18. who < owner[p] => t - gone[p][who + 1] < Ttl
  <2> SUFFICES ASSUME who < owner[p]
               PROVE  t - gone[p][who + 1] < Ttl
    OBVIOUS
  <2>1. Fresh(p)
    BY <1>15
  <2>2. p \in DOMAIN cache /\ who = cache[p].who
    BY <1>4, <1>7, <2>1 DEF Fresh
  <2>3. PICK when \in Nat : when = cache[p].at
    BY <1>5, <2>2
  <2>4. t - when < Ttl
    BY <1>1, <1>4, <2>1, <2>3 DEF Fresh
  <2>5. when <= gone[p][who + 1]
    BY <1>6, <2>2, <2>3
  <2>6. gone[p][who + 1] \in Nat
    BY <1>14
  <2> QED
    BY <2>3, <2>4, <2>5, <2>6, LimitConstants, SMTT(60)
<1>19. AnswersAreRecent'
  BY <1>9, <1>18 DEF AnswersAreRecent
<1> QED
  BY <1>1, <1>9, <1>10, <1>13, <1>14, <1>16, <1>17, <1>19 DEF PidInv, HadAt

\* Time makes what was before no later.
LEMMA PidsRest ==
    ASSUME PidInv, UNCHANGED pid, clock' \in Nat, clock <= clock'
    PROVE  PidInv'
<1>1. \A x \in Nat : x <= clock => x <= clock'
  BY DEF PidInv
<1>2. AnswersAreRecent' = AnswersAreRecent
  BY DEF AnswersAreRecent
<1>3. \A p, e : HadAt(p, e)' = HadAt(p, e)
  BY DEF HadAt
<1>4. \A p \in Pids : \A i \in 1 .. Len(pid.lost[p]) : pid.lost[p][i] \in Nat
  BY DEF PidInv
<1>5. \A p \in DOMAIN pid.cache : pid.cache[p].at \in Nat
  BY CacheTypes DEF PidInv
<1>6. pid.answer # Unset => pid.answer.at \in Nat
  BY DEF PidInv, Answers
<1>7. \A p \in DOMAIN pid.cache : (HadAt(p, pid.cache[p]))'
  BY DEF PidInv, HadAt
<1> QED
  BY <1>1, <1>2, <1>4, <1>5, <1>6, <1>7 DEF PidInv

-----------------------------------------------------------------------------
(* The item                                                                *)

Stages == {"start", "disabled", "load", "wait", "loop", "ended"}

\* The next pause is twice the last, or the longest.
PausesGrow(pauses, next) ==
    /\ pauses = <<>> => next = Base
    /\ pauses # <<>> => pauses[1] = Base /\ next = Lesser(2 * pauses[Len(pauses)], MaxWait)
    /\ \A i \in 2 .. Len(pauses) : pauses[i] = Lesser(2 * pauses[i - 1], MaxWait)

ItemInv ==
    /\ item \in [stage : Stages, attached : 0 .. Points, next : Nat, waited : Seq(Nat)]
    /\ item.stage \notin {"load", "loop"} => item.attached = 0
    /\ item.stage = "loop" => item.attached = Points
    /\ PausesGrow(item.waited, item.next)

LEMMA PauseAppends ==
    ASSUME NEW pauses \in Seq(Nat), NEW next \in Nat, PausesGrow(pauses, next)
    PROVE  /\ pauses \o <<next>> \in Seq(Nat) /\ Lesser(2 * next, MaxWait) \in Nat
           /\ PausesGrow(pauses \o <<next>>, Lesser(2 * next, MaxWait))
<1> DEFINE n == Len(pauses)
           longer == pauses \o <<next>>
<1>1. n \in Nat /\ (pauses = <<>> <=> n = 0)
  OBVIOUS
<1>2. /\ longer \in Seq(Nat) /\ Len(longer) = n + 1 /\ longer[n + 1] = next
      /\ \A i \in 1 .. n : longer[i] = pauses[i]
  OBVIOUS
<1>3. longer # <<>>
  BY <1>1, <1>2
<1>4. Lesser(2 * next, MaxWait) \in Nat
  BY LimitConstants DEF Lesser
<1> HIDE DEF n, longer
<1>5. longer[1] = Base
  <2>1. CASE n = 0
    BY <1>1, <1>2, <2>1 DEF PausesGrow
  <2>2. CASE n # 0
    BY <1>1, <1>2, <2>2 DEF PausesGrow
  <2> QED
    BY <2>1, <2>2
<1>6. ASSUME NEW i \in 2 .. n + 1
      PROVE  longer[i] = Lesser(2 * longer[i - 1], MaxWait)
  <2>1. i - 1 \in 1 .. n
    BY <1>1
  <2>2. CASE i = n + 1
    <3>1. i - 1 = n /\ pauses # <<>> /\ n \in 1 .. n
      BY <1>1, <2>1, <2>2
    <3>2. next = Lesser(2 * pauses[n], MaxWait)
      BY <3>1 DEF PausesGrow, n
    <3> QED
      BY <1>2, <2>2, <3>1, <3>2
  <2>3. CASE i # n + 1
    <3>1. i \in 2 .. n /\ i \in 1 .. n
      BY <1>1, <2>3
    <3>2. pauses[i] = Lesser(2 * pauses[i - 1], MaxWait)
      BY <3>1 DEF PausesGrow, n
    <3> QED
      BY <1>2, <2>1, <3>1, <3>2
  <2> QED
    BY <2>2, <2>3
<1>7. PausesGrow(longer, Lesser(2 * next, MaxWait))
  BY <1>2, <1>3, <1>5, <1>6 DEF PausesGrow
<1> QED
  BY <1>2, <1>4, <1>7 DEF longer

\* The steps of an item keep its links and its pauses right (run_item, Backoff).
LEMMA ItemKeeps ==
    ASSUME ItemInv,
           Attach \/ LoadFails \/ Retry \/ Stop \/ \E ok \in BOOLEAN : Preflight(ok) \/ Loaded(ok)
    PROVE  ItemInv'
<1>1. PICK i \in [stage : Stages, attached : 0 .. Points, next : Nat, waited : Seq(Nat)] : i = item
  BY DEF ItemInv
<1>2. 0 \in 0 .. Points /\ Points \in Nat /\ Base \in Nat
  BY LimitConstants
<1>3. PausesGrow(<<>>, Base) /\ <<>> \in Seq(Nat)
  BY DEF PausesGrow
<1>4. CASE LoadFails
  <2>1. /\ i.waited \o <<i.next>> \in Seq(Nat) /\ Lesser(2 * i.next, MaxWait) \in Nat
        /\ PausesGrow(i.waited \o <<i.next>>, Lesser(2 * i.next, MaxWait))
    BY <1>1, PauseAppends DEF ItemInv
  <2>2. item' = [stage |-> "wait", attached |-> 0, next |-> Lesser(2 * i.next, MaxWait), waited |-> i.waited \o <<i.next>>]
    BY <1>1, <1>4 DEF LoadFails, Unload
  <2> QED
    BY <1>2, <2>1, <2>2 DEF ItemInv, Stages
<1>5. CASE Attach
  <2>1. item' = [stage |-> "load", attached |-> i.attached + 1, next |-> i.next, waited |-> i.waited]
    BY <1>1, <1>5 DEF Attach
  <2>2. i.attached + 1 \in 0 .. Points
    BY <1>1, <1>2, <1>5 DEF Attach
  <2> QED
    BY <1>1, <2>1, <2>2 DEF ItemInv, Stages
<1>6. CASE Retry \/ Stop \/ \E ok \in BOOLEAN : Preflight(ok)
  <2>1. PICK stage \in Stages \ {"loop"} :
          /\ item' = [stage |-> stage, attached |-> item'.attached, next |-> i.next, waited |-> i.waited]
          /\ item'.attached = 0
    BY <1>1, <1>2, <1>6 DEF ItemInv, Retry, Stop, Preflight, Unload, Stages
  <2> QED
    BY <1>1, <1>2, <2>1 DEF ItemInv
<1>7. ASSUME NEW ok \in BOOLEAN, Loaded(ok)
      PROVE  ItemInv'
  <2>1. item' = [stage |-> IF ok THEN "loop" ELSE "ended", attached |-> IF ok THEN Points ELSE 0,
                 next |-> Base, waited |-> <<>>]
    BY <1>1, <1>7 DEF Loaded, Unload
  <2> QED
    BY <1>2, <1>3, <2>1 DEF ItemInv, Stages
<1> QED
  BY <1>4, <1>5, <1>6, <1>7

-----------------------------------------------------------------------------
(* The limits together                                                     *)

LimitInv == limit \in Parts /\ RateInv /\ MinuteInv /\ CpuInv /\ PidInv /\ ItemInv

LEMMA LimitStarts == LimitInit => LimitInv
<1> SUFFICES ASSUME LimitInit
             PROVE  LimitInv
  OBVIOUS
<1>1. limit \in Parts /\ clock = 1
  BY DEF LimitInit
<1>2. RateInv
  <2>1. bucket = [tokens |-> 0, last |-> 0, given |-> {}, denied |-> {}]
    BY DEF LimitInit
  <2> QED
    BY <1>1, <2>1, LimitConstants DEF RateInv, RateHolds
<1>3. MinuteInv
  <2> SUFFICES ASSUME limit = "minutes"
               PROVE  /\ minute \in Minutes /\ clock \in Nat /\ \A c \in minute.seen : c < clock
                      /\ \A b \in 0 .. Horizon :
                           /\ minute.held[b] \cup PointOf(b) = {c \in minute.seen : BucketOf(c) = b}
                           /\ minute.made[b] = <<>>
    BY DEF MinuteInv
  <2>1. PICK w \in 1 .. Minute :
          minute = [width |-> w, seen |-> {}, held |-> [b \in 0 .. Horizon |-> {}], made |-> [b \in 0 .. Horizon |-> <<>>]]
    BY DEF LimitInit
  <2>2. w \in Nat \ {0}
    BY LimitConstants
  <2>3. minute \in Minutes
    BY <2>1, <2>2 DEF Minutes
  <2> QED
    BY <1>1, <2>1, <2>3 DEF PointOf
<1>4. CpuInv
  <2>1. cpu = [based |-> FALSE, over_since |-> Unset, degraded |-> FALSE, samples |-> <<>>]
    BY DEF LimitInit
  <2>2. Len(<<>>) = 0 /\ 1 .. 0 = {} /\ <<>> \in Seq({"over", "under", "none"})
    OBVIOUS
  <2>3. Reads(<<>>) = {}
    BY <2>2 DEF Reads
  <2> QED
    BY <1>1, <2>1, <2>2, <2>3 DEF CpuInv
<1>5. PidInv
  <2>1. pid = [owner |-> [p \in Pids |-> 0], lost |-> [p \in Pids |-> <<>>], cache |-> [p \in {} |-> Unset], answer |-> Unset]
    BY DEF LimitInit
  <2>2. [p \in {} |-> Unset] \in Caches /\ DOMAIN [p \in {} |-> Unset] = {}
    BY DEF Caches
  <2> QED
    BY <1>1, <2>1, <2>2 DEF PidInv
<1>6. ItemInv
  <2>1. item = [stage |-> "start", attached |-> 0, next |-> Base, waited |-> <<>>]
    BY DEF LimitInit
  <2>2. Base \in Nat /\ 0 \in 0 .. Points /\ <<>> \in Seq(Nat)
    BY LimitConstants
  <2> QED
    BY <2>1, <2>2 DEF ItemInv, Stages, PausesGrow
<1> QED
  BY <1>1, <1>2, <1>3, <1>4, <1>5, <1>6 DEF LimitInv

\* The parts share no state but the clock, which moves on.
LEMMA RateRests ==
    ASSUME RateInv, UNCHANGED bucket, clock' \in {clock, clock + 1}
    PROVE  RateInv'
<1>1. RateHolds' = RateHolds /\ \A s, t : Within(bucket.given, s, t)' = Within(bucket.given, s, t)
  BY DEF RateHolds, Within
<1>2. PICK t \in Nat \ {0} : t = clock /\ clock' \in {t, t + 1}
  BY DEF RateInv
<1>3. clock' \in Nat \ {0} /\ bucket'.last \in 0 .. clock'
  BY <1>2 DEF RateInv
<1> QED
  BY <1>1, <1>3 DEF RateInv, Within, RateHolds

LEMMA MinutesRest ==
    ASSUME MinuteInv, UNCHANGED limit, limit # "minutes" \/ UNCHANGED <<minute, clock>>
    PROVE  MinuteInv'
BY DEF MinuteInv, PointOf, BucketOf, MinuteOver

LEMMA CpuRests ==
    ASSUME CpuInv, UNCHANGED <<limit, cpu>>, limit # "cpu" \/ UNCHANGED clock
    PROVE  CpuInv'
<1>1. Reads(cpu.samples)' = Reads(cpu.samples)
  BY DEF Reads
<1> QED
  BY <1>1 DEF CpuInv

LEMMA ItemRests ==
    ASSUME ItemInv, UNCHANGED item
    PROVE  ItemInv'
BY DEF ItemInv, PausesGrow

LEMMA LimitKeeps ==
    ASSUME LimitInv, [LimitNext]_limitVars
    PROVE  LimitInv'
<1>1. RateInv /\ MinuteInv /\ CpuInv /\ PidInv /\ ItemInv /\ limit \in Parts
  BY DEF LimitInv
<1>2. clock \in Nat
  BY <1>1 DEF RateInv
<1>3. CASE RateAllow
  <2>1. limit = "rate" /\ UNCHANGED <<limit, clock, cpu, minute, pid, item>>
    BY <1>3 DEF RateAllow
  <2>2. RateInv'
    BY <1>1, <1>3, RateAllowKeeps
  <2>3. clock' \in Nat /\ clock <= clock'
    BY <1>2, <2>1
  <2>4. MinuteInv' /\ CpuInv' /\ PidInv' /\ ItemInv'
    BY <1>1, <2>1, <2>3, MinutesRest, CpuRests, PidsRest, ItemRests
  <2> QED
    BY <1>1, <2>1, <2>2, <2>4 DEF LimitInv
<1>4. CASE TimePasses
  <2>1. limit \in {"rate", "pids"} /\ clock' = clock + 1 /\ UNCHANGED <<limit, bucket, cpu, minute, pid, item>>
    BY <1>4 DEF TimePasses
  <2>2. clock' \in Nat /\ clock <= clock' /\ clock' \in {clock, clock + 1} /\ limit # "minutes" /\ limit # "cpu"
    BY <1>2, <2>1
  <2>3. RateInv' /\ MinuteInv' /\ CpuInv' /\ PidInv' /\ ItemInv'
    BY <1>1, <2>1, <2>2, RateRests, MinutesRest, CpuRests, PidsRest, ItemRests
  <2> QED
    BY <1>1, <2>1, <2>3 DEF LimitInv
<1>5. ASSUME NEW s \in {"over", "under", "none"}, Observe(s)
      PROVE  LimitInv'
  <2>1. limit = "cpu" /\ clock' = clock + 1 /\ UNCHANGED <<limit, bucket, minute, pid, item>>
    BY <1>5 DEF Observe
  <2>2. clock' \in Nat /\ clock <= clock' /\ clock' \in {clock, clock + 1} /\ limit # "minutes"
    BY <1>2, <2>1
  <2>3. CpuInv'
    BY <1>1, <1>5, ObserveKeeps
  <2>4. RateInv' /\ MinuteInv' /\ PidInv' /\ ItemInv'
    BY <1>1, <2>1, <2>2, RateRests, MinutesRest, PidsRest, ItemRests
  <2> QED
    BY <1>1, <2>1, <2>3, <2>4 DEF LimitInv
<1>6. CASE MinuteCycle
  <2>1. limit = "minutes" /\ clock' = clock + 1 /\ UNCHANGED <<limit, bucket, cpu, pid, item>>
    BY <1>6 DEF MinuteCycle
  <2>2. clock' \in Nat /\ clock <= clock' /\ clock' \in {clock, clock + 1} /\ limit # "cpu"
    BY <1>2, <2>1
  <2>3. MinuteInv'
    BY <1>1, <1>6, MinuteCycleKeeps
  <2>4. RateInv' /\ CpuInv' /\ PidInv' /\ ItemInv'
    BY <1>1, <2>1, <2>2, RateRests, CpuRests, PidsRest, ItemRests
  <2> QED
    BY <1>1, <2>1, <2>3, <2>4 DEF LimitInv
<1>7. ASSUME NEW p \in Pids, PidReused(p) \/ Resolve(p)
      PROVE  LimitInv'
  <2>1. limit = "pids" /\ UNCHANGED <<limit, clock, bucket, cpu, minute, item>>
    BY <1>7 DEF PidReused, Resolve
  <2>2. PidInv'
    BY <1>1, <1>7, PidReusedKeeps, ResolveKeeps
  <2>3. clock' \in {clock, clock + 1}
    BY <2>1
  <2>4. RateInv' /\ MinuteInv' /\ CpuInv' /\ ItemInv'
    BY <1>1, <2>1, <2>3, RateRests, MinutesRest, CpuRests, ItemRests
  <2> QED
    BY <1>1, <2>1, <2>2, <2>4 DEF LimitInv
<1>8. CASE Attach \/ LoadFails \/ Retry \/ Stop \/ \E ok \in BOOLEAN : Preflight(ok) \/ Loaded(ok)
  <2>1. limit = "item" /\ clock' \in {clock, clock + 1} /\ UNCHANGED <<limit, bucket, cpu, minute, pid>>
    BY <1>8 DEF Attach, LoadFails, Retry, Stop, Preflight, Loaded
  <2>2. clock' \in Nat /\ clock <= clock' /\ limit # "minutes" /\ limit # "cpu"
    BY <1>2, <2>1
  <2>3. ItemInv'
    BY <1>1, <1>8, ItemKeeps
  <2>4. RateInv' /\ MinuteInv' /\ CpuInv' /\ PidInv'
    BY <1>1, <2>1, <2>2, RateRests, MinutesRest, CpuRests, PidsRest
  <2> QED
    BY <1>1, <2>1, <2>3, <2>4 DEF LimitInv
<1>9. CASE UNCHANGED limitVars
  <2>1. clock' \in Nat /\ clock <= clock' /\ clock' \in {clock, clock + 1} /\ UNCHANGED <<limit, clock, bucket, cpu, minute, pid, item>>
    BY <1>2, <1>9 DEF limitVars
  <2>2. RateInv' /\ MinuteInv' /\ CpuInv' /\ PidInv' /\ ItemInv'
    BY <1>1, <2>1, RateRests, MinutesRest, CpuRests, PidsRest, ItemRests
  <2> QED
    BY <1>1, <2>1, <2>2 DEF LimitInv
<1> QED
  BY <1>3, <1>4, <1>5, <1>6, <1>7, <1>8, <1>9 DEF LimitNext

\* A bucket's point counts what the bucket no longer does.
LEMMA MinutesAreTold == MinuteInv => MinutesAreWhole
<1> SUFFICES ASSUME MinuteInv, limit = "minutes", Minute % minute.width = 0, NEW b \in 0 .. Horizon
             PROVE  /\ minute.held[b] \cup PointOf(b) = {c \in minute.seen : BucketOf(c) = b}
                    /\ minute.held[b] \cap PointOf(b) = {}
                    /\ Len(minute.made[b]) <= 1
  BY DEF MinutesAreWhole
<1>1. /\ minute.held[b] \cup PointOf(b) = {c \in minute.seen : BucketOf(c) = b}
      /\ minute.made[b] # <<>> => minute.held[b] = {} /\ Len(minute.made[b]) = 1
  BY DEF MinuteInv
<1>2. CASE minute.made[b] = <<>>
  <2>1. PointOf(b) = {} /\ Len(minute.made[b]) = 0
    BY <1>2 DEF PointOf
  <2> QED
    BY <1>1, <2>1
<1>3. CASE minute.made[b] # <<>>
  <2>1. minute.held[b] \cap PointOf(b) = {}
    BY <1>1, <1>3
  <2>2. Len(minute.made[b]) = 1
    BY <1>1, <1>3
  <2>3. Len(minute.made[b]) <= 1
    BY <2>2
  <2> QED
    BY <1>1, <2>1, <2>3
<1> QED
  BY <1>2, <1>3

LEMMA InvHoldsLimits == LimitInv => LimitsHold
<1> SUFFICES ASSUME LimitInv
             PROVE  LimitsHold
  OBVIOUS
<1>1. RateInv /\ MinuteInv /\ CpuInv /\ PidInv /\ ItemInv
  BY DEF LimitInv
<1>2. RateHolds
  BY <1>1 DEF RateInv
<1>3. DegradedIsSustained /\ MinutesAreWhole
  BY <1>1, CpuIsTold, MinutesAreTold
<1>4. AnswersAreRecent
  BY <1>1 DEF PidInv, AnswersAreRecent
<1>5. ProbesAreRead
  BY <1>1 DEF ItemInv, PausesGrow, ProbesAreRead
<1> QED
  BY <1>2, <1>3, <1>4, <1>5 DEF LimitsHold

\* Whatever the rate, the window, the minute, the answers that are kept and the
\* pauses are, the eBPF collector and its probes stay within their limits
\* (token_bucket_step, CpuTracker::observe, ProcessMinuteAccumulator,
\* ProcessResolver::resolve, run_item).
THEOREM LimitsStayHeld == LimitSpec => []LimitsHold
<1>1. LimitInit => LimitInv
  BY LimitStarts
<1>2. LimitInv /\ [LimitNext]_limitVars => LimitInv'
  BY LimitKeeps
<1>3. LimitInv => LimitsHold
  BY InvHoldsLimits
<1> QED
  BY <1>1, <1>2, <1>3, PTL DEF LimitSpec

-----------------------------------------------------------------------------
(* The OTLP receiver                                                       *)

Leaving == {p \in Posts : Leaves(p)}

\* Where the batches are.
Gathered == {channel[i] : i \in DOMAIN channel} \cup {hand} \cup kept \cup lost

Doing == [item : Nat, step : {"wait", "judge", "answer", "gone"}, post : Posts \cup {Vacant}]

\* Only what a good request left is held, and the thread answers no good
\* request whose batch is not.
OtlpInv ==
    /\ inbox \in Seq(Posts) /\ channel \in Seq(Leaving)
    /\ hand \in Leaving \cup {Vacant} /\ kept \subseteq Leaving /\ lost \subseteq Leaving
    /\ thread \in Doing /\ last \in Nat /\ DOMAIN answer = Posts
    /\ thread.step \in {"judge", "answer"} => thread.post \in Posts
    /\ thread.step = "answer" /\ Leaves(thread.post) => thread.post \in Gathered
    /\ \A p \in Posts : answer[p] = 200 /\ Recorded(Config, Requests[p].contents) # {} => p \in Gathered

\* A request that leaves a batch was let in (handle_request).
LEMMA LeavingIsAllowed ==
    \A p \in Leaving : Authorized(Config, Requests[p]) /\ FromAllowed(Config, Requests[p])
<1> SUFFICES ASSUME NEW p \in Leaving
             PROVE  Authorized(Config, Requests[p]) /\ FromAllowed(Config, Requests[p])
  OBVIOUS
<1>1. Answer(Config, Requests[p]) = 200
  BY DEF Leaving, Leaves
<1>2. Requests[p].traces
  <2>1. ASSUME ~Requests[p].traces
        PROVE  FALSE
    <3>1. Answer(Config, Requests[p]) = 404
      BY <2>1, Zenon DEF Answer
    <3> QED
      BY <1>1, <3>1
  <2> QED
    BY <2>1, Zenon
<1>3. Authorized(Config, Requests[p])
  <2>1. ASSUME ~Authorized(Config, Requests[p])
        PROVE  FALSE
    <3>1. Answer(Config, Requests[p]) = 401
      BY <1>2, <2>1, Zenon DEF Answer
    <3> QED
      BY <1>1, <3>1
  <2> QED
    BY <2>1, Zenon
<1>4. FromAllowed(Config, Requests[p])
  <2>1. ASSUME ~FromAllowed(Config, Requests[p])
        PROVE  FALSE
    <3>1. Answer(Config, Requests[p]) = 403
      BY <1>2, <1>3, <2>1, Zenon DEF Answer
    <3> QED
      BY <1>1, <3>1
  <2> QED
    BY <2>1, Zenon
<1> QED
  BY <1>3, <1>4

\* A step that moves batches but drops none, and leaves the answers.
LEMMA GatheredStays ==
    ASSUME OtlpInv, Gathered \subseteq Gathered', UNCHANGED answer
    PROVE  \A p \in Posts : answer'[p] = 200 /\ Recorded(Config, Requests[p].contents) # {} => p \in Gathered'
BY DEF OtlpInv

\* The port takes a request, or the thread ends: no batch moves.
LEMMA PortKeeps ==
    ASSUME OtlpInv, (\E p \in Posts : Arrive(p)) \/ ThreadEnds \/ ThreadTakes \/ StartItem
    PROVE  OtlpInv'
<1>1. UNCHANGED <<channel, hand, kept, answer, lost>>
  BY DEF Arrive, ThreadEnds, ThreadTakes, StartItem
<1>2. Gathered' = Gathered
  BY <1>1 DEF Gathered
<1>3. inbox' \in Seq(Posts)
  <2>1. inbox \in Seq(Posts)
    BY DEF OtlpInv
  <2>2. inbox' \in {inbox, <<>>} \/ (inbox # <<>> /\ inbox' = Tail(inbox)) \/ \E p \in Posts : inbox' = Append(inbox, p)
    BY DEF Arrive, ThreadEnds, ThreadTakes, StartItem
  <2>3. inbox # <<>> => Tail(inbox) \in Seq(Posts)
    BY <2>1
  <2>4. \A p \in Posts : Append(inbox, p) \in Seq(Posts)
    BY <2>1
  <2>5. <<>> \in Seq(Posts)
    OBVIOUS
  <2> QED
    BY <2>1, <2>2, <2>3, <2>4, <2>5
<1>4. last' \in Nat
  BY DEF OtlpInv, Arrive, ThreadEnds, ThreadTakes, StartItem
<1>5. thread' \in Doing
  <2>1. CASE ThreadTakes
    <3>1. Head(inbox) \in Posts
      BY <2>1 DEF OtlpInv, ThreadTakes
    <3> QED
      BY <2>1, <3>1 DEF OtlpInv, ThreadTakes, Doing
  <2>2. CASE ThreadEnds
    BY <2>2 DEF ThreadEnds, Gone, Doing
  <2>3. CASE StartItem
    BY <2>3, <1>4 DEF OtlpInv, StartItem, Doing
  <2>4. CASE \E p \in Posts : Arrive(p)
    BY <2>4 DEF OtlpInv, Arrive
  <2> QED
    BY <2>1, <2>2, <2>3, <2>4
<1>6. thread'.step \in {"judge", "answer"} => thread'.post \in Posts
  <2>1. CASE ThreadTakes
    <3>1. Head(inbox) \in Posts
      BY <2>1 DEF OtlpInv, ThreadTakes
    <3> QED
      BY <2>1, <3>1 DEF OtlpInv, ThreadTakes, Doing
  <2>2. CASE ~ThreadTakes
    BY <2>2 DEF OtlpInv, Arrive, ThreadEnds, Gone, StartItem
  <2> QED
    BY <2>1, <2>2
<1>7. thread'.step = "answer" => thread' = thread
  <2>1. CASE ThreadTakes
    <3>1. thread' = [thread EXCEPT !.step = "judge", !.post = Head(inbox)] /\ thread \in Doing
      BY <2>1 DEF OtlpInv, ThreadTakes
    <3> QED
      BY <3>1 DEF Doing
  <2>2. CASE ~ThreadTakes
    BY <2>2 DEF OtlpInv, Doing, Arrive, ThreadEnds, Gone, StartItem
  <2> QED
    BY <2>1, <2>2
<1> QED
  BY <1>1, <1>2, <1>3, <1>4, <1>5, <1>6, <1>7 DEF OtlpInv

\* A batch enters the channel before its request is answered (serve).
LEMMA JudgesKeeps ==
    ASSUME OtlpInv, ThreadJudges
    PROVE  OtlpInv'
<1>1. UNCHANGED <<last, hand, kept, answer, lost>> /\ thread.post \in Posts
  BY DEF OtlpInv, ThreadJudges
<1>2. CASE ~Leaves(thread.post)
  <2>1. UNCHANGED <<channel, inbox>> /\ thread' = [thread EXCEPT !.step = "answer"]
    BY <1>2 DEF ThreadJudges
  <2>2. thread' \in Doing /\ thread'.post = thread.post
    BY <2>1 DEF OtlpInv, Doing
  <2>3. Gathered' = Gathered
    BY <1>1, <2>1 DEF Gathered
  <2> QED
    BY <1>1, <1>2, <2>1, <2>2, <2>3 DEF OtlpInv
<1>3. CASE Leaves(thread.post) /\ running = thread.item
  <2>1. UNCHANGED inbox /\ channel' = Append(channel, thread.post) /\ thread' = [thread EXCEPT !.step = "answer"]
    BY <1>3 DEF ThreadJudges
  <2>2. thread' \in Doing /\ thread'.post = thread.post
    BY <2>1 DEF OtlpInv, Doing
  <2>3. channel' \in Seq(Leaving)
    BY <1>1, <1>3, <2>1 DEF OtlpInv, Leaving
  <2>4. Gathered' = Gathered \cup {thread.post}
    <3>1. {channel'[i] : i \in DOMAIN channel'} = {channel[i] : i \in DOMAIN channel} \cup {thread.post}
      <4>1. channel \in Seq(Leaving)
        BY DEF OtlpInv
      <4>2. /\ DOMAIN channel = 1 .. Len(channel) /\ DOMAIN channel' = 1 .. Len(channel) + 1
            /\ \A i \in 1 .. Len(channel) : channel'[i] = channel[i]
            /\ channel'[Len(channel) + 1] = thread.post /\ Len(channel) \in Nat
        BY <2>1, <4>1
      <4>3. \A i \in 1 .. Len(channel) + 1 : i \in 1 .. Len(channel) \/ i = Len(channel) + 1
        BY <4>2
      <4>4. 1 .. Len(channel) \subseteq 1 .. Len(channel) + 1 /\ Len(channel) + 1 \in 1 .. Len(channel) + 1
        BY <4>2
      <4> QED
        BY <4>2, <4>3, <4>4
    <3> QED
      BY <1>1, <3>1 DEF Gathered
  <2>5. \A p \in Posts : answer'[p] = 200 /\ Recorded(Config, Requests[p].contents) # {} => p \in Gathered'
    BY <1>1, <2>4, GatheredStays
  <2>6. /\ inbox' \in Seq(Posts) /\ hand' \in Leaving \cup {Vacant}
        /\ kept' \subseteq Leaving /\ lost' \subseteq Leaving
        /\ last' \in Nat /\ DOMAIN answer' = Posts
    BY <1>1, <2>1 DEF OtlpInv
  <2>7. thread'.post \in Posts /\ thread'.post \in Gathered'
    BY <1>1, <2>2, <2>4
  <2> QED
    BY <2>2, <2>3, <2>5, <2>6, <2>7 DEF OtlpInv
<1>4. CASE Leaves(thread.post) /\ running # thread.item
  <2>1. thread' = Gone /\ inbox' = <<>> /\ UNCHANGED channel
    BY <1>4 DEF ThreadJudges, AfterFailedSend
  <2>2. thread' \in Doing /\ thread'.step = "gone"
    BY <2>1 DEF Gone, Doing
  <2>3. Gathered' = Gathered
    BY <1>1, <2>1 DEF Gathered
  <2>4. inbox' \in Seq(Posts) /\ UNCHANGED <<channel, hand, kept, lost, last, answer>>
    BY <1>1, <2>1
  <2>5. \A p \in Posts : answer'[p] = 200 /\ Recorded(Config, Requests[p].contents) # {} => p \in Gathered'
    BY <1>1, <2>3, GatheredStays
  <2>6. thread'.step \notin {"judge", "answer"}
    BY <2>2
  <2> QED
    BY <2>2, <2>4, <2>5, <2>6 DEF OtlpInv
<1> QED
  BY <1>2, <1>3, <1>4

\* Whoever is answered with 200 has a batch that is held, or left none.
LEMMA AnswersKeep ==
    ASSUME OtlpInv, ThreadAnswers
    PROVE  OtlpInv'
<1>1. /\ UNCHANGED <<inbox, last, channel, hand, kept, lost>> /\ thread.post \in Posts
      /\ thread.step = "answer"
  BY DEF OtlpInv, ThreadAnswers
<1>2. Gathered' = Gathered
  BY <1>1 DEF Gathered
<1>3. thread' \in Doing /\ thread'.step = "wait"
  BY DEF OtlpInv, ThreadAnswers, Doing
<1>4. DOMAIN answer' = Posts
  BY DEF OtlpInv, ThreadAnswers
<1>5. ASSUME NEW p \in Posts, answer'[p] = 200, Recorded(Config, Requests[p].contents) # {}
      PROVE  p \in Gathered
  <2>1. CASE p = thread.post
    <3>1. Answer(Config, Requests[p]) = 200
      BY <1>5, <2>1 DEF OtlpInv, ThreadAnswers
    <3>2. Leaves(thread.post)
      BY <1>5, <2>1, <3>1 DEF Leaves
    <3> QED
      BY <1>1, <2>1, <3>2 DEF OtlpInv
  <2>2. CASE p # thread.post
    BY <1>5, <2>2 DEF OtlpInv, ThreadAnswers
  <2> QED
    BY <2>1, <2>2
<1> QED
  BY <1>1, <1>2, <1>3, <1>4, <1>5 DEF OtlpInv

\* The task takes a batch and pushes it, or is stopped and loses what it and
\* the channel have.
LEMMA TaskKeeps ==
    ASSUME OtlpInv, TaskTakes \/ TaskPushes \/ StopItem
    PROVE  OtlpInv'
<1>1. UNCHANGED <<inbox, thread, last, answer>>
  BY DEF TaskTakes, TaskPushes, StopItem
<1>2. CASE TaskTakes
  <2>1. /\ hand = Vacant /\ hand' = Head(channel) /\ channel' = Tail(channel) /\ channel # <<>>
        /\ UNCHANGED <<kept, lost>>
    BY <1>2 DEF TaskTakes
  <2>2. hand' \in Leaving /\ channel' \in Seq(Leaving)
    BY <2>1 DEF OtlpInv
  <2>3. {channel[i] : i \in DOMAIN channel} \subseteq {channel'[i] : i \in DOMAIN channel'} \cup {hand'}
    <3>1. SUFFICES ASSUME NEW i \in DOMAIN channel, i # 1
                   PROVE  channel[i] \in {channel'[j] : j \in DOMAIN channel'}
      BY <2>1, SMTT(60) DEF OtlpInv
    <3>2. channel \in Seq(Leaving)
      BY DEF OtlpInv
    <3>3. i \in 2 .. Len(channel) /\ Len(channel') = Len(channel) - 1
      BY <2>1, <3>1, <3>2
    <3>4. i - 1 \in DOMAIN channel' /\ channel'[i - 1] = channel[i]
      BY <2>1, <3>2, <3>3
    <3> QED
      BY <3>4
  <2>4. \A p \in Gathered : p \in Posts => p \in Gathered'
    BY <2>1, <2>3, OtlpAssumption DEF Gathered
  <2> QED
    BY <1>1, <2>1, <2>2, <2>4 DEF OtlpInv
<1>3. CASE TaskPushes
  <2>1. hand # Vacant /\ kept' = kept \cup {hand} /\ hand' = Vacant /\ UNCHANGED <<channel, lost>>
    BY <1>3 DEF TaskPushes
  <2>2. Gathered \subseteq Gathered'
    BY <2>1 DEF Gathered
  <2> QED
    BY <1>1, <2>1, <2>2 DEF OtlpInv
<1>4. CASE StopItem
  <2>1. /\ lost' = lost \cup {channel[i] : i \in DOMAIN channel} \cup ({hand} \ {Vacant})
        /\ channel' = <<>> /\ hand' = Vacant /\ UNCHANGED kept
    BY <1>4 DEF StopItem
  <2>2. Gathered \subseteq Gathered'
    BY <2>1 DEF Gathered
  <2>3. lost' \subseteq Leaving
    <3>1. \A i \in DOMAIN channel : channel[i] \in Leaving
      BY DEF OtlpInv
    <3> QED
      BY <2>1, <3>1 DEF OtlpInv
  <2>4. channel' \in Seq(Leaving)
    BY <2>1
  <2> QED
    BY <1>1, <2>1, <2>2, <2>3, <2>4 DEF OtlpInv
<1> QED
  BY <1>2, <1>3, <1>4

\* Every step of the receiver keeps OtlpInv.
LEMMA OtlpKeeps ==
    ASSUME OtlpInv, [OtlpNext]_otlpVars
    PROVE  OtlpInv'
<1>1. CASE UNCHANGED otlpVars
  <2>1. UNCHANGED <<inbox, thread, last, channel, hand, kept, answer, lost>>
    BY <1>1 DEF otlpVars
  <2>2. Gathered' = Gathered
    BY <2>1 DEF Gathered
  <2> QED
    BY <2>1, <2>2 DEF OtlpInv
<1> QED
  BY <1>1, PortKeeps, JudgesKeeps, AnswersKeep, TaskKeeps DEF OtlpNext

\* For any requests, and however the item is stopped and started again: a
\* request that was answered with 200 is in the channel, with the task, in the
\* buffer, or went with a task that was stopped; one that was refused left
\* nothing.
THEOREM AnsweredStaysKept == OtlpSpec => []AnsweredIsKept
<1>1. OtlpInit => OtlpInv
  <2>1. Vacant # 200
    BY OtlpAssumption
  <2> QED
    BY <2>1 DEF OtlpInit, OtlpInv, Doing
<1>2. OtlpInv /\ [OtlpNext]_otlpVars => OtlpInv'
  BY OtlpKeeps
<1>3. OtlpInv => AnsweredIsKept
  <2> SUFFICES ASSUME OtlpInv, NEW p \in Posts
               PROVE  /\ answer[p] = 200 /\ Recorded(Config, Requests[p].contents) # {} => p \in Gathered
                      /\ p \in Gathered => Authorized(Config, Requests[p]) /\ FromAllowed(Config, Requests[p])
    BY DEF AnsweredIsKept, Gathered
  <2>1. p # Vacant
    BY OtlpAssumption
  <2>2. p \in Gathered => p \in Leaving
    <3>1. \A i \in DOMAIN channel : channel[i] \in Leaving
      BY DEF OtlpInv
    <3> QED
      BY <2>1, <3>1 DEF OtlpInv, Gathered
  <2> QED
    BY <2>2, LeavingIsAllowed DEF OtlpInv
<1> QED
  BY <1>1, <1>2, <1>3, PTL DEF OtlpSpec
==============================================================================
