----------------------------- MODULE VmctlClient -----------------------------
(***************************************************************************)
(* The command line client of gse-server and the dataserver                *)
(* (src/bins/vmctl).  A job command checks its arguments, uploads a local  *)
(* file when it is told to, posts the job and, with --wait, reads it until *)
(* it has ended; its exit code is what a script that calls it goes by.     *)
(* `agents status` and `agents doctor` judge an agent by what they read.   *)
(*                                                                         *)
(* The server beside the client is only what a request sees of it: the job *)
(* it makes, which runs to its end by itself, and the file it keeps.       *)
(***************************************************************************)
EXTENDS Integers, FiniteSetsExt

CONSTANTS
    Nothing,     \* no value
    Polls        \* waits of WAIT_INTERVAL in WAIT_TIMEOUT

VARIABLES
    cmd,      \* the command: its kind, the flags given, whether it waits
    step,     \* what the client does next
    code,     \* the exit code, once it is known
    waited,   \* intervals since the job was posted
    job,      \* the status of the job on the server, Nothing before it is made
    files     \* the uploads that the server keeps

vmctlVars == <<cmd, step, code, waited, job, files>>

Final   == {"succeeded", "failed", "rejected", "lost", "timeout"}
OnAgent == {"from_agent", "from_path"}
Target  == {"to_agent", "to_path"}

ASSUME VmctlAssumption == Polls \in Nat /\ Nothing \notin Nat \cup Final \cup {"pending", "running"}

-----------------------------------------------------------------------------
(* The arguments of a job command, looked at before any request.           *)

Kinds == {"script", "file_transfer", "agent_upgrade", "rerun", "other"}

Commands == [kind : Kinds, wait : BOOLEAN,
             given : SUBSET ({"agent_id", "script_file", "upload", "sha256", "binary_path"} \cup OnAgent \cup Target)]

Accepted(c) ==
    CASE c.kind = "script" ->
            c.given \cap ({"upload"} \cup OnAgent \cup Target) = {} /\ {"agent_id", "script_file"} \subseteq c.given
      [] c.kind = "file_transfer" ->
            /\ "script_file" \notin c.given
            /\ Target \subseteq c.given
            /\ IF "upload" \in c.given THEN c.given \cap OnAgent = {} ELSE OnAgent \subseteq c.given
      [] c.kind = "agent_upgrade" -> {"agent_id", "binary_path", "sha256"} \subseteq c.given
      [] OTHER -> c.kind = "rerun"

Uploads(c) == c.kind = "file_transfer" /\ "upload" \in c.given

\* The job is not waited for when the agent replaces itself: the command has
\* no use for the flag then.
Waits(c) == c.wait /\ c.kind # "agent_upgrade"

\* The exit code for the status of a job, Nothing while it runs.
WaitExitCode(s) ==
    IF s = "succeeded" THEN 0
    ELSE IF s \in {"failed", "rejected", "lost"} THEN 1
    ELSE IF s = "timeout" THEN 2 ELSE Nothing

-----------------------------------------------------------------------------

VmctlInit ==
    /\ cmd \in Commands
    /\ step = "arguments" /\ code = Nothing /\ waited = 0
    /\ job = Nothing /\ files = 0

End(c) == step' = "done" /\ code' = c

ReadArguments ==
    /\ step = "arguments"
    /\ IF Accepted(cmd)
         THEN step' = (IF Uploads(cmd) THEN "upload" ELSE "post") /\ UNCHANGED code
         ELSE End(1)
    /\ UNCHANGED <<cmd, waited, job, files>>

\* The request reaches the server or not, and its answer the client or not:
\* an answer that is lost, refused or not JSON ends the command.
Upload ==
    /\ step = "upload"
    /\ \E kept, answered \in BOOLEAN :
         /\ files' = IF kept THEN files + 1 ELSE files
         /\ IF kept /\ answered THEN step' = "post" /\ UNCHANGED code ELSE End(1)
    /\ UNCHANGED <<cmd, waited, job>>

Post ==
    /\ step = "post"
    /\ \E made, answered \in BOOLEAN :
         /\ job' = IF made THEN "pending" ELSE job
         /\ IF ~ (made /\ answered) THEN End(1)
            ELSE IF Waits(cmd) THEN step' = "read" /\ UNCHANGED code
            ELSE End(0)
    /\ UNCHANGED <<cmd, waited, files>>

\* A read of the job: an error ends the wait, an answer ends it when the job
\* has ended or the time is up.
AfterRead(s) ==
    IF WaitExitCode(s) # Nothing THEN End(WaitExitCode(s))
    ELSE IF waited >= Polls THEN End(2)
    ELSE step' = "sleep" /\ UNCHANGED code

ReadJob ==
    /\ step = "read"
    /\ AfterRead(job) \/ End(1)
    /\ UNCHANGED <<cmd, waited, job, files>>

Sleep == step = "sleep" /\ step' = "read" /\ waited' = waited + 1 /\ UNCHANGED <<cmd, code, job, files>>

\* The job goes its way on the server, whatever the client does.
JobMoves ==
    /\ job \in {"pending", "running"}
    /\ job' \in (Final \cup {"running"}) \ {job}
    /\ UNCHANGED <<cmd, step, code, waited, files>>

VmctlNext == ReadArguments \/ Upload \/ Post \/ ReadJob \/ Sleep \/ JobMoves

VmctlSpec == VmctlInit /\ [][VmctlNext]_vmctlVars

-----------------------------------------------------------------------------
(* `agents status` and `agents doctor`.  A stream has the time of its last *)
(* record; an item has the types its kind makes, {} for an unknown kind.   *)

DefaultInterval == 15
MinThreshold    == 60

Threshold(i)  == IF 3 * i > MinThreshold THEN 3 * i ELSE MinThreshold
IntervalOf(c) == IF c \in Nat \ {0} THEN c ELSE DefaultInterval

KindDataTypes ==
    [metrics_host |-> {"metrics"}, log_file |-> {"logs"}, log_k8s_stdout |-> {"logs"}, apm_otlp |-> {"traces"},
     ebpf_network |-> {"ebpf_edges"}, ebpf_tcp |-> {"metrics"}, ebpf_process |-> {"metrics"},
     ebpf_syscall |-> {"metrics"}]

TypesOf(item) == IF item.kind \in DOMAIN KindDataTypes THEN KindDataTypes[item.kind] ELSE {}

\* A record from the future is as fresh as can be.
Classify(seen, interval, now) ==
    IF seen = Nothing THEN "not_reporting"
    ELSE IF now <= seen + Threshold(interval) THEN "reporting" ELSE "stale"

\* `streams` gives the last record of an item and a type, Nothing when there is
\* no stream; it is itself Nothing when the dataserver could not be asked.
VerdictOf(item, type, streams, now) ==
    IF ~ item.enabled THEN "disabled"
    ELSE IF streams = Nothing THEN "unknown"
    ELSE Classify(streams[type], IntervalOf(item.interval), now)

Verdicts(items, streams, now) ==
    UNION {IF TypesOf(i) = {} THEN {"unknown_kind"}
           ELSE {VerdictOf(i, t, streams, now) : t \in TypesOf(i)} : i \in items}

\* Mutant of Failing: what could not be asked is not held against the item.
Failing_NotUnknown(verdicts) == verdicts \cap {"stale", "not_reporting"}

Failing(verdicts) == verdicts \cap {"stale", "not_reporting", "unknown"}

\* What they read: the spec of the agent (Nothing: no answer; items Nothing: never
\* saved), its session, its streams and the health of the dataserver.
StatusCode(r) ==
    IF r.spec = Nothing THEN 1
    ELSE IF r.spec.items = Nothing THEN 1
    ELSE IF r.spec.sync = "synced" /\ Failing(Verdicts(r.spec.items, r.streams, r.now)) = {} THEN 0 ELSE 1

CollectOk(r) ==
    /\ r.spec # Nothing
    /\ r.spec.items # Nothing
    /\ r.streams # Nothing
    /\ Failing(Verdicts(r.spec.items, r.streams, r.now)) = {}

\* The agent and its session are read first: without the agent the rest is
\* not asked for.  The eBPF capability is shown and not judged.
DoctorCode(r) ==
    IF ~ r.agent THEN 1
    ELSE IF /\ r.session = "online"
            /\ r.health
            /\ r.spec # Nothing
            /\ r.spec.sync = "synced"
            /\ CollectOk(r)
         THEN 0 ELSE 1

-----------------------------------------------------------------------------

SomeItems == UNION {kSubset(n, [kind : {"ebpf_network", "metrics_host", "new"}, enabled : BOOLEAN, interval : {Nothing, 30}]) : n \in 0..2}

SomeReads ==
    [agent : BOOLEAN, session : {"online", "offline"}, health : BOOLEAN, now : {150},
     spec : {Nothing} \cup [items : SomeItems \cup {Nothing}, sync : {"synced", "pending"}],
     streams : {Nothing} \cup [{"metrics", "ebpf_edges"} -> {Nothing, 200, 90, 75, 50}]]

\* The two commands agree on what they both read: an agent that doctor passes
\* status passes, and doctor fails an agent that status passes only for what
\* status does not read.
DoctorAgrees ==
    \A r \in SomeReads :
        /\ DoctorCode(r) = 0 => StatusCode(r) = 0
        /\ StatusCode(r) = 0 /\ r.agent /\ r.session = "online" /\ r.health /\ r.streams # Nothing => DoctorCode(r) = 0

\* No answer is no good news, and missed beats are forgiven: an item that is
\* on passes only with a stream of each type that is at most three intervals,
\* or a minute, old.
PassedIsSeen ==
    \A r \in SomeReads : StatusCode(r) = 0 =>
        \A i \in r.spec.items : i.enabled => \A t \in TypesOf(i) :
            r.streams # Nothing /\ r.streams[t] # Nothing
            /\ r.now - r.streams[t] <= IF i.interval = Nothing THEN 60 ELSE 3 * i.interval

VmctlJudges == DoctorAgrees /\ PassedIsSeen

\* What a script goes by: a job command that waits and ends with 0 has seen
\* its job succeed; one that ends with 2 is not one whose job failed before
\* its last read; and arguments that are refused leave nothing behind.
WaitTellsOutcome ==
    /\ code = 0 => job # Nothing
    /\ code = 0 /\ Waits(cmd) => job = "succeeded"
    /\ code = 2 => Waits(cmd) /\ (waited = Polls \/ job = "timeout")
    /\ ~ Accepted(cmd) => job = Nothing /\ files = 0
    /\ files = 1 => Uploads(cmd)

\* What vmctl tells: the code of a wait is the outcome of the job, and the
\* verdicts of status and doctor are those of the reads.  The reads are no
\* part of the state: they are looked at where one command is done.
AnyCommand == CHOOSE c \in Commands : TRUE
VmctlTells == WaitTellsOutcome /\ (step = "done" /\ cmd = AnyCommand => VmctlJudges)
=============================================================================
