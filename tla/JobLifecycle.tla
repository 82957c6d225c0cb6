--------------------------- MODULE JobLifecycle ----------------------------
(***************************************************************************)
(* What gse-server promises about script jobs to whoever reads the ledger, *)
(* with connections, sessions and messages left out.                       *)
(*                                                                         *)
(*   - a job runs at most once, and `outcome` is how that run ended;       *)
(*   - a recorded outcome is the run's own, never another's or a guess;    *)
(*   - a rejected job never ran, and a running one was handed to its agent; *)
(*   - the first final status stays.                                       *)
(*                                                                         *)
(* It does not promise that a job leaves "running": see the README.        *)
(***************************************************************************)
EXTENDS JobLedger

CONSTANT Jobs

VARIABLES
    job,       \* what the ledger says
    outcome    \* how the job's run ended on the agent, "none" until it does

lifecycleVars == <<job, outcome>>

Init ==
    /\ job     = [j \in Jobs |-> "none"]
    /\ outcome = [j \in Jobs |-> "none"]

Submit(j) ==
    /\ job[j] = "none"
    /\ job' = [job EXCEPT ![j] = "pending"]
    /\ UNCHANGED outcome

Start(j) ==
    /\ job[j] \in InFlight
    /\ job' = [job EXCEPT ![j] = "running"]
    /\ UNCHANGED outcome

\* The agent may still finish a job the ledger has given up as lost.
Run(j) ==
    /\ job[j] \notin {"none", "rejected"} /\ outcome[j] = "none"
    /\ \E o \in Outcomes : outcome' = [outcome EXCEPT ![j] = o]
    /\ UNCHANGED job

Record(j) ==
    /\ job[j] \in InFlight /\ outcome[j] # "none"
    /\ job' = [job EXCEPT ![j] = outcome[j]]
    /\ UNCHANGED outcome

Reject(j) ==
    /\ job[j] \in InFlight /\ outcome[j] = "none"
    /\ job' = [job EXCEPT ![j] = "rejected"]
    /\ UNCHANGED outcome

GiveUp(S) ==
    /\ job' = MarkLostAmong(job, S)
    /\ UNCHANGED outcome

Next ==
    \/ \E j \in Jobs : Submit(j) \/ Start(j) \/ Run(j) \/ Record(j) \/ Reject(j)
    \/ \E S \in SUBSET Jobs : GiveUp(S)

Spec == Init /\ [][Next]_lifecycleVars
=============================================================================
