----------------------------- MODULE DataRetention -----------------------------
(***************************************************************************)
(* The cleanup loop of the dataserver: it compares the items GSE lists     *)
(* with those of the last round, plans the deletion of the data of items   *)
(* that left, and deletes what is older than each item's days.             *)
(*                                                                         *)
(* Source: bins/dataserver/src/cleanup.rs, the loop of main.rs, and the    *)
(* deletions of dataplane-log, dataplane-ts and dataplane-apm              *)
(* (ebpf_retention.rs).  A day is one unit of time.                        *)
(***************************************************************************)
EXTENDS Naturals, FiniteSets

CONSTANTS
    Items,        \* collection items
    MaxDays,      \* the longest retention_days
    GlobalDays,   \* ts_retention_days, of the whole time series store
    BatchSize,    \* rows one DELETE on ebpf_edges takes
    Horizon,      \* bound: the last day
    MaxData,      \* bound: how many records each item measures
    MaxChanges,   \* bound: how often the specs change
    MaxFailures   \* bound: unreachable servers, engine errors and crashes

Times   == 1 .. Horizon
Days    == 0 .. MaxDays          \* 0: not in the list
Records == SUBSET Times          \* a record is told by its time
Stores  == {"logs", "metrics", "edges"}
Phases  == {"idle", "fetch", "left", "live", "series", "dueSeries", "logs", "dueLogs"}

ASSUME RetentionAssumption ==
    /\ {MaxDays, GlobalDays, BatchSize, Horizon} \subseteq Nat \ {0}
    /\ {MaxData, MaxChanges, MaxFailures} \subseteq Nat
    /\ IsFiniteSet(Items)

VARIABLES
    now,
    holds,       \* the store each item's data goes to, never changed
    wanted,      \* the items of all specs on gse-server, with their days
    sent,        \* records the agents have not delivered yet
    data,        \* the records in the stores
    live,        \* spec-live/<item>
    retain,      \* retain/<item>, 0 if there is none
    sqlChanges,  \* changes() of the one sqlite connection
    run,         \* the round under way
    keepUntil,   \* ghost: until when the last list that held the item protects its data
    absent,      \* ghost: items a list did not hold, and no later round noted as live
    fresh,       \* ghost: records stored since the round began
    measured, specChanges, failures   \* what the bounds count

specs        == <<wanted, holds, specChanges>>
ghosts       == <<keepUntil, absent, fresh>>
retentionVars == <<now, specs, sent, data, live, retain, sqlChanges, run, ghosts, measured, failures>>

RetentionTypeOK ==
    /\ now \in Times
    /\ wanted \in [Items -> Days] /\ live \in [Items -> Days] /\ holds \in [Items -> Stores]
    /\ sent \in [Items -> Records] /\ data \in [Items -> Records] /\ fresh \in [Items -> Records]
    /\ retain \in [Items -> Nat] /\ keepUntil \in [Items -> Nat] /\ measured \in [Items -> Nat]
    /\ sqlChanges \in Nat /\ specChanges \in Nat /\ failures \in Nat
    /\ run \in [phase : Phases, at : 0 .. Horizon, list : [Items -> Days],
                todo : SUBSET Items, asked : SUBSET Items]
    /\ absent \subseteq Items

Zero == [i \in Items |-> 0]
Idle == [phase |-> "idle", at |-> 0, list |-> Zero, todo |-> {}, asked |-> {}]

RetentionInit ==
    /\ now = 1 /\ wanted \in [Items -> Days \ {0}] /\ holds \in [Items -> Stores] /\ specChanges = 0
    /\ sent = [i \in Items |-> {}] /\ data = sent /\ measured = Zero
    /\ live = Zero /\ retain = Zero /\ sqlChanges = 0
    /\ run = Idle
    /\ keepUntil = Zero /\ absent = {} /\ fresh = sent /\ failures = 0

Failure == failures < MaxFailures /\ failures' = failures + 1

-----------------------------------------------------------------------------
(* Around the loop                                                         *)

\* Days pass between rounds, and at most while a round waits for gse-server.
DayPasses ==
    /\ run.phase \in {"idle", "fetch"}
    /\ now < Horizon /\ now' = now + 1
    /\ UNCHANGED <<specs, sent, data, live, retain, sqlChanges, run, ghosts, measured, failures>>

\* An item is added, removed, disabled, enabled, or its days change.
SpecChanges(i) ==
    /\ specChanges < MaxChanges /\ specChanges' = specChanges + 1
    /\ \E d \in Days \ {wanted[i]} : wanted' = [wanted EXCEPT ![i] = d]
    /\ UNCHANGED <<now, holds, sent, data, live, retain, sqlChanges, run, ghosts, measured, failures>>

Measure(i) ==
    /\ wanted[i] > 0 /\ now \notin sent[i] \cup data[i]
    /\ measured[i] < MaxData /\ measured' = [measured EXCEPT ![i] = @ + 1]
    /\ sent' = [sent EXCEPT ![i] = @ \cup {now}]
    /\ UNCHANGED <<now, specs, data, live, retain, sqlChanges, run, ghosts, failures>>

\* The agent delivers when it can.  An edge is one INSERT.
Arrive(i, t) ==
    /\ t \in sent[i]
    /\ sent' = [sent EXCEPT ![i] = @ \ {t}]
    /\ data' = [data EXCEPT ![i] = @ \cup {t}]
    /\ fresh' = IF run.phase = "idle" THEN fresh ELSE [fresh EXCEPT ![i] = @ \cup {t}]
    /\ sqlChanges' = IF holds[i] = "edges" THEN 1 ELSE sqlChanges
    /\ UNCHANGED <<now, specs, live, retain, run, keepUntil, absent, measured, failures>>

\* The retention window of the time series store.
Expire(i) ==
    /\ holds[i] = "metrics" /\ \E t \in data[i] : t + GlobalDays < now
    /\ data' = [data EXCEPT ![i] = {t \in @ : t + GlobalDays >= now}]
    /\ UNCHANGED <<now, specs, sent, live, retain, sqlChanges, run, ghosts, measured, failures>>

-----------------------------------------------------------------------------
(* run_cleanup                                                             *)

\* The series go before the logs: the logs forget the retain/ keys.
AfterPhase(p) ==
    CASE p = "left" -> "live" [] p = "live" -> "series" [] p = "series" -> "dueSeries"
      [] p = "dueSeries" -> "logs" [] p = "logs" -> "dueLogs" [] OTHER -> "idle"

IsDue(i, at) == 0 < retain[i] /\ retain[i] <= at

\* The items each loop visits.
Visits(p, at, list) ==
    {i \in Items : \/ p = "left" /\ live[i] > 0 /\ list[i] = 0
                   \/ p \in {"live", "logs"} /\ list[i] > 0
                   \/ p = "series" /\ list[i] \in 1 .. GlobalDays - 1 /\ at > list[i]
                   \/ p \in {"dueSeries", "dueLogs"} /\ IsDue(i, at)}

Enter(p, at, list) ==
    IF p = "idle" THEN Idle
    ELSE [phase |-> p, at |-> at, list |-> list, todo |-> Visits(p, at, list), asked |-> {}]

Begin ==
    /\ run.phase = "idle"
    /\ run' = [Idle EXCEPT !.phase = "fetch", !.at = now]
    /\ fresh' = [i \in Items |-> {}]
    /\ UNCHANGED <<now, specs, sent, data, live, retain, sqlChanges, keepUntil, absent, measured, failures>>

Fetch ==
    /\ run.phase = "fetch"
    /\ run' = Enter("left", run.at, wanted)
    /\ absent' = absent \cup {i \in Items : wanted[i] = 0}
    /\ UNCHANGED <<now, specs, sent, data, live, retain, sqlChanges, keepUntil, fresh, measured, failures>>

\* No list is not an empty list: nothing is marked.
WithoutList == Enter(AfterPhase("live"), run.at, Zero)

FetchFails ==
    /\ run.phase = "fetch" /\ Failure
    /\ run' = WithoutList
    /\ UNCHANGED <<now, specs, sent, data, live, retain, sqlChanges, ghosts, measured>>

Done(i) == run' = [run EXCEPT !.todo = @ \ {i}, !.asked = {}]

\* mark_removed_items, items that left: write the plan, then forget the item.
PlanDeletion(i) ==
    /\ run.phase = "left" /\ i \in run.todo
    /\ \/ /\ retain[i] # run.at + live[i]
          /\ retain' = [retain EXCEPT ![i] = run.at + live[i]]
          /\ UNCHANGED <<live, run>>
       \/ /\ retain[i] = run.at + live[i]
          /\ live' = [live EXCEPT ![i] = 0] /\ Done(i)
          /\ UNCHANGED retain
    /\ UNCHANGED <<now, specs, sent, data, sqlChanges, ghosts, measured, failures>>

Planned_Never(i) == FALSE

Planned(i) == retain[i] > 0

\* mark_removed_items, items in the list: cancel a plan, then note the days.
NoteLive(i) ==
    /\ run.phase = "live" /\ i \in run.todo
    /\ \/ /\ Planned(i)
          /\ retain' = [retain EXCEPT ![i] = 0]
          /\ UNCHANGED <<live, run, keepUntil, absent>>
       \/ /\ ~Planned(i)
          /\ live' = [live EXCEPT ![i] = run.list[i]] /\ Done(i)
          /\ keepUntil' = [keepUntil EXCEPT ![i] = run.at + run.list[i]]
          /\ absent' = absent \ {i}
          /\ UNCHANGED retain
    /\ UNCHANGED <<now, specs, sent, data, sqlChanges, fresh, measured, failures>>

\* An error of mark_removed_items is logged and the round goes on.
MarkFails ==
    /\ run.phase \in {"left", "live"} /\ Failure
    /\ run' = Enter(AfterPhase("live"), run.at, run.list)
    /\ UNCHANGED <<now, specs, sent, data, live, retain, sqlChanges, ghosts, measured>>

Drop(i, old) == data' = [data EXCEPT ![i] = @ \ old]

\* apply_ts_retention: [0, cutoff).
CleanSeries(i) ==
    /\ run.phase \in {"series", "dueSeries"} /\ i \in run.todo
    /\ IF holds[i] # "metrics" THEN UNCHANGED data
       ELSE IF run.phase = "series" THEN Drop(i, {t \in data[i] : t + run.list[i] < run.at})
       ELSE Drop(i, {t \in data[i] : t < retain[i]})
    /\ Done(i)
    /\ UNCHANGED <<now, specs, sent, live, retain, sqlChanges, ghosts, measured, failures>>

\* The last step of apply_retention for an expired item.
Forget(i) == retain' = IF run.phase = "dueLogs" THEN [retain EXCEPT ![i] = 0] ELSE retain

\* apply_retention: to_ts is part of the range, and absent for expired items.
OldLogs(i) == IF run.phase = "logs" THEN {t \in data[i] : t + run.list[i] <= run.at} ELSE data[i]

CleanLogs(i) ==
    /\ run.phase \in {"logs", "dueLogs"} /\ i \in run.todo /\ holds[i] # "edges" /\ run.asked = {}
    /\ IF holds[i] = "logs" THEN Drop(i, OldLogs(i)) ELSE UNCHANGED data
    /\ Forget(i) /\ Done(i)
    /\ UNCHANGED <<now, specs, sent, live, sqlChanges, ghosts, measured, failures>>

OldEdges(i) == {t \in data[i] : IF run.phase = "logs" THEN t + run.list[i] < run.at ELSE t < run.at}

\* delete_edges_before: one batch.
DeleteEdges(i) ==
    /\ run.phase \in {"logs", "dueLogs"} /\ i \in run.todo /\ holds[i] = "edges" /\ run.asked = {}
    /\ \E some \in SUBSET OldEdges(i) :
          /\ some = OldEdges(i) \/ Cardinality(some) = BatchSize
          /\ Cardinality(some) <= BatchSize
          /\ Drop(i, some) /\ sqlChanges' = Cardinality(some)
    /\ run' = [run EXCEPT !.asked = {i}]
    /\ UNCHANGED <<now, specs, sent, live, retain, ghosts, measured, failures>>

\* SELECT changes(), a call of its own: what the connection did last.
ReadChanges(i) ==
    /\ run.asked = {i}
    /\ IF sqlChanges < BatchSize THEN Forget(i) /\ Done(i)
       ELSE run' = [run EXCEPT !.asked = {}] /\ UNCHANGED retain
    /\ UNCHANGED <<now, specs, sent, data, live, sqlChanges, ghosts, measured, failures>>

\* Every flush of the APM tables goes through the same connection.
OtherStatement ==
    /\ run.asked # {} /\ sqlChanges # 1 /\ sqlChanges' = 1
    /\ UNCHANGED <<now, specs, sent, data, live, retain, run, ghosts, measured, failures>>

\* The next loop, or the end of the round (the keys of ingest/ are pruned).
NextLoop ==
    /\ run.phase \notin {"idle", "fetch"} /\ run.todo = {}
    /\ run' = Enter(AfterPhase(run.phase), run.at, run.list)
    /\ UNCHANGED <<now, specs, sent, data, live, retain, sqlChanges, ghosts, measured, failures>>

\* An error of a store after the marks, or a crash anywhere.
RoundFails ==
    /\ run.phase # "idle" /\ Failure
    /\ run' = Idle
    /\ UNCHANGED <<now, specs, sent, data, live, retain, sqlChanges, ghosts, measured>>

\* It is the store that failed, after the data of an expired item was deleted.
ForgetFails(i) ==
    /\ run.phase = "dueLogs" /\ i \in run.todo /\ holds[i] = "logs" /\ run.asked = {} /\ Failure
    /\ Drop(i, OldLogs(i))
    /\ run' = Idle
    /\ UNCHANGED <<now, specs, sent, live, retain, sqlChanges, ghosts, measured>>

-----------------------------------------------------------------------------

ItemStep(i) == \/ PlanDeletion(i) \/ NoteLive(i) \/ CleanSeries(i) \/ CleanLogs(i)
               \/ DeleteEdges(i) \/ ReadChanges(i) \/ ForgetFails(i)

RetentionNext ==
    \/ DayPasses \/ Begin \/ Fetch \/ FetchFails \/ MarkFails \/ OtherStatement \/ NextLoop \/ RoundFails
    \/ \E i \in Items : SpecChanges(i) \/ Measure(i) \/ Expire(i) \/ ItemStep(i)
    \/ \E i \in Items, t \in Times : Arrive(i, t)

RetentionSpec == RetentionInit /\ [][RetentionNext]_retentionVars

-----------------------------------------------------------------------------
(* Properties                                                              *)

\* The item left: a list did not hold it, no later round noted it as live, and
\* its days since it was last noted are over.
Expired(i) == i \in absent /\ keepUntil[i] <= now

\* Data younger than its item's days goes only after the item left for as
\* many days, whatever lists, marks and rounds failed in between.  (If a mark
\* itself fails the plan of an item that came back stands.)
YoungDataIsKept ==
    [][\A i \in Items : \A t \in data[i] \ data'[i] :
          \/ run.list[i] > 0 /\ t + run.list[i] <= run.at
          \/ holds[i] = "metrics" /\ t + GlobalDays < now
          \/ Expired(i)]_retentionVars

Forgotten(i) == retain[i] > 0 /\ retain'[i] = 0 /\ run.phase = "dueLogs"
Leftovers(i) == {t \in data'[i] : t < retain[i]} \ fresh[i]

\* When the plan of an item that left is dropped, none of its data from before
\* the deadline is left, except what arrived while the round ran.
RemovalIsComplete ==
    [][\A i \in Items : holds[i] # "edges" /\ Forgotten(i) => Leftovers(i) = {}]_retentionVars

\* ebpf_retention.rs:7-9: rows are deleted in batches until none is left.
\* (Violated: another statement on the connection between a DELETE and its
\* SELECT changes() ends the batches early.)
EdgeRemovalIsComplete ==
    [][\A i \in Items : holds[i] = "edges" /\ Forgotten(i) => Leftovers(i) = {}]_retentionVars

\* Data goes only when it is old enough or its item is gone, and then all of it.
RetentionIsKept == YoungDataIsKept /\ RemovalIsComplete
=============================================================================
