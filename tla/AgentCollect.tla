---------------------------- MODULE AgentCollect ----------------------------
(***************************************************************************)
(* Collection on gse-agent: every connection brings a supervisor that runs *)
(* the collectors of the applied spec and a loop that reports what they    *)
(* put into the one buffer of the process to the dataserver.               *)
(*                                                                         *)
(* Source: crates/gse-agent-core/src/collect/mod.rs, buffer.rs, otlp.rs,   *)
(* metrics.rs, ebpf.rs.  A batch is its id and the number of its records;  *)
(* what is in the records: LogFollow, EbpfCollector, OtlpReceiver.         *)
(***************************************************************************)
EXTENDS Integers, Sequences, FiniteSets, FiniteSetsExt, SequencesExt

CONSTANTS
    Items,        \* collect items; `Otlp` is one of kind apm_otlp
    Otlp,
    Capacity,     \* DEFAULT_MAX_RECORDS
    BatchMax,     \* batch_max_records: the records of the largest batch
    FailLimit,    \* failed reports after which the address is pulled again: 3
    Changes,      \* what pushes may change, see ChangeSpec
    MaxConns, MaxSpecs, MaxBatches, MaxFaults,  \* bounds
    Faults

FaultKinds == {"move", "busy", "unregistered", "lostanswer"}

ASSUME CollectAssumption ==
    /\ IsFiniteSet(Items) /\ Otlp \in Items
    /\ Capacity \in Nat \ {0} /\ BatchMax \in Nat \ {0} /\ FailLimit \in Nat
    /\ MaxConns \in Nat \ {0} /\ MaxSpecs \in Nat \ {0} /\ MaxBatches \in Nat /\ MaxFaults \in Nat /\ Faults \subseteq FaultKinds
    /\ Changes \subseteq [item : Items, how : {"edit", "drop", "rebind"}]

VARIABLES
    \* the process
    buffer,    \* Buffer.queue
    url,       \* CollectShared.ingest_url; 0 is None
    wanted,    \* the desired spec: the version of each item, 0 if absent or disabled
    specs,     \* how often it changed
    sups,      \* the supervisors, one per connection; the last one has the control channel
    tasks,     \* the collectors they spawned
    port,      \* the task whose listener has the OTLP port, 0 if none
    loops,     \* the report loops, one per supervisor
    \* the dataserver
    ds,        \* the address it listens at
    arrived,   \* the batch it stored last, 0 if none
    \* ghosts
    fate,      \* what became of every batch
    faults     \* how many things went wrong

procVars == <<buffer, url, wanted, specs, sups, tasks, port, loops>>
vars == <<procVars, ds, arrived, fate, faults>>

None   == 0
Addrs  == {1, 2}
Conns  == DOMAIN sups
Latest == Len(sups)
Batch  == [id : 1 .. MaxBatches, n : 1 .. BatchMax]
Fates  == {"unborn", "open", "over"}   \* over: confirmed, refused or evicted
\* not yet bound, collecting, cancelled or returned.
TaskStates == {"spawned", "running", "ended"}

Records(s) == Cardinality({r \in (DOMAIN s) \X (1 .. BatchMax) : r[2] <= s[r[1]].n})
Held       == {l \in DOMAIN loops : loops[l].pc # "idle"}
NoBatch    == [id |-> 0, n |-> 0]
IdleLoop   == [pc |-> "idle", batch |-> NoBatch, base |-> None, failures |-> 0]
NoRunners  == [i \in Items |-> [version |-> 0, task |-> 0]]
Supervisor == [inbox |-> <<>>, started |-> FALSE, open |-> TRUE, runners |-> NoRunners]

CollectTypeOK ==
    /\ buffer \in Seq(Batch)
    /\ url \in Addrs \cup {None}
    /\ wanted \in [Items -> 0 .. MaxSpecs]
    /\ specs \in 1 .. MaxSpecs
    /\ \A c \in Conns : /\ sups[c].started \in BOOLEAN /\ sups[c].open \in BOOLEAN
                        /\ \A i \in Items : sups[c].runners[i].task \in 0 .. Len(tasks)
    /\ \A t \in DOMAIN tasks : tasks[t].item \in Items /\ tasks[t].st \in TaskStates
    /\ port \in 0 .. Len(tasks)
    /\ \A l \in DOMAIN loops : /\ loops[l].pc \in {"idle", "held", "posting"}
                               /\ loops[l].pc # "idle" <=> loops[l].batch \in Batch
                               /\ loops[l].failures \in 0 .. FailLimit + 1
    /\ ds \in Addrs
    /\ arrived \in 0 .. MaxBatches
    /\ fate \in [1 .. MaxBatches -> Fates]
    /\ faults \in 0 .. MaxFaults

\* Agent start.  The spec is applied, and collectors run, once a connection
\* has brought a supervisor.
Init ==
    /\ buffer = <<>> /\ url = None
    /\ wanted = [i \in Items |-> 1] /\ specs = 1
    /\ sups = <<>> /\ tasks = <<>> /\ port = 0 /\ loops = <<>>
    /\ ds = 1 /\ arrived = 0
    /\ fate = [b \in 1 .. MaxBatches |-> "unborn"] /\ faults = 0

Fault(f) == f \in Faults /\ faults < MaxFaults /\ faults' = faults + 1

-----------------------------------------------------------------------------
(* Connections and the control channel                                     *)

\* apply_spec and pull_addr_now: whoever holds the latest channel gets it.
Send(msgs) == sups' = [sups EXCEPT ![Latest].inbox = @ \o msgs]

SpecMsg(items, rebind) == [what |-> "spec", items |-> items, rebind |-> rebind]
PullMsg == [what |-> "pull", items |-> wanted, rebind |-> FALSE]

\* new_with_shared: the new sender replaces the old one, whose supervisor
\* finds its channel closed once it has read what is in it.  connect_once
\* then authenticates, applies the spec again and asks for the address.
Connect ==
    /\ Latest < MaxConns
    /\ sups' = Append(sups, [Supervisor EXCEPT !.inbox = <<SpecMsg(wanted, FALSE), PullMsg>>])
    /\ loops' = Append(loops, IdleLoop)
    /\ UNCHANGED <<buffer, url, wanted, specs, tasks, port, ds, arrived, fate, faults>>

Change(i, how) == [item |-> i, how |-> how] \in Changes

Wanted(i, version) ==
    /\ wanted' = [wanted EXCEPT ![i] = version]
    /\ Send(<<SpecMsg(wanted', FALSE)>>)

\* A push changes an item, drops it, or changes the otlp_* parameters.
ChangeSpec ==
    /\ Latest > 0 /\ specs < MaxSpecs
    /\ specs' = specs + 1
    /\ \E i \in Items :
        \/ Change(i, "edit") /\ Wanted(i, specs + 1)
        \/ Change(i, "drop") /\ wanted[i] # 0 /\ Wanted(i, 0)
        \/ Change(i, "rebind") /\ Send(<<SpecMsg(wanted, TRUE)>>) /\ UNCHANGED wanted
    /\ UNCHANGED <<buffer, url, tasks, port, loops, ds, arrived, fate, faults>>

-----------------------------------------------------------------------------
(* The supervisor of connection c                                          *)

MustRestart(runner, version, i, rebind) ==
    \/ rebind /\ i = Otlp
    \/ runner.version # version

\* Dropping a JoinHandle only detaches the task.
Aborted_Detached(ts, S) == ts

\* abort() takes effect at the next await of the task: what it pushes until
\* then it may as well have pushed before.  Its listener stays for a while.
Aborted(ts, S) == [t \in DOMAIN ts |-> IF t \in S THEN [ts[t] EXCEPT !.st = "ended"] ELSE ts[t]]

\* spawn_collector: a poller is in its loop at once, a receiver has to bind.
Spawned(i) == IF i = Otlp THEN "spawned" ELSE "running"

TasksOf(runners, S) == {runners[i].task : i \in S} \ {0}

Reconcile(c, msg) ==
    LET old     == sups[c].runners
        enabled == {i \in Items : msg.items[i] # 0}
        start   == {i \in enabled : MustRestart(old[i], msg.items[i], i, msg.rebind)}
        order   == SetToSeq(start)
        number(i) == Len(tasks) + (CHOOSE k \in DOMAIN order : order[k] = i)
    IN /\ tasks' = Aborted(tasks, TasksOf(old, start \cup (Items \ enabled)))
                     \o [k \in DOMAIN order |-> [item |-> order[k], st |-> Spawned(order[k])]]
       /\ sups' = [sups EXCEPT
              ![c].inbox = Tail(@),
              ![c].runners = [i \in Items |->
                  IF i \in start THEN [version |-> msg.items[i], task |-> number(i)]
                  ELSE IF i \in enabled THEN old[i]
                  ELSE [version |-> 0, task |-> 0]]]
       /\ UNCHANGED <<url, faults>>

\* The answer of gse-server: the dataserver it knows of, if any.  A call on a
\* connection that is gone changes nothing.
PullAddr(c) ==
    \/ c = Latest /\ url' = ds /\ UNCHANGED faults
    \/ c = Latest /\ Fault("unregistered") /\ url' = None
    \/ c # Latest /\ UNCHANGED <<url, faults>>

HandleControl(c) ==
    /\ sups[c].open /\ sups[c].inbox # <<>>
    /\ LET msg == Head(sups[c].inbox) IN
          \/ msg.what = "spec" /\ Reconcile(c, msg)
          \/ /\ msg.what = "pull" /\ PullAddr(c)
             /\ sups' = [sups EXCEPT ![c].inbox = Tail(@), ![c].started = TRUE]
             /\ UNCHANGED tasks
    /\ UNCHANGED <<buffer, wanted, specs, port, loops, ds, arrived, fate>>

Tick_NotNeeded(c) == FALSE

\* A tick pulls when there is no address.
Tick(c) ==
    /\ sups[c].open /\ sups[c].started /\ url = None
    /\ PullAddr(c)
    /\ UNCHANGED <<buffer, wanted, specs, sups, tasks, port, loops, ds, arrived, fate>>

\* The channel is closed and empty.
EndSupervisor(c) ==
    /\ c # Latest /\ sups[c].open /\ sups[c].inbox = <<>>
    /\ sups' = [sups EXCEPT ![c].open = FALSE]
    /\ tasks' = Aborted(tasks, TasksOf(sups[c].runners, Items))
    /\ UNCHANGED <<buffer, url, wanted, specs, port, loops, ds, arrived, fate, faults>>

-----------------------------------------------------------------------------
(* Collectors                                                              *)

SetTask(t, st) == tasks' = [tasks EXCEPT ![t].st = st]

\* The receiver binds its port, or its task returns for good.
BindReceiver(t) ==
    /\ tasks[t].st = "spawned"
    /\ \/ port = 0 /\ SetTask(t, "running") /\ port' = t
       \/ port # 0 /\ SetTask(t, "ended") /\ UNCHANGED port
    /\ UNCHANGED <<buffer, url, wanted, specs, sups, loops, ds, arrived, fate, faults>>

\* The receiver went with its task; the thread that serves the listener is woken
\* by `unblock` and closes it.
CloseListener ==
    /\ port # 0 /\ tasks[port].st = "ended"
    /\ port' = 0
    /\ UNCHANGED <<buffer, url, wanted, specs, sups, tasks, loops, ds, arrived, fate, faults>>

\* Buffer::push: the oldest batches go until the new one fits.
Fits(q, n) == q = <<>> \/ Records(q) + n <= Capacity

Evicting(q, n) == CHOOSE k \in 0 .. Len(q) :
    /\ Fits(SubSeq(q, k + 1, Len(q)), n)
    /\ \A j \in 0 .. k - 1 : ~Fits(SubSeq(q, j + 1, Len(q)), n)

NextId == Cardinality({b \in 1 .. MaxBatches : fate[b] # "unborn"}) + 1

\* A collector pushes a batch.
Collect(t) ==
    /\ tasks[t].st = "running" /\ NextId <= MaxBatches
    /\ \E n \in 1 .. BatchMax :
        LET k == Evicting(buffer, n)
            out == {buffer[j].id : j \in 1 .. k}
        IN /\ buffer' = Append(SubSeq(buffer, k + 1, Len(buffer)), [id |-> NextId, n |-> n])
           /\ fate' = [b \in 1 .. MaxBatches |-> IF b \in out THEN "over"
                                                 ELSE IF b = NextId THEN "open" ELSE fate[b]]
    /\ UNCHANGED <<url, wanted, specs, sups, tasks, port, loops, ds, arrived, faults>>

-----------------------------------------------------------------------------
(* Report loop l                                                           *)

\* pop_front.
Take(l) ==
    /\ loops[l].pc = "idle" /\ buffer # <<>>
    /\ buffer' = Tail(buffer)
    /\ loops' = [loops EXCEPT ![l].pc = "held", ![l].batch = Head(buffer)]
    /\ UNCHANGED <<url, wanted, specs, sups, tasks, port, ds, arrived, fate, faults>>

PutBack_Never(l)    == UNCHANGED buffer
PutBack_AtTheEnd(l) == buffer' = Append(buffer, loops[l].batch)

\* push_front, without a look at the capacity.
PutBack(l) == buffer' = <<loops[l].batch>> \o buffer

Idle(l, failures) == loops' = [loops EXCEPT ![l] = [IdleLoop EXCEPT !.failures = failures]]

\* It looks for the address when it already has the batch.
Address(l) ==
    /\ loops[l].pc = "held"
    /\ IF url = None THEN PutBack(l) /\ Idle(l, loops[l].failures)
       ELSE /\ loops' = [loops EXCEPT ![l].pc = "posting", ![l].base = url]
            /\ UNCHANGED buffer
    /\ UNCHANGED <<url, wanted, specs, sups, tasks, port, ds, arrived, fate, faults>>

\* 2xx and 400.
Confirm(l) ==
    /\ Idle(l, 0)
    /\ fate' = [fate EXCEPT ![loops[l].batch.id] = "over"]
    /\ UNCHANGED <<buffer, url>>

\* 503, or code "unavailable".
Repull(l) == PutBack(l) /\ Idle(l, 0) /\ url' = None /\ UNCHANGED fate

AfterFailure(failures) == IF failures > FailLimit THEN None ELSE url

Retry(l) ==
    LET failures == loops[l].failures + 1 IN
    /\ PutBack(l)
    /\ Idle(l, IF failures > FailLimit THEN FailLimit + 1 ELSE failures)
    /\ url' = AfterFailure(failures)
    /\ UNCHANGED fate

Store(l) == arrived' = loops[l].batch.id

Post(l) ==
    /\ loops[l].pc = "posting"
    /\ IF loops[l].base = ds
         THEN \/ Store(l) /\ Confirm(l) /\ UNCHANGED faults
              \/ Confirm(l) /\ UNCHANGED <<arrived, faults>>   \* 400
              \/ Fault("lostanswer") /\ Store(l) /\ Retry(l)
              \/ Fault("busy") /\ Repull(l) /\ UNCHANGED arrived
         ELSE Retry(l) /\ UNCHANGED <<arrived, faults>>
    /\ UNCHANGED <<wanted, specs, sups, tasks, port, ds>>

-----------------------------------------------------------------------------
(* The dataserver                                                          *)

DataserverMoves ==
    /\ Fault("move")
    /\ ds' \in Addrs \ {ds}
    /\ UNCHANGED <<procVars, arrived, fate>>

ReportLoop(l) == Take(l) \/ Address(l) \/ Post(l)
SuperviseLoop(c) == HandleControl(c) \/ EndSupervisor(c)

Next ==
    \/ Connect \/ ChangeSpec
    \/ \E c \in Conns : SuperviseLoop(c) \/ Tick(c)
    \/ \E t \in DOMAIN tasks : BindReceiver(t) \/ Collect(t)
    \/ CloseListener
    \/ \E l \in DOMAIN loops : ReportLoop(l)
    \/ DataserverMoves

Spec == Init /\ [][Next]_vars

\* tokio runs what is ready, the timer ticks, and the agent connects.
Fairness ==
    /\ WF_vars(Connect) /\ WF_vars(CloseListener)
    /\ WF_vars(\E c \in Conns : SuperviseLoop(c))
    /\ WF_vars(\E c \in Conns : Tick(c))
    /\ WF_vars(\E t \in DOMAIN tasks : BindReceiver(t))
    /\ \A c \in 1 .. MaxConns : WF_vars(c \in Conns /\ ReportLoop(c))

FairSpec == Spec /\ Fairness

-----------------------------------------------------------------------------
(* Properties                                                              *)

\* A batch that a collector pushed is in the buffer, in the hands of one
\* report loop, confirmed, refused or evicted - in exactly one of these places,
\* whatever the loops of old and new connections do.
BatchesConserved ==
    \A b \in 1 .. MaxBatches :
        LET places == Cardinality({k \in DOMAIN buffer : buffer[k].id = b})
                        + Cardinality({l \in Held : loops[l].batch.id = b})
        IN places = IF fate[b] = "open" THEN 1 ELSE 0

\* The buffer gets larger than its capacity only when a report loop puts its
\* batch back, and then by that batch; with BatchesConserved the excess is at
\* most one batch per connection there has been.  (A batch that is larger than
\* the capacity is alone.)
ExcessIsPutBack ==
    [][Records(buffer') > Capacity /\ Records(buffer') > Records(buffer) =>
          \/ Len(buffer') = 1
          \/ \E l \in Held : buffer' = <<loops[l].batch>> \o buffer]_vars

\* With one report loop, batches reach the dataserver in the order in which
\* they were pushed; a repeated batch only follows itself.
OneLoopInOrder == [][Len(loops) = 1 => arrived <= arrived']_vars

\* Once a supervisor is up to date, no collector of an item that was dropped, or
\* of another version of it, goes on: what still runs is aborted.
OnlyWantedCollect ==
    [][\A t \in DOMAIN tasks :
         tasks[t].st = "running" /\ tasks'[t].st = "running" =>
            \E c \in DOMAIN sups' : sups'[c].open /\ sups'[c].runners[tasks[t].item].task = t]_vars

\* A changed spec restarts the collectors it changes and no other: a restart
\* costs a log collector its place in the file.
RestartsAreNeeded ==
    [][\A c \in Conns, i \in Items \ {Otlp} :
         LET now == sups[c].runners[i] later == sups'[c].runners[i]
         IN now.task # 0 /\ later.task # 0 /\ now.task # later.task
              => now.version # later.version]_vars

\* Every batch is confirmed, refused or evicted some day.
BatchesSettle == []<>(\A b \in 1 .. MaxBatches : fate[b] # "open")

\* An apm_otlp item that stays wanted gets a listener, also when it was
\* restarted to bind again.
OtlpListens == <>[](wanted[Otlp] # 0) => []<>(port # 0 /\ tasks[port].st = "running")

\* The state is well formed, and every batch collected is in one place.
BatchesAreKept == CollectTypeOK /\ BatchesConserved

\* The buffer exceeds its capacity only by what is put back, and what one
\* report loop sends it sends in the order of collection.
QueueIsKept == ExcessIsPutBack /\ OneLoopInOrder

\* A collector pushes only while its item is wanted, and is restarted only
\* when its item changed.
CollectorsFollowSpec == OnlyWantedCollect /\ RestartsAreNeeded
=============================================================================
