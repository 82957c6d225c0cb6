------------------------------ MODULE EbpfLimits ------------------------------
(***************************************************************************)
(* What keeps the eBPF items within bounds, and what they say of it:       *)
(*   rate     the token bucket before each probe (ebpf-abi                 *)
(*            token_bucket_step, gse-ebpf-programs rate_allow);            *)
(*   cpu      the judge of the agent's CPU share (cpu.rs CpuTracker);      *)
(*   minutes  the counts of the process item, made points when their       *)
(*            minute is over (lib.rs ProcessMinuteAccumulator);            *)
(*   pids     the cache of who a pid is (cgroup.rs ProcessResolver);       *)
(*   item     the loading of an item, with its pauses between the tries    *)
(*            (collect/ebpf.rs run_item, loader.rs, backoff.rs).           *)
(* They share no state but the clock: `limit` is the part that a behaviour *)
(* is of.                                                                  *)
(***************************************************************************)
EXTENDS Integers, FiniteSets, Sequences

CONSTANTS
    Tick,          \* nanoseconds of a tick, 2^TOKEN_TICK_SHIFT
    PerTick,       \* tokens_per_tick
    Burst,         \* burst_for_rate
    DegradeWindow, \* how long the CPU share is over before it is said
    Ttl,           \* how long an answer about a pid is used
    Pids,
    MaxPids,       \* answers that are kept
    Minute,        \* microseconds of a minute
    Points,        \* the attach points of an item
    Base, MaxWait, \* the first pause after a failed load, and the longest
    Horizon,       \* bound on the clock
    Samples,       \* bound on the CPU samples
    Unset          \* no value

ASSUME EbpfLimitsAssumption ==
    /\ {Tick, PerTick, Burst, Ttl, Minute, MaxPids, Points, Base} \subseteq Nat \ {0}
    /\ {DegradeWindow, Horizon, Samples, MaxWait} \subseteq Nat
    /\ Unset \notin Nat \cup [pid : Pids, who : Nat, at : Nat]

VARIABLES
    limit, clock,
    bucket,     \* rate: the tokens left, the time of the last event, and the
                \*   times of the events that were allowed and denied
    cpu,        \* cpu: since when the share is over, whether that is said, and
                \*   the samples, one for each cycle
    minute,     \* minutes: bucket_secs, the changes read, the counts held and
                \*   those made points, each as the set of what it counts
    pid,        \* pids: who has a pid, when each one before lost it, the answers
                \*   kept and the last one given
    item        \* item: its stage, the probes attached, the next pause

limitVars == <<limit, clock, bucket, cpu, minute, pid, item>>

Parts == {"rate", "cpu", "minutes", "pids", "item"}

Lesser(a, b) == IF a < b THEN a ELSE b

-----------------------------------------------------------------------------
(* The token bucket of one CPU.                                            *)

\* The tokens for an event at t: a full bucket at first, then PerTick more for
\* each whole tick since the last event.
Available(t) ==
    IF bucket.last = 0 THEN Burst
    ELSE Lesser(Burst, bucket.tokens + PerTick * Lesser((t - bucket.last) \div Tick, Burst \div PerTick + 1))

\* An event is counted or denied; either way it is the last one.
RateAllow ==
    LET here == Available(clock) IN
    /\ limit = "rate" /\ clock # bucket.last
    /\ bucket' = [tokens |-> IF here = 0 THEN 0 ELSE here - 1,
                  last   |-> clock,
                  given  |-> IF here = 0 THEN bucket.given ELSE bucket.given \cup {clock},
                  denied |-> IF here = 0 THEN bucket.denied \cup {clock} ELSE bucket.denied]
    /\ UNCHANGED <<limit, clock, cpu, minute, pid, item>>

-----------------------------------------------------------------------------
(* The CPU share: a sample is over the limit, under it, or cannot be read. *)

OverSince(s) ==
    IF s = "none" \/ ~ cpu.based THEN cpu.over_since
    ELSE IF s = "under" THEN Unset
    ELSE IF cpu.over_since = Unset THEN clock ELSE cpu.over_since

\* The first reading is only a base for the next.
Observe(s) ==
    /\ limit = "cpu" /\ Len(cpu.samples) < Samples
    /\ LET since == OverSince(s) IN
       cpu' = [based |-> cpu.based \/ s # "none",
               over_since |-> since,
               degraded |-> IF s = "none" \/ ~ cpu.based THEN cpu.degraded
                            ELSE since # Unset /\ (cpu.degraded \/ clock - since >= DegradeWindow),
               samples |-> Append(cpu.samples, s)]
    /\ clock' = clock + 1
    /\ UNCHANGED <<limit, bucket, minute, pid, item>>

-----------------------------------------------------------------------------
(* The minutes: a cycle adds what it read to its bucket, and makes points  *)
(* of the buckets of the minutes that are over.                            *)

BucketOf(t) == t - (t % minute.width)

\* Mutant of MinuteOver: the bucket that begins the minute goes with the last.
MinuteOver_Early(b) == b <= clock - (clock % Minute)

MinuteOver(b) == b < clock - (clock % Minute)

\* observe: what a cycle read goes to the bucket of its moment.
MinuteObserved(changes) ==
    [b \in 0..Horizon |-> minute.held[b] \cup IF b = BucketOf(clock) THEN changes ELSE {}]

\* drain_closed: each bucket of a minute that is over becomes a point.
MinuteDrained(held) ==
    LET over == {b \in 0..Horizon : held[b] # {} /\ MinuteOver(b)}
    IN  [minute EXCEPT !.held = [b \in 0..Horizon |-> IF b \in over THEN {} ELSE held[b]],
                       !.made = [b \in 0..Horizon |-> IF b \in over THEN Append(@[b], held[b]) ELSE @[b]]]

\* A cycle reads a change (named for the moment) or none, or fails to read: it
\* then neither counts nor drains, and what the map holds waits for the next.
MinuteCycle ==
    /\ limit = "minutes" /\ clock < Horizon
    /\ \/ \E read \in {{}, {clock}} :
            minute' = [MinuteDrained(MinuteObserved(read)) EXCEPT !.seen = @ \cup read]
       \/ UNCHANGED minute
    /\ clock' = clock + 1
    /\ UNCHANGED <<limit, bucket, cpu, pid, item>>

-----------------------------------------------------------------------------
(* Who a pid is.  The kernel gives a pid again once its process has ended. *)

PidReused(p) ==
    /\ limit = "pids" /\ pid.owner[p] < 2
    /\ pid' = [pid EXCEPT !.owner[p] = @ + 1, !.lost[p] = Append(@, clock)]
    /\ UNCHANGED <<limit, clock, bucket, cpu, minute, item>>

Fresh(p) == p \in DOMAIN pid.cache /\ clock - pid.cache[p].at < Ttl

\* A fresh answer stays as it is; another makes room for itself by clearing all
\* of them when there are too many.
Remember(p, who) ==
    IF Fresh(p) THEN pid.cache
    ELSE [q \in (IF Cardinality(DOMAIN pid.cache) >= MaxPids THEN {} ELSE DOMAIN pid.cache) \cup {p} |->
            IF q = p THEN [at |-> clock, who |-> who] ELSE pid.cache[q]]

Resolve(p) ==
    /\ limit = "pids"
    /\ LET who == IF Fresh(p) THEN pid.cache[p].who ELSE pid.owner[p]
       IN  pid' = [pid EXCEPT !.cache = Remember(p, who), !.answer = [pid |-> p, who |-> who, at |-> clock]]
    /\ UNCHANGED <<limit, clock, bucket, cpu, minute, item>>

-----------------------------------------------------------------------------
(* An item: its checks, its tries to load, its loop.  Loading is one step  *)
(* of the agent's task, which can be stopped only where it waits.          *)

\* The handle is dropped, and with it every link.
Unload == 0

Preflight(ok) ==
    /\ limit = "item" /\ item.stage = "start"
    /\ item' = [item EXCEPT !.stage = IF ok THEN "load" ELSE "disabled"]
    /\ UNCHANGED <<limit, clock, bucket, cpu, minute, pid>>

\* The object is loaded and its configuration written, then each point is
\* attached in turn.
Attach ==
    /\ limit = "item" /\ item.stage = "load" /\ item.attached < Points
    /\ item' = [item EXCEPT !.attached = @ + 1]
    /\ UNCHANGED <<limit, clock, bucket, cpu, minute, pid>>

LoadFails ==
    /\ limit = "item" /\ item.stage = "load" /\ clock < Horizon
    /\ item' = [item EXCEPT !.stage = "wait", !.attached = Unload, !.next = Lesser(2 * @, MaxWait), !.waited = @ \o <<item.next>>]
    /\ clock' = clock + 1
    /\ UNCHANGED <<limit, bucket, cpu, minute, pid>>

Retry ==
    /\ limit = "item" /\ item.stage = "wait"
    /\ item' = [item EXCEPT !.stage = "load"]
    /\ UNCHANGED <<limit, clock, bucket, cpu, minute, pid>>

\* The loop has the maps of what is loaded; without them the item ends.
Loaded(mapped) ==
    /\ limit = "item" /\ item.stage = "load" /\ item.attached = Points
    /\ item' = [item EXCEPT !.stage = IF mapped THEN "loop" ELSE "ended", !.attached = IF mapped THEN @ ELSE Unload,
                            !.next = Base, !.waited = <<>>]
    /\ UNCHANGED <<limit, clock, bucket, cpu, minute, pid>>

\* The spec no longer has the item, or the agent connects anew.
Stop ==
    /\ limit = "item" /\ item.stage \in {"disabled", "wait", "loop"}
    /\ item' = [item EXCEPT !.stage = "ended", !.attached = Unload]
    /\ UNCHANGED <<limit, clock, bucket, cpu, minute, pid>>

-----------------------------------------------------------------------------

TimePasses ==
    /\ limit \in {"rate", "pids"} /\ clock < (IF limit = "rate" THEN Horizon ELSE 3 * Ttl)
    /\ clock' = clock + 1
    /\ UNCHANGED <<limit, bucket, cpu, minute, pid, item>>

LimitInit ==
    /\ limit \in Parts
    /\ clock = 1
    /\ bucket = [tokens |-> 0, last |-> 0, given |-> {}, denied |-> {}]
    /\ cpu = [based |-> FALSE, over_since |-> Unset, degraded |-> FALSE, samples |-> <<>>]
    /\ \E w \in 1..Minute :
         /\ limit # "minutes" => w = 1
         /\ LET all == IF limit = "minutes" THEN 0..Horizon ELSE {}
            IN  minute = [width |-> w, seen |-> {}, held |-> [b \in all |-> {}], made |-> [b \in all |-> <<>>]]
    /\ pid = [owner |-> [p \in Pids |-> 0], lost |-> [p \in Pids |-> <<>>], cache |-> [p \in {} |-> Unset], answer |-> Unset]
    /\ item = [stage |-> "start", attached |-> 0, next |-> Base, waited |-> <<>>]

LimitNext ==
    \/ RateAllow \/ TimePasses
    \/ \E s \in {"over", "under", "none"} : Observe(s)
    \/ MinuteCycle
    \/ \E p \in Pids : PidReused(p) \/ Resolve(p)
    \/ \E ok \in BOOLEAN : Preflight(ok) \/ Loaded(ok)
    \/ Attach \/ LoadFails \/ Retry \/ Stop

LimitSpec == LimitInit /\ [][LimitNext]_limitVars

-----------------------------------------------------------------------------

Within(times, s, t) == Cardinality({e \in times : s <= e /\ e <= t})

\* No stretch of time has more events than the burst and what its whole ticks
\* bring, however the events come.
RateHolds ==
    \A s, t \in bucket.given : s <= t => Within(bucket.given, s, t) <= Burst + PerTick * ((t - s) \div Tick)

\* The design's bucket denies an event only when more than the limit came: the
\* burst, and the tokens of the ticks up to it.
DeniedIsOverLimit ==
    \A t \in bucket.denied :
        \E s \in 1..t : Within(bucket.given \cup bucket.denied, s, t) > Burst + PerTick * ((t - s) \div Tick)

\* The agent says that it is degraded exactly when the share has been over the
\* limit for the whole window: a sample that could not be read neither ends
\* the stretch nor begins one.
DegradedIsSustained ==
    LET all   == {i \in 1..Len(cpu.samples) : cpu.samples[i] # "none"}
        reads == {i \in all : \E j \in all : j < i}
    IN  cpu.degraded <=> \E i, last \in reads :
                            /\ \A j \in reads : j <= last /\ (j >= i => cpu.samples[j] = "over")
                            /\ last - i >= DegradeWindow

\* What the point of a bucket counts.
PointOf(b) == IF minute.made[b] = <<>> THEN {} ELSE minute.made[b][1]

\* When the buckets fit into the minute, each change is in the count of the
\* bucket of its moment and in no other, held or made a point; and no bucket is
\* made a point twice, which would be stored once.
MinutesAreWhole ==
    limit = "minutes" /\ Minute % minute.width = 0 =>
        \A b \in 0..Horizon :
            /\ minute.held[b] \cup PointOf(b) = {c \in minute.seen : BucketOf(c) = b}
            /\ minute.held[b] \cap PointOf(b) = {}
            /\ Len(minute.made[b]) <= 1

\* An answer about a pid is about its process, or about one that had the pid
\* less than Ttl ago.
AnswersAreRecent ==
    pid.answer # Unset =>
        LET a == pid.answer IN
        a.who < pid.owner[a.pid] => a.at - pid.lost[a.pid][a.who + 1] < Ttl

\* Probes are in the kernel only while an item's loop reads what they count, or
\* is about to; and the pauses between tries double from the first to the longest.
ProbesAreRead ==
    /\ item.stage \notin {"load", "loop"} => item.attached = 0
    /\ item.stage = "loop" => item.attached = Points
    /\ item.waited # <<>> => item.waited[1] = Base
    /\ \A i \in 2..Len(item.waited) : item.waited[i] = Lesser(2 * item.waited[i - 1], MaxWait)

\* The limits of the eBPF collector and of the probes it loads.
LimitsHold == RateHolds /\ DegradedIsSustained /\ MinutesAreWhole /\ AnswersAreRecent /\ ProbesAreRead
=============================================================================
