------------------------------ MODULE EdgeMetrics ------------------------------
(***************************************************************************)
(* The minute metrics the dataserver derives from the stored ebpf edges.   *)
(* A round reads the edges between the watermark and the last minute that  *)
(* is over, writes the points one by one and then moves the watermark; a   *)
(* point with the same measurement, labels and time replaces the old one.  *)
(*                                                                         *)
(* Source: crates/dataplane-apm/src/ebpf_metrics.rs (EbpfMetricsAggregator,*)
(* aggregate, the watermark), ebpf_edge.rs (upsert), the loop in           *)
(* bins/dataserver/src/main.rs.  A unit of time is an agent's bucket (10 s);*)
(* all edges are between one pair of services.                             *)
(***************************************************************************)
EXTENDS Naturals, Sequences, FiniteSets, SequencesExt

CONSTANTS
    Edges,            \* edge records, each with its record_id
    BucketOf,         \* bucket_start
    PortOf,           \* dst_port
    ReasonOf,         \* failure_reason
    CallsOf, FailsOf, \* connections, failures
    BucketsPerMinute,
    Lag,              \* DEFAULT_LAG_SECS
    LastBucket,       \* bound: the tick
    MaxStops          \* bound: engine errors and crashes

ASSUME EdgeMetricsAssumption ==
    /\ {BucketsPerMinute, LastBucket} \subseteq Nat \ {0} /\ {Lag, MaxStops} \subseteq Nat
    /\ IsFiniteSet(Edges) /\ BucketOf \in [Edges -> 1 .. LastBucket]
    /\ {PortOf, ReasonOf, CallsOf, FailsOf} \subseteq [Edges -> Nat]
    /\ \A e \in Edges : FailsOf[e] <= CallsOf[e]          \* EbpfEdge::validate

VARIABLES
    tick,
    stored,     \* ebpf_edges
    mark,       \* ebpf_metrics_watermark; Unaligned before the first round
    aligned,    \* ghost: the first watermark
    round,      \* what run_once still has to write, and up to where
    point,      \* the time series: the value of each key written
    pointed,    \* ghost: edges that are in a point that was written
    behind,     \* ghost: edges that came after their minute was due
    stops

metricVars == <<tick, stored, mark, aligned, round, point, pointed, behind, stops>>

Unaligned   == LastBucket + 1
FloorMinute(b) == b - (b % BucketsPerMinute)
MinuteStarts     == {FloorMinute(b) : b \in 0 .. LastBucket}
Measures    == {"connections", "requests", "failures", "errors"}
Keys        == Measures \X MinuteStarts \X Nat
NoRound     == [upper |-> Unaligned, todo |-> <<>>]

MetricTypeOK ==
    /\ tick \in 1 .. LastBucket /\ stored \subseteq Edges /\ stops \in 0 .. MaxStops
    /\ {mark, aligned} \subseteq MinuteStarts \cup {Unaligned}
    /\ round.upper \in MinuteStarts \cup {Unaligned}
    /\ DOMAIN point \subseteq Keys
    /\ pointed \subseteq stored /\ behind \subseteq stored

MetricInit ==
    /\ tick = 1 /\ stored = {} /\ stops = 0
    /\ mark = Unaligned /\ aligned = Unaligned /\ round = NoRound
    /\ point = [k \in {} |-> 0] /\ pointed = {} /\ behind = {}

-----------------------------------------------------------------------------
(* aggregate                                                               *)

\* The connections (failures) of the edges, one by one.
Total(amount, some) == Cardinality(UNION {{e} \X (1 .. amount[e]) : e \in some})

\* The minutes and labels of a group, in the order of a BTreeMap.
Before(a, b) == a[1] < b[1] \/ (a[1] = b[1] /\ a[2] < b[2])

GroupKeys(some, label) == {<<FloorMinute(BucketOf[e]), label[e]>> : e \in some}

InOrder(s) == \A i, j \in DOMAIN s : i < j => Before(s[i], s[j])

Grouped(some, label) == CHOOSE s \in SetToSeqs(GroupKeys(some, label)) : InOrder(s)

InGroup(some, label, g) == {e \in some : <<FloorMinute(BucketOf[e]), label[e]>> = g}

\* A group gives a point with its label and then one without, that carries
\* only the services.
PointsOf(some, label, amount, labelled, plain) ==
    [n \in 1 .. 2 * Len(Grouped(some, label)) |->
        LET g    == Grouped(some, label)[(n + 1) \div 2]
            mine == InGroup(some, label, g)
        IN [key   |-> IF n % 2 = 1 THEN <<labelled, g[1], g[2]>> ELSE <<plain, g[1], 0>>,
            value |-> Total(amount, mine), from |-> mine]]

RollUp(some) ==
    PointsOf(some, PortOf, CallsOf, "connections", "requests")
      \o PointsOf({e \in some : FailsOf[e] > 0}, ReasonOf, FailsOf, "failures", "errors")

-----------------------------------------------------------------------------
(* run_once                                                                *)

Running == round # NoRound
Due     == IF tick >= Lag THEN FloorMinute(tick - Lag) ELSE 0

Align ==
    /\ ~Running /\ mark = Unaligned
    /\ mark' = Due /\ aligned' = Due
    /\ UNCHANGED <<tick, stored, round, point, pointed, behind, stops>>

Window == {e \in stored : mark < BucketOf[e] /\ BucketOf[e] <= Due}

LoadRows ==
    /\ ~Running /\ mark # Unaligned /\ Due > mark
    /\ round' = [upper |-> Due, todo |-> RollUp(Window)]
    /\ UNCHANGED <<tick, stored, mark, aligned, point, pointed, behind, stops>>

PointWritten(p) == [k \in DOMAIN point \cup {p.key} |-> IF k = p.key THEN p.value ELSE point[k]]

WritePoint ==
    /\ Running /\ round.todo # <<>>
    /\ point' = PointWritten(Head(round.todo))
    /\ pointed' = pointed \cup Head(round.todo).from
    /\ round' = [round EXCEPT !.todo = Tail(@)]
    /\ UNCHANGED <<tick, stored, mark, aligned, behind, stops>>

MoveMark ==
    /\ Running /\ round.todo = <<>>
    /\ mark' = round.upper /\ round' = NoRound
    /\ UNCHANGED <<tick, stored, aligned, point, pointed, behind, stops>>

\* An engine error ends the round, a crash the process; the watermark is in
\* sqlite and stays where it was.
StoppedMark_Moved == IF Running THEN round.upper ELSE mark

StoppedMark == mark

Stop ==
    /\ Running /\ stops < MaxStops
    /\ stops' = stops + 1 /\ round' = NoRound /\ mark' = StoppedMark
    /\ UNCHANGED <<tick, stored, aligned, point, pointed, behind>>

-----------------------------------------------------------------------------
(* The edges arrive once their bucket is over, in any order.  A second     *)
(* delivery replaces the row by itself.                                    *)

StoreEdge(e) ==
    /\ e \notin stored /\ BucketOf[e] < tick
    /\ stored' = stored \cup {e}
    /\ behind' = IF BucketOf[e] <= Due THEN behind \cup {e} ELSE behind
    /\ UNCHANGED <<tick, mark, aligned, round, point, pointed, stops>>

NextBucket ==
    /\ tick < LastBucket /\ tick' = tick + 1
    /\ UNCHANGED <<stored, mark, aligned, round, point, pointed, behind, stops>>

MetricNext ==
    \/ Align \/ LoadRows \/ WritePoint \/ MoveMark \/ Stop \/ NextBucket
    \/ \E e \in Edges : StoreEdge(e)

MetricSpec == MetricInit /\ [][MetricNext]_metricVars

-----------------------------------------------------------------------------

\* An edge that came in time and that the watermark has passed is in a point:
\* a crash or an engine error between the points and the watermark makes the
\* next round write them again, never skip them.
PassedIsCounted ==
    mark # Unaligned =>
        \A e \in stored \ behind :
            aligned < BucketOf[e] /\ BucketOf[e] <= mark => e \in pointed

\* However often a round is repeated, a point says no more calls than the
\* edges of its minute have.
NeverOvercounted ==
    \A k \in DOMAIN point :
        point[k] <= Total(CallsOf, {e \in stored : FloorMinute(BucketOf[e]) = k[2]})

\* Replaying a round neither loses an edge nor counts one twice (the header's
\* "replay does not double", ebpf_metrics.rs:18-20).
ReplayIsExact == PassedIsCounted /\ NeverOvercounted

\* Two buckets of one minute are added up in one point (the test
\* aggregates_same_minute_across_buckets): once the watermark has passed a
\* minute, its requests are those of its edges.
MinutesAddUp ==
    ~Running /\ mark # Unaligned =>
        \A m \in MinuteStarts :
            LET mine == {e \in stored \ behind : FloorMinute(BucketOf[e]) = m}
            IN aligned < m /\ m + BucketsPerMinute <= mark /\ mine # {} =>
                   point[<<"requests", m, 0>>] >= Total(CallsOf, mine)
=============================================================================
