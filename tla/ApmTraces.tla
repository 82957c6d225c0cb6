------------------------------- MODULE ApmTraces -------------------------------
(***************************************************************************)
(* What the dataserver derives from the spans it ingests: the summary of   *)
(* each trace and the requests of each minute.  Spans are observed in      *)
(* memory; a flush takes the deltas out and merges them into sqlite, one   *)
(* row after the other; the aggregation takes the minutes that are over.   *)
(*                                                                         *)
(* Source: crates/dataplane-apm/src/accumulator.rs, red.rs, aggregator.rs, *)
(* sink.rs (observe_span), retention.rs.  A minute is one unit of time.    *)
(***************************************************************************)
EXTENDS Naturals, FiniteSets

CONSTANTS
    Spans,       \* the spans, each observed at most once
    TraceOf, Start, End, Roots, Errors,
    Now,         \* bound: the last minute
    MaxLive,     \* max_live_traces
    MaxFaults    \* bound: engine errors and crashes

Traces  == {TraceOf[s] : s \in Spans}
Minutes == 1 .. Now
Unset   == Now + 1                        \* i64::MAX

ASSUME TracesAssumption ==
    /\ IsFiniteSet(Spans) /\ {Now, MaxLive, MaxFaults} \subseteq Nat
    /\ Start \in [Spans -> Minutes] /\ End \in [Spans -> Minutes]
    /\ \A s \in Spans : Start[s] <= End[s]
    /\ Roots \subseteq Spans /\ Errors \subseteq Spans

VARIABLES
    minute,
    observed,   \* the spans that reached observe_span
    deltas,     \* what came since the last flush, of each trace in memory
    batch,      \* traces and deltas the flush has taken and not written
    reading,    \* the row flush_one has read back
    rows,       \* apm_trace_summary
    samples,    \* requests of each minute in memory
    points,     \* apm_service_requests_total
    lost,       \* ghost: spans that went with a delta, a crash or a row
    late,       \* ghost: minutes that got a span after they were aggregated
    faults

traceVars == <<minute, observed, deltas, batch, reading, rows, samples, points, lost, late, faults>>
redVars   == <<samples, points, late>>

\* A delta and a row have the same fields; `of` is ghost.
Summary == [start : 0 .. Unset, end : 0 .. Now, spans : Nat, errors : Nat, root : 0 .. Now,
            of : SUBSET Spans]
Empty   == [start |-> 0, end |-> 0, spans |-> 0, errors |-> 0, root |-> 0, of |-> {}]   \* default()
NoDelta == "none"

TraceTypeOK ==
    /\ minute \in Minutes /\ observed \subseteq Spans /\ lost \subseteq Spans /\ late \subseteq Minutes
    /\ DOMAIN deltas \subseteq Traces /\ \A t \in DOMAIN deltas : deltas[t] \in Summary
    /\ DOMAIN batch \subseteq Traces /\ \A t \in DOMAIN batch : batch[t] \in Summary
    /\ DOMAIN reading \subseteq DOMAIN batch /\ Cardinality(DOMAIN reading) <= 1
    /\ rows \in [Traces -> Summary]
    /\ samples \in [Minutes -> Nat] /\ points \in [Minutes -> Nat] /\ faults \in Nat

NoFields == [t \in {} |-> Empty]

TraceInit ==
    /\ minute = 1 /\ observed = {} /\ lost = {} /\ late = {} /\ faults = 0
    /\ deltas = NoFields /\ batch = NoFields /\ reading = NoFields
    /\ rows = [t \in Traces |-> Empty]
    /\ samples = [b \in Minutes |-> 0] /\ points = samples

Fault    == faults < MaxFaults /\ faults' = faults + 1
Lesser(a, b)  == IF a <= b THEN a ELSE b
Greater(a, b) == IF a >= b THEN a ELSE b
With(f, t, v) == [u \in DOMAIN f \cup {t} |-> IF u = t THEN v ELSE f[u]]
Without(f, t) == [u \in DOMAIN f \ {t} |-> f[u]]

\* 0 stands for no root, in a delta as in a row.
EarlierRoot(known, new) == IF new = 0 \/ (known # 0 /\ known <= new) THEN known ELSE new

-----------------------------------------------------------------------------
(* observe_span                                                            *)

Added(d, s) ==
    [start  |-> Lesser(d.start, Start[s]),
     end    |-> Greater(d.end, End[s]),
     spans  |-> d.spans + 1,
     errors |-> d.errors + (IF s \in Errors THEN 1 ELSE 0),
     root   |-> IF s \in Roots THEN EarlierRoot(d.root, Start[s]) ELSE d.root,
     of     |-> d.of \cup {s}]

\* A trace that is not in memory starts with start_ts at i64::MAX, one that
\* was flushed or reloaded with the default, 0.
DeltaOf(t) == IF t \in DOMAIN deltas THEN deltas[t] ELSE [Empty EXCEPT !.start = Unset]

Observe(s) ==
    /\ s \notin observed /\ Start[s] <= minute
    /\ observed' = observed \cup {s}
    /\ LET t == TraceOf[s] IN deltas' = With(deltas, t, Added(DeltaOf(t), s))
    /\ samples' = [samples EXCEPT ![Start[s]] = @ + 1]
    /\ late' = IF Start[s] < minute /\ points[Start[s]] > 0 THEN late \cup {Start[s]} ELSE late
    /\ UNCHANGED <<minute, batch, reading, rows, points, lost, faults>>

-----------------------------------------------------------------------------
(* flush                                                                   *)

Reset(d) == Empty

\* The deltas are taken and reset under the lock.
TakeDeltas ==
    /\ batch = NoFields
    /\ \E t \in DOMAIN deltas : deltas[t].spans > 0
    /\ batch' = [t \in {u \in DOMAIN deltas : deltas[u].spans > 0} |-> deltas[t]]
    /\ deltas' = [t \in DOMAIN deltas |-> Reset(deltas[t])]
    /\ UNCHANGED <<minute, observed, reading, rows, redVars, lost, faults>>

\* flush_one: SELECT, then INSERT OR REPLACE.
ReadRow(t) ==
    /\ t \in DOMAIN batch /\ reading = NoFields
    /\ reading' = With(reading, t, rows[t])
    /\ UNCHANGED <<minute, observed, deltas, batch, rows, redVars, lost, faults>>

MergedStart(row, d) ==
    LET new == IF d.start = Unset THEN row.start ELSE d.start
    IN  IF row.spans = 0 /\ row.start = 0 THEN new ELSE Lesser(row.start, new)

Merged(row, d) ==
    [start  |-> MergedStart(row, d),
     end    |-> Greater(row.end, d.end),
     spans  |-> row.spans + d.spans,
     errors |-> row.errors + d.errors,
     root   |-> EarlierRoot(row.root, d.root),
     of     |-> row.of \cup d.of]

\* At the end of a flush clean traces go.  Which ones is left open: a reset
\* delta has forgotten its end.
Clean == {t \in DOMAIN deltas : deltas[t].spans = 0}
EvictTraces ==
    IF Cardinality(DOMAIN deltas) <= MaxLive THEN deltas' = deltas
    ELSE \E gone \in SUBSET Clean :
            /\ Cardinality(gone) = Lesser(Cardinality(DOMAIN deltas) - MaxLive, Cardinality(Clean))
            /\ deltas' = [t \in DOMAIN deltas \ gone |-> deltas[t]]

\* The last trace of a batch ends the flush.
Leave(t) ==
    /\ batch' = Without(batch, t) /\ reading' = NoFields
    /\ IF DOMAIN batch = {t} THEN EvictTraces ELSE UNCHANGED deltas

WriteRow(t) ==
    /\ t \in DOMAIN reading
    /\ rows' = [rows EXCEPT ![t] = Merged(reading[t], batch[t])]
    /\ lost' = lost \ reading[t].of          \* a row deleted meanwhile comes back
    /\ Leave(t)
    /\ UNCHANGED <<minute, observed, redVars, faults>>

FlushFails(t) ==
    /\ t \in DOMAIN batch /\ Fault
    /\ lost' = lost \cup batch[t].of
    /\ Leave(t)
    /\ UNCHANGED <<minute, observed, rows, redVars>>

-----------------------------------------------------------------------------
(* The minutes, the aggregation, the retention, a crash                    *)

MinutePasses ==
    /\ minute < Now /\ minute' = minute + 1
    /\ UNCHANGED <<observed, deltas, batch, reading, rows, redVars, lost, faults>>

Over_Open(b) == samples[b] > 0 /\ b <= minute

Over(b) == samples[b] > 0 /\ b < minute

\* take_closed removes the minutes that are over, and each becomes a point.
\* A point of the same time is overwritten.
Aggregate ==
    /\ \E b \in Minutes : Over(b)
    /\ points' = [b \in Minutes |-> IF Over(b) THEN samples[b] ELSE points[b]]
    /\ samples' = [b \in Minutes |-> IF Over(b) THEN 0 ELSE samples[b]]
    /\ UNCHANGED <<minute, observed, deltas, batch, reading, rows, late, lost, faults>>

\* All minutes here are younger than apm_retention_days: only a start of 0 is
\* before the cutoff of evict_older_than.
Retention ==
    LET old == {t \in Traces : rows[t].spans > 0 /\ rows[t].start = 0}
    IN  /\ old # {}
        /\ rows' = [t \in Traces |-> IF t \in old THEN Empty ELSE rows[t]]
        /\ lost' = lost \cup UNION {rows[t].of : t \in old}
        /\ UNCHANGED <<minute, observed, deltas, batch, reading, redVars, faults>>

\* What was in memory is gone.  A restart registers the recent traces again.
CrashApm ==
    /\ Fault
    /\ lost' = lost \cup (UNION {deltas[t].of : t \in DOMAIN deltas}) \cup (UNION {batch[t].of : t \in DOMAIN batch})
    /\ deltas' = [t \in {u \in Traces : rows[u].spans > 0} |-> Empty]
    /\ batch' = NoFields /\ reading' = NoFields
    /\ late' = late \cup {b \in Minutes : samples[b] > 0}
    /\ samples' = [b \in Minutes |-> 0]
    /\ UNCHANGED <<minute, observed, rows, points>>

-----------------------------------------------------------------------------

TraceNext ==
    \/ MinutePasses \/ TakeDeltas \/ Aggregate \/ Retention \/ CrashApm
    \/ \E s \in Spans : Observe(s)
    \/ \E t \in Traces : ReadRow(t) \/ WriteRow(t) \/ FlushFails(t)

TraceSpec == TraceInit /\ [][TraceNext]_traceVars

-----------------------------------------------------------------------------
(* Properties                                                              *)

InDelta(s) == \E t \in DOMAIN deltas : s \in deltas[t].of
InBatch(s) == \E t \in DOMAIN batch  : s \in batch[t].of
InRow(s)   == \E t \in Traces        : s \in rows[t].of
Exactly(S, n) == Cardinality(S) = n

\* Every observed span is in one place: in memory, with the flush, in the row
\* of its trace, or lost with a failed write, a crash or a deleted row.
InOnePlace(s) ==
    Exactly({p \in {<<"delta", InDelta(s)>>, <<"batch", InBatch(s)>>,
                    <<"row", InRow(s)>>, <<"lost", s \in lost>>} : p[2]}, 1)

RowIsExact(t) ==
    LET of == rows[t].of
        roots == of \cap Roots
    IN  /\ rows[t].spans = Cardinality(of)
        /\ rows[t].errors = Cardinality(of \cap Errors)
        /\ \A s \in of : TraceOf[s] = t /\ End[s] <= rows[t].end
        /\ IF roots = {} THEN rows[t].root = 0
           ELSE /\ \E s \in roots : rows[t].root = Start[s]
                /\ \A s \in roots : rows[t].root <= Start[s]

\* The summary of a trace counts each of its spans once and keeps the
\* earliest root and the latest end, however the spans are spread over
\* flushes, evictions, failures and restarts.
SummariesAreExact ==
    /\ \A s \in observed : InOnePlace(s)
    /\ \A t \in Traces : RowIsExact(t)

\* The point of a minute counts every request of the minute, unless one came
\* after the minute was aggregated, or a crash took the samples.
RequestsAreCounted ==
    \A b \in Minutes \ late :
        points[b] + samples[b] = Cardinality({s \in observed : Start[s] = b})

\* apm-tracing/design.md:464: start_ts is the earliest start of the spans.
\* (Violated: a delta that was reset starts at 0, and so does the trace.)
StartIsEarliest ==
    \A t \in Traces : rows[t].spans > 0 =>
        \E s \in rows[t].of : rows[t].start = Start[s]
=============================================================================
