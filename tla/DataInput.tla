------------------------------- MODULE DataInput -------------------------------
(***************************************************************************)
(* The pure functions on the way of a record through the dataserver: ids   *)
(* and defaults of a span, the checks of an ebpf edge, the service name of *)
(* an address, the retention of a collect item, percentiles.  Each is      *)
(* compared with what it is meant to compute.                              *)
(*                                                                         *)
(* Source: crates/dataplane-ingest/src/trace.rs, edge.rs; crates/          *)
(* dataplane-apm/src/alias.rs, endpoint.rs, ebpf_edge.rs, sink.rs, red.rs, *)
(* aggregator.rs, ebpf_metrics.rs, ebpf_retention.rs; bins/dataserver/src/ *)
(* cleanup.rs, http.rs, limits.rs.                                         *)
(***************************************************************************)
EXTENDS Integers, Sequences, FiniteSets, FiniteSetsExt, SequencesExt

None == "none"

-----------------------------------------------------------------------------
(* Spans.  An id is "A" or "a" (the same hex digits), "x" (no hex) or "".  *)

Lower(id) == IF id = "A" THEN "a" ELSE id
IsHex(id) == id = "a"
RecordOf(trace, span) == trace \o ":" \o span

Normalized(s) ==
    LET trace == Lower(s.trace)
        span  == Lower(s.span)
    IN [trace |-> trace, span |-> span, parent |-> Lower(s.parent),
        record |-> IF s.record = "" /\ trace # "" /\ span # "" THEN RecordOf(trace, span)
                   ELSE IF s.record = "A:A" THEN "a:a" ELSE s.record,
        service |-> IF s.service = "" THEN "unknown_service" ELSE s.service,
        kind |-> IF s.kind = "" THEN "internal" ELSE s.kind,
        ts |-> IF s.ts <= 0 THEN s.start \div 1000 ELSE s.ts, start |-> s.start, end |-> s.end]

ValidSpan(s) ==
    /\ IsHex(s.trace) /\ IsHex(s.span) /\ (s.parent = "" \/ IsHex(s.parent))
    /\ s.record = RecordOf(s.trace, s.span)
    /\ s.ts > 0

DurationMicros(s) == IF s.end < s.start THEN 0 ELSE (s.end - s.start) \div 1000

SpanInputs == [trace : {"", "a", "A", "x"}, span : {"a", "A"}, parent : {"", "A", "x"},
               record : {"", "a:a", "A:A", "b:b"}, service : {"", "s"}, kind : {""},
               ts : {-1, 0, 3}, start : {-1, 999, 2000}, end : {0, 4000}]

\* Only one record id is accepted for a span, however its ids are written
\* and whether the sender fills the record id or not: a repeat is found.
SpanRepeatsAreFound ==
    \A s \in SpanInputs :
        LET n == Normalized(s)
        IN /\ Normalized(n) = n
           /\ ValidSpan(n) => n.record = "a:a" /\ n.ts > 0 /\ DurationMicros(n) >= 0
           /\ ValidSpan(s) => ValidSpan(n)

-----------------------------------------------------------------------------
(* ebpf edges                                                              *)

ValidEdge(e) ==
    /\ e.record # "" /\ e.width > 0 /\ e.source = "ebpf" /\ e.protocol \in {"tcp", "udp"}
    /\ e.calls > 0 /\ e.failures <= e.calls /\ e.slots <= 32 /\ e.ts > 0

LookupPort(e) == IF e.dst # 0 THEN e.dst ELSE e.src

-----------------------------------------------------------------------------
(* Aliases.  An address has four bits, `net` is <<address, prefix length>>.*)

AliasKinds == <<"process_name", "process_prefix", "pod_prefix", "cidr">>
Bits       == 4

ValidNet(net) == net[2] <= Bits

Mask(length) == IF length = 0 THEN 0 ELSE 2^Bits - 2^(Bits - length)

\* x & mask, for a mask of leading ones.
And(x, mask) == (x \div (2^Bits - mask)) * (2^Bits - mask)

CidrContains(net, ip) ==
    ValidNet(net) /\ And(net[1], Mask(net[2])) = And(ip, Mask(net[2]))

\* Bit i of an address, the most significant first.
Bit(x, i) == (x \div 2^(Bits - i)) % 2

\* A network contains the addresses that share its leading bits.
CidrIsPrefix ==
    \A net \in (0 .. 2^Bits - 1) \X (0 .. Bits + 1), ip \in 0 .. 2^Bits - 1 :
        CidrContains(net, ip) <=> net[2] <= Bits /\ \A i \in 1 .. net[2] : Bit(net[1], i) = Bit(ip, i)

\* A request's pod and process may be ""; every name starts with itself and
\* with its first letter.
StartsWith(name, prefix) == name = prefix \/ (name = "app" /\ prefix = "a")

Matches(a, q) ==
    CASE a.kind = "process_name"   -> q.process # "" /\ a.value = q.process
      [] a.kind = "process_prefix" -> q.process # "" /\ StartsWith(q.process, a.value)
      [] a.kind = "pod_prefix"     -> q.pod # "" /\ StartsWith(q.pod, a.value)
      [] a.kind = "cidr"           -> q.ip # None /\ CidrContains(a.value, q.ip)

ValidAlias(a) ==
    /\ a.kind \in {AliasKinds[i] : i \in 1 .. 4} /\ a.value # "" /\ a.service # ""
    /\ a.kind = "cidr" => ValidNet(a.value)

\* The newest of the enabled aliases of a kind; the first listed on a tie.
Newest(hits) ==
    FoldLeft(LAMBDA best, a : IF best = <<>> \/ a.updated > best[1].updated THEN <<a>> ELSE best, <<>>, hits)

ResolveAlias(aliases, q) ==
    LET hits(kind) == SelectSeq(aliases, LAMBDA a : a.enabled /\ a.kind = kind /\ Matches(a, q))
        found      == {i \in 1 .. 4 : hits(AliasKinds[i]) # <<>>}
    IN IF found = {} THEN None ELSE Newest(hits(AliasKinds[Min(found)]))[1].service

Aliases == {[kind |-> k[1], value |-> k[2], service |-> k[3], enabled |-> b, updated |-> u] :
              k \in {<<"process_name", "app", "S1">>, <<"process_prefix", "a", "S2">>,
                     <<"process_prefix", "app", "S3">>, <<"pod_prefix", "a", "S4">>},
              b \in BOOLEAN, u \in 1 .. 2}
Queries == [process : {"", "app", "b"}, pod : {"", "app"}, ip : {None}]

\* The service is one of an enabled match, no match has a stronger kind and
\* none of the same kind is newer.
StrongestAliasWins ==
    \A as \in Aliases \X Aliases, q \in Queries :
        LET hits    == {a \in {as[1], as[2]} : a.enabled /\ Matches(a, q)}
            rank(a) == CHOOSE i \in 1 .. 4 : AliasKinds[i] = a.kind
            found   == ResolveAlias(as, q)
        IN IF hits = {} THEN found = None
           ELSE \E a \in hits : /\ a.service = found
                                /\ \A b \in hits : rank(a) < rank(b)
                                                   \/ (rank(a) = rank(b) /\ a.updated >= b.updated)

-----------------------------------------------------------------------------
(* Addresses to services: alias, endpoint by address, endpoint by pod.     *)

FirstOf(candidates) ==
    LET found == {i \in DOMAIN candidates : candidates[i] # None}
    IN IF found = {} THEN None ELSE candidates[Min(found)]

ByAddress(endpoints, ip, port) == IF ip = "" \/ port = 0 THEN None ELSE endpoints.address
ByPod(endpoints, pod)          == IF pod = "" THEN None ELSE endpoints.pod

\* EbpfEdgeSink::resolve
EdgeService(given, alias, endpoints, ip, port, pod) ==
    IF given # "" THEN given
    ELSE LET found == FirstOf(<<alias, ByAddress(endpoints, ip, port), ByPod(endpoints, pod)>>)
         IN IF found # None THEN found ELSE IF ip = "" THEN "unknown" ELSE "unknown-" \o ip

\* ServiceNameResolver::resolve, for the target of an edge of spans
PeerService(alias, endpoints, ip, port, pod) ==
    FirstOf(<<alias, ByAddress(endpoints, ip, port), ByPod(endpoints, pod)>>)

\* The edges of spans and those of the kernel name the same peer alike.
ResolversAgree ==
    \A alias \in {None, "A"}, e \in [address : {None, "B"}, pod : {None, "C"}],
       ip \in {"", "10.1"}, port \in {0, 80}, pod \in {"", "p"} :
        LET peer == PeerService(alias, e, ip, port, pod)
            edge == EdgeService("", alias, e, ip, port, pod)
        IN IF peer = None THEN edge \in {"unknown", "unknown-10.1"} ELSE edge = peer

InstanceId(s) ==
    IF s.instance # "" THEN s.instance ELSE IF s.pod # "" THEN s.service \o "@" \o s.pod ELSE s.service

\* Replicas of a service in different pods are different endpoints.
ReplicasStayApart ==
    \A s, t \in [service : {"s"}, instance : {""}, pod : {"", "p", "q"}] :
        s.pod # t.pod => InstanceId(s) # InstanceId(t)

-----------------------------------------------------------------------------
(* Retention of the collect items                                          *)

ClampDays(days) == IF days = 0 THEN 1 ELSE days

\* -1: not given.  An ebpf item is kept three days, another one day.
ItemDays(item) ==
    IF item.days # -1 THEN ClampDays(item.days) ELSE IF item.ebpf THEN 3 ELSE 1

\* The specs of the agents, each a sequence of items; the kind is that of the
\* first item with one.
LiveItems(specs) ==
    LET listed == {i \in UNION {ToSet(s) : s \in ToSet(specs)} : i.id # "" /\ i.enabled}
    IN [id \in {i.id : i \in listed} |-> Max({ItemDays(i) : i \in {j \in listed : j.id = id}})]

SpecItems == [id : {"", "i", "j"}, enabled : BOOLEAN, days : {-1, 0, 2}, ebpf : BOOLEAN]

\* An item that several agents have is kept as long as any of them asks, and
\* an item that one of them still collects is live.
LongestRetentionWins ==
    \A a, b \in SpecItems :
        LET live == LiveItems(<< <<a>>, <<b>> >>)
        IN \A i \in {a, b} : i.id # "" /\ i.enabled =>
               i.id \in DOMAIN live /\ live[i.id] >= ItemDays(i) /\ live[i.id] >= 1

-----------------------------------------------------------------------------
(* Percentiles                                                             *)

CeilDiv(a, b) == (a + b - 1) \div b

Rank_Floor(p, n) == Max({(p * n) \div 100, 1})

Rank(p, n) == Max({CeilDiv(p * n, 100), 1})

Percentile(samples, p) == SortSeq(samples, <)[Rank(p, Len(samples))]

\* The nearest-rank percentile is the least sample that p percent reach.
PercentileIsNearestRank ==
    \A samples \in BoundedSeq(0 .. 2, 4) \ {<<>>}, p \in {50, 95, 99} :
        LET value    == Percentile(samples, p)
            upTo(v)  == Cardinality({i \in DOMAIN samples : samples[i] <= v})
            below(v) == Cardinality({i \in DOMAIN samples : samples[i] < v})
        IN 100 * upTo(value) >= p * Len(samples) /\ 100 * below(value) < p * Len(samples)

\* Slot i of a histogram covers 2^i up to 2^(i+1) microseconds.
SlotUpper(slot) == 2^(slot + 1)

HistogramP95(hist) ==
    LET cumulative(i) == FoldLeft(LAMBDA n, c : n + c, 0, SubSeq(hist, 1, i))
        total == cumulative(Len(hist))
    IN IF total = 0 THEN 0
       ELSE SlotUpper(Min({i \in 1 .. Len(hist) : 100 * cumulative(i) >= 95 * total}) - 1)

\* At least 95 percent of the durations are below the reported one, and that
\* fails for half of it.
HistogramIsBound ==
    \A hist \in [1 .. 3 -> {0, 1, 2, 19, 20}] :
        LET p95      == HistogramP95(hist)
            total    == hist[1] + hist[2] + hist[3]
            under(v) == FoldSet(LAMBDA i, n : n + hist[i], 0, {i \in 1 .. 3 : SlotUpper(i - 1) <= v})
        IN total > 0 => /\ 100 * under(p95) >= 95 * total
                        /\ 100 * under(p95 \div 2) < 95 * total

-----------------------------------------------------------------------------
(* Keys of streams, and the limit of batches per second                    *)

\* A key is a sequence of parts between slashes; a data id may have slashes.
StreamKey(agent, type, data) == <<"stream", agent, type>> \o data

ParseStreamKey(key) ==
    IF Len(key) < 4 \/ key[1] # "stream" THEN <<>>
    ELSE LET parts == <<key[2], key[3], SubSeq(key, 4, Len(key))>>
         IN IF key[2] = "" \/ key[3] = "" \/ parts[3] = <<"">> THEN <<>> ELSE parts

\* What is listed as a stream is what was registered as one.
StreamKeysReadBack ==
    \A agent, type \in {"a", "b"}, data \in BoundedSeq({"", "d"}, 2) \ {<<>>, <<"">>} :
        ParseStreamKey(StreamKey(agent, type, data)) = <<agent, type, data>>

\* The window of a limiter after a batch at `second`, and whether it passes.
Allow(w, second, limit) ==
    LET used == IF w.second = second THEN w.used ELSE 0
    IN IF limit = 0 THEN [second |-> w.second, used |-> w.used, passed |-> w.passed + 1]
       ELSE IF used >= limit THEN [second |-> second, used |-> used, passed |-> w.passed]
       ELSE [second |-> second, used |-> used + 1, passed |-> w.passed + 1]

PassedBy(seconds, limit) ==
    FoldLeft(LAMBDA w, s : Allow(w, s, limit), [second |-> 0, used |-> 0, passed |-> 0], seconds).passed

\* In seconds that follow each other, as many batches pass as come, up to the
\* limit of each second.
LimiterIsPerSecond ==
    \A seconds \in BoundedSeq(1 .. 2, 5), limit \in 1 .. 2 :
        (\A i \in 1 .. Len(seconds) - 1 : seconds[i] <= seconds[i + 1]) =>
            PassedBy(seconds, limit) =
                LET come(s) == Cardinality({i \in DOMAIN seconds : seconds[i] = s})
                IN Min({come(1), limit}) + Min({come(2), limit})

-----------------------------------------------------------------------------

\* The functions compute what the records, names and numbers are meant to be.
DataInputAgrees ==
    /\ SpanRepeatsAreFound /\ CidrIsPrefix /\ StrongestAliasWins /\ ResolversAgree
    /\ ReplicasStayApart /\ LongestRetentionWins /\ PercentileIsNearestRank
    /\ HistogramIsBound /\ StreamKeysReadBack /\ LimiterIsPerSecond
=============================================================================
