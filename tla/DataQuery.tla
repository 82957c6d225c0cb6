------------------------------- MODULE DataQuery -------------------------------
(***************************************************************************)
(* The searches of the dataserver: logs by filter, edges from spans, from  *)
(* the kernel and of both merged.  Each is compared with the answer over   *)
(* the whole table.                                                        *)
(*                                                                         *)
(* Source: crates/dataplane-log/src/lib.rs (search, search_indexed,        *)
(* delete_matching), crates/dataplane-ingest/src/lib.rs (search), crates/  *)
(* dataplane-apm/src/query.rs.  The limits are small: see each.            *)
(***************************************************************************)
EXTENDS Naturals, Sequences, FiniteSets, FiniteSetsExt, SequencesExt

Unasked == "any"                           \* a condition that is not given

-----------------------------------------------------------------------------
(* Logs.  The store lists the documents that meet the time, level and      *)
(* message conditions by score; all labels are looked at afterwards.       *)

ScanLimit    == 2                          \* MAX_LIMIT, 1000
DefaultLimit == 1                          \* DEFAULT_LIMIT, 100

ClampLogLimit(limit) == Min({IF limit = 0 THEN DefaultLimit ELSE limit, ScanLimit})

First(n, seq) == SubSeq(seq, 1, Min({n, Len(seq)}))

IndexedMatch(d, q) ==
    /\ q.from <= d.ts /\ d.ts <= q.to
    /\ q.level = Unasked \/ d.level = q.level

LabelMatch(d, q) == q.agent = Unasked \/ d.agent = q.agent

CollectHits(docs, q, topN) ==
    SelectSeq(First(topN, SelectSeq(docs, LAMBDA d : IndexedMatch(d, q))), LAMBDA d : LabelMatch(d, q))

SearchLogs(docs, q) ==
    IF q.from > q.to THEN [ok |-> FALSE, hits |-> <<>>]
    ELSE [ok |-> TRUE, hits |-> First(ClampLogLimit(q.limit), CollectHits(docs, q, ScanLimit))]

Docs    == [ts : 1 .. 2, level : {"info", "error"}, agent : {"a1", "a2"}]
LogQueries == [from : 1 .. 2, to : 1 .. 2, level : {Unasked, "error"}, agent : {Unasked, "a2"}, limit : 0 .. 1]

Wanted(docs, q) == SelectSeq(docs, LAMBDA d : IndexedMatch(d, q) /\ LabelMatch(d, q))

\* A search with no condition on a label gives the first records that match;
\* with one it gives a part of them, never another record.
LogSearchIsSound ==
    \A docs \in BoundedSeq(Docs, 3), q \in LogQueries :
        LET found == SearchLogs(docs, q)
        IN /\ found.ok <=> q.from <= q.to
           /\ ToSet(found.hits) \subseteq ToSet(Wanted(docs, q))
           /\ found.ok /\ q.agent = Unasked => found.hits = First(ClampLogLimit(q.limit), Wanted(docs, q))

\* Unspecified conditions do not filter, the given ones all do (LogFilter,
\* lib.rs:75): with a label too, a search gives the first records that match.
LogSearchIsComplete ==
    \A docs \in BoundedSeq(Docs, 3), q \in LogQueries :
        SearchLogs(docs, q).ok => SearchLogs(docs, q).hits = First(ClampLogLimit(q.limit), Wanted(docs, q))

-----------------------------------------------------------------------------
(* Edges.  `spans` are rows of apm_edge_summary, `kernel` of ebpf_edges.   *)

EdgeLimit     == 2                         \* MAX_LIMIT, 500
MergeScan     == 4                         \* MERGE_SCAN_LIMIT, 10000
DefaultWindow == 1

ResolveWindow(from, to, now) ==
    LET until == IF to = 0 THEN now ELSE to
        since == IF from = 0 THEN until - DefaultWindow ELSE from
    IN IF since > until THEN <<>> ELSE <<since, until>>

ClampLimit(limit) == IF limit = 0 THEN 1 ELSE Min({limit, EdgeLimit})

Sum(rows, amount(_)) == FoldSet(LAMBDA r, n : n + amount(r), 0, rows)

\* The groups of a table, the newest and busiest first.
Groups(rows, key(_)) ==
    SetToSortSeq({[key |-> key(r), bucket |-> r.bucket, dst |-> r.dst,
                   protocol |-> r.protocol,
                   calls |-> Sum({s \in rows : key(s) = key(r)}, LAMBDA s : s.calls)] : r \in rows},
                 LAMBDA a, b : \/ a.bucket > b.bucket
                               \/ a.bucket = b.bucket /\ a.calls > b.calls
                               \/ a.bucket = b.bucket /\ a.calls = b.calls /\ a.dst = "B" /\ b.dst = "C")

SearchKernel(rows, q, limit) ==
    First(ClampLimit(limit),
          Groups({r \in rows : /\ q.from <= r.bucket /\ r.bucket <= q.to
                               /\ q.protocol \in {Unasked, r.protocol}},
                 LAMBDA r : <<r.bucket, r.dst, r.protocol>>))

\* An edge of spans has no protocol: asked for one, there is none.
SearchSpans(rows, q, limit) ==
    IF q.protocol # Unasked THEN <<>>
    ELSE First(ClampLimit(limit),
               Groups({r \in rows : q.from <= r.bucket /\ r.bucket <= q.to}, LAMBDA r : <<r.bucket, r.dst>>))

MergeProtocol(a, b) == IF b = "" \/ a = b THEN a ELSE IF a = "" THEN b ELSE "mixed"

MergeSources(spans, kernel) ==
    FoldLeft(LAMBDA merged, g :
                 LET at == {i \in DOMAIN merged : merged[i].bucket = g.bucket /\ merged[i].dst = g.dst}
                 IN IF at = {} THEN Append(merged, [bucket |-> g.bucket, dst |-> g.dst,
                                                    protocol |-> g.protocol, calls |-> g.calls])
                    ELSE [merged EXCEPT ![Min(at)].calls = @ + g.calls,
                                        ![Min(at)].protocol = MergeProtocol(@, g.protocol)],
             <<>>, spans \o kernel)

\* The rows before the page is cut; `total` is their number.
SearchMerged(spans, kernel, q) == MergeSources(SearchSpans(spans, q, MergeScan), SearchKernel(kernel, q, MergeScan))

SpanRows   == [bucket : 1 .. 2, dst : {"B", "C"}, protocol : {""}, calls : {1}]
KernelRows == [bucket : 1 .. 2, dst : {"B", "C"}, protocol : {"tcp", "udp"}, calls : {2}]
EdgeQueries == [from : {1}, to : 1 .. 2, protocol : {Unasked, "tcp"}]

\* The whole table, added up by bucket and services.
CallsTo(spans, kernel, q, bucket, dst) ==
    Sum({r \in spans : q.protocol = Unasked /\ r.bucket = bucket /\ r.dst = dst}, LAMBDA r : r.calls)
      + Sum({r \in kernel : q.protocol \in {Unasked, r.protocol} /\ r.bucket = bucket /\ r.dst = dst}, LAMBDA r : r.calls)

Fits(rows) == Cardinality(rows) <= EdgeLimit

\* As long as either table has no more groups than a page, the merged view
\* has each pair of services once in a bucket, with the calls of both tables
\* and the protocols of all.
MergeAddsUp ==
    \A spans \in {R \in SUBSET SpanRows : Fits(R)}, kernel \in {R \in SUBSET KernelRows : Fits(R)},
       q \in EdgeQueries :
        LET merged == SearchMerged(spans, kernel, q)
        IN /\ \A i, j \in DOMAIN merged :
                 merged[i].bucket = merged[j].bucket /\ merged[i].dst = merged[j].dst => i = j
           /\ \A b \in 1 .. q.to, d \in {"B", "C"} :
                 LET calls == CallsTo(spans, kernel, q, b, d)
                     rows  == {i \in DOMAIN merged : merged[i].bucket = b /\ merged[i].dst = d}
                 IN IF calls = 0 THEN rows = {}
                    ELSE \E i \in rows :
                        /\ merged[i].calls = calls
                        /\ merged[i].protocol = "mixed" <=>
                             q.protocol = Unasked /\ Cardinality({r \in kernel : r.bucket = b /\ r.dst = d}) = 2

\* Either side is read up to MERGE_SCAN_LIMIT rows (query.rs:382).
MergeReadsItsLimit ==
    \A kernel \in SUBSET KernelRows, q \in EdgeQueries :
        Cardinality(kernel) <= MergeScan =>
            \A b \in 1 .. q.to, d \in {"B", "C"} :
                LET calls  == CallsTo({}, kernel, q, b, d)
                    merged == SearchMerged({}, kernel, q)
                IN calls > 0 => \E i \in DOMAIN merged : merged[i].bucket = b /\ merged[i].dst = d

-----------------------------------------------------------------------------

\* Within their limits the searches give what the tables hold.
DataQueryAgrees == LogSearchIsSound /\ MergeAddsUp
=============================================================================
