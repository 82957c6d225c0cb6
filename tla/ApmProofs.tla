------------------------------- MODULE ApmProofs -------------------------------
(***************************************************************************)
(* What the dataserver counts of spans and of stored edges it counts       *)
(* exactly, for any spans, services, edges and faults.                     *)
(*                                                                         *)
(* Traces.  A row is exact because what is merged into it is: each delta,  *)
(* taken or not, sums up the spans it was made of (SumsUp), no span is in  *)
(* two places (SpansPlaced), and the row a flush has read back is the row, *)
(* or one that was deleted meanwhile, whose spans are lost until the flush *)
(* writes it again (ReadingHolds).                                         *)
(*                                                                         *)
(* Metrics.  What a round has still to write misses no edge of its minutes *)
(* that a point has not got (TodoIsTrue), since the groups of aggregate    *)
(* list every edge (GroupsAreWhole); an edge that comes once its minute is *)
(* due is behind, and the watermark is never past what is due              *)
(* (MarksAreDue).                                                          *)
(***************************************************************************)
EXTENDS ApmSpans, EdgeMetrics, FiniteSetTheorems, TLAPS

\* x is the earliest root of S, 0 if there is none.
EarliestOf(x, S) ==
    IF S = {} THEN x = 0 ELSE (\E s \in S : x = Start[s]) /\ (\A s \in S : x <= Start[s])

\* d has the numbers of its spans, all of trace t.
SumsUp(d, t) ==
    /\ d \in Summary
    /\ d.spans = Cardinality(d.of) /\ d.errors = Cardinality(d.of \cap Errors)
    /\ \A s \in d.of : TraceOf[s] = t /\ End[s] <= d.end
    /\ EarliestOf(d.root, d.of \cap Roots)

AllSumUp ==
    /\ DOMAIN deltas \subseteq Traces /\ \A t \in DOMAIN deltas : SumsUp(deltas[t], t)
    /\ DOMAIN batch \subseteq Traces /\ \A t \in DOMAIN batch : SumsUp(batch[t], t)
    /\ rows \in [Traces -> Summary] /\ \A t \in Traces : SumsUp(rows[t], t)

SpansPlaced ==
    /\ observed \subseteq Spans /\ lost \subseteq Spans
    /\ \A s \in Spans :
        /\ s \in observed <=> InDelta(s) \/ InBatch(s) \/ InRow(s) \/ s \in lost
        /\ ~(InDelta(s) /\ InBatch(s)) /\ ~(InDelta(s) /\ InRow(s)) /\ ~(InDelta(s) /\ s \in lost)
        /\ ~(InBatch(s) /\ InRow(s)) /\ ~(InBatch(s) /\ s \in lost) /\ ~(InRow(s) /\ s \in lost)

ReadingHolds ==
    \A t \in DOMAIN reading :
        /\ t \in DOMAIN batch /\ SumsUp(reading[t], t)
        /\ reading[t] = rows[t] \/ (rows[t] = Empty /\ reading[t].of \subseteq lost)

TracesInv == AllSumUp /\ SpansPlaced /\ ReadingHolds

\* A minute has a point only when it is over, and then no samples, unless one
\* came late.
MinutesInv ==
    /\ minute \in Nat /\ observed \subseteq Spans
    /\ samples \in [Minutes -> Nat] /\ points \in [Minutes -> Nat]
    /\ \A b \in Minutes : b >= minute => points[b] = 0
    /\ \A b \in Minutes \ late : points[b] > 0 => samples[b] = 0
    /\ RequestsAreCounted

Calls == [calls : Nat, of : SUBSET Tokens]

\* d counts its calls, all of the minute and the service of k.
Tallied(d, k) ==
    /\ d.calls = Cardinality(d.of)
    /\ \A t \in d.of : At[t[1]] = k.minute /\ Service[t[1]] = k.src

EdgeTypes ==
    /\ clock \in Nat /\ waitingServer \subseteq arrived \cap Clients /\ waitingClient \subseteq Servers
    /\ edges \in [EdgeKeys -> Calls] /\ edgeRows \in [EdgeKeys -> Calls]
    /\ toWrite \in Seq([key : EdgeKeys, calls : Nat, of : SUBSET Tokens])
    /\ counted \in [Clients -> 0 .. 2] /\ gone \subseteq Tokens

AllTallied ==
    /\ \A k \in EdgeKeys : Tallied(edges[k], k) /\ Tallied(edgeRows[k], k)
    /\ \A n \in DOMAIN toWrite : Tallied(toWrite[n], toWrite[n].key)

\* No call is in two edges, nor in two entries of a flush.
EdgesApart ==
    /\ \A k, l \in EdgeKeys : k # l => edges[k].of \cap edges[l].of = {}
    /\ \A m, n \in DOMAIN toWrite : m # n => toWrite[m].of \cap toWrite[n].of = {}

\* A call to an unknown service is made by a flush, of a minute that is over.
NoServer(k) == k.dst \in {Unknown} \ Named
UnknownIsOver ==
    /\ \A k \in EdgeKeys : NoServer(k) =>
        edges[k].calls = 0 /\ (edgeRows[k].calls > 0 => k.minute < clock)
    /\ \A n \in DOMAIN toWrite : NoServer(toWrite[n].key) => toWrite[n].key.minute < clock

\* A client is counted when it arrives, if a server came first, and when it
\* leaves those that wait for a server.
EarlyCalls(c) == IF c \in serverFirst THEN 1 ELSE 0
CountedSoFar ==
    \A c \in Clients :
        /\ counted[c] <= 1 + EarlyCalls(c)
        /\ c \in waitingServer => counted[c] <= EarlyCalls(c)
        /\ c \notin arrived => counted[c] = 0

CallsPlaced ==
    /\ Counted = InEdges \cup Pending \cup Written \cup gone
    /\ InEdges \cap Pending = {} /\ (InEdges \cup Pending) \cap Written = {}
    /\ gone \cap (InEdges \cup Pending \cup Written) = {}

EdgesInv ==
    EdgeTypes /\ AllTallied /\ EdgesApart /\ UnknownIsOver /\ CountedSoFar /\ CallsPlaced

OfMinute(some, m) == {e \in some : FloorMinute(BucketOf[e]) = m}

Points(some) == [key : Keys, value : Nat, from : SUBSET some]

\* v is no more than the edges of k's minute have among these.
Within(some, k, v) == k \in Keys /\ v \in Nat /\ v <= Total(CallsOf, OfMinute(some, k[2]))

\* The watermark is a minute that is due, and a round goes on from there to
\* another.
MarksAreDue ==
    /\ mark = Unaligned <=> aligned = Unaligned
    /\ mark # Unaligned => mark <= Due
    /\ Running => mark # Unaligned /\ mark < round.upper /\ round.upper <= Due

\* What a round has still to write is of stored edges and no more than they
\* have, and no edge of its minutes is missed.
TodoIsTrue ==
    /\ round \in [upper : MinuteStarts \cup {Unaligned}, todo : Seq(Points(stored))]
    /\ \A n \in DOMAIN round.todo : Within(stored, round.todo[n].key, round.todo[n].value)
    /\ round # NoRound =>
        \A e \in stored \ behind :
            mark < BucketOf[e] /\ BucketOf[e] <= round.upper =>
                e \in pointed \/ \E n \in DOMAIN round.todo : e \in round.todo[n].from

PointsAreWithin == \A k \in DOMAIN point : Within(stored, k, point[k])

MetricInv == MetricTypeOK /\ MarksAreDue /\ TodoIsTrue /\ PointsAreWithin /\ PassedIsCounted

-----------------------------------------------------------------------------
(* The operators on summaries                                              *)

LEMMA TraceBounds ==
    /\ Now \in Nat /\ IsFiniteSet(Spans) /\ Roots \subseteq Spans /\ Errors \subseteq Spans
    /\ Unset = Now + 1 /\ Unset \in Nat
    /\ \A s \in Spans : /\ Start[s] \in Nat /\ Start[s] >= 1 /\ Start[s] <= Now
                        /\ End[s] \in Nat /\ End[s] >= 1 /\ End[s] <= Now
                        /\ TraceOf[s] \in Traces
  BY TracesAssumption DEF Minutes, Unset, Traces

LEMMA SpansAreFinite ==
  ASSUME NEW S \in SUBSET Spans
  PROVE  IsFiniteSet(S) /\ Cardinality(S) \in Nat
  BY TraceBounds, FS_Subset, FS_CardinalityType

\* The default of a summary is that of no span.
LEMMA EmptySumsUp ==
  ASSUME NEW t
  PROVE  SumsUp(Empty, t) /\ SumsUp([Empty EXCEPT !.start = Unset], t)
<1>1. Cardinality({}) = 0 /\ {} \cap Errors = {} /\ {} \cap Roots = {}
  BY FS_EmptySet
<1>2. Empty \in Summary /\ [Empty EXCEPT !.start = Unset] \in Summary
  BY TraceBounds DEF Empty, Summary
<1> QED
  BY <1>1, <1>2 DEF SumsUp, EarliestOf, Empty

\* The earlier root of two summaries is that of the spans of both.
LEMMA RootOfBoth ==
  ASSUME NEW A \in SUBSET Spans, NEW B \in SUBSET Spans, NEW x \in 0 .. Now, NEW y \in 0 .. Now,
         EarliestOf(x, A), EarliestOf(y, B)
  PROVE  EarlierRoot(x, y) \in 0 .. Now /\ EarliestOf(EarlierRoot(x, y), A \cup B)
<1> USE TraceBounds DEF EarliestOf
<1>1. CASE A = {}
  <2>1. x = 0 /\ A \cup B = B /\ EarlierRoot(x, y) = y
    BY <1>1 DEF EarlierRoot
  <2> QED BY <2>1
<1>2. CASE A # {} /\ B = {}
  <2>1. y = 0 /\ A \cup B = A /\ EarlierRoot(x, y) = x
    BY <1>2 DEF EarlierRoot
  <2> QED BY <2>1, <1>2
<1>3. CASE A # {} /\ B # {}
  <2>1. PICK a \in A : x = Start[a]
    BY <1>3
  <2>2. PICK b \in B : y = Start[b]
    BY <1>3
  <2>3. x >= 1 /\ y >= 1 /\ (\A s \in A : x <= Start[s]) /\ (\A s \in B : y <= Start[s])
    BY <1>3, <2>1, <2>2
  <2>4. PICK e \in 0 .. Now : e = EarlierRoot(x, y)
    BY DEF EarlierRoot
  <2>5. e \in {x, y} /\ e <= x /\ e <= y
    BY <2>3, <2>4 DEF EarlierRoot
  <2>6. \A s \in A \cup B : e <= Start[s]
    BY <2>3, <2>5
  <2>7. \E s \in A \cup B : e = Start[s]
    BY <2>1, <2>2, <2>5
  <2> QED BY <1>3, <2>4, <2>6, <2>7
<1> QED BY <1>1, <1>2, <1>3

\* A merge of disjoint summaries sums up the spans of both.
LEMMA MergedSumsUp ==
  ASSUME NEW t, NEW row, NEW d, SumsUp(row, t), SumsUp(d, t), row.of \cap d.of = {}
  PROVE  SumsUp(Merged(row, d), t)
<1> USE TraceBounds
<1> DEFINE m == Merged(row, d)
<1>1. row \in Summary /\ d \in Summary
  BY DEF SumsUp
<1>2. row.of \subseteq Spans /\ d.of \subseteq Spans /\ row.root \in 0 .. Now /\ d.root \in 0 .. Now
  BY <1>1 DEF Summary
<1>3. /\ IsFiniteSet(row.of) /\ IsFiniteSet(d.of)
      /\ IsFiniteSet(row.of \cap Errors) /\ IsFiniteSet(d.of \cap Errors)
  BY <1>2, SpansAreFinite
<1>4. Cardinality(row.of \cup d.of) = row.spans + d.spans
  <2>1. Cardinality(row.of) \in Nat /\ Cardinality(d.of) \in Nat
    BY <1>2, SpansAreFinite
  <2>2. Cardinality(row.of \cup d.of) =
          Cardinality(row.of) + Cardinality(d.of) - Cardinality(row.of \cap d.of)
    BY <1>3, FS_Union
  <2>3. Cardinality(row.of \cap d.of) = 0
    BY FS_EmptySet
  <2>4. row.spans = Cardinality(row.of) /\ d.spans = Cardinality(d.of)
    BY DEF SumsUp
  <2> QED BY <2>1, <2>2, <2>3, <2>4
<1>5. Cardinality((row.of \cup d.of) \cap Errors) = row.errors + d.errors
  <2>1. Cardinality(row.of \cap Errors) \in Nat /\ Cardinality(d.of \cap Errors) \in Nat
    BY <1>2, SpansAreFinite
  <2>2. (row.of \cup d.of) \cap Errors = (row.of \cap Errors) \cup (d.of \cap Errors)
    OBVIOUS
  <2> DEFINE A == row.of \cap Errors  B == d.of \cap Errors
  <2>3. A \cap B = {}
    OBVIOUS
  <2>4. IsFiniteSet(A) /\ IsFiniteSet(B) /\ row.errors = Cardinality(A) /\ d.errors = Cardinality(B)
    BY <1>3 DEF SumsUp
  <2> HIDE DEF A, B
  <2>5. Cardinality(A \cup B) = Cardinality(A) + Cardinality(B) - Cardinality(A \cap B)
    BY <2>4, FS_Union
  <2>6. Cardinality(A \cap B) = 0
    BY <2>3, FS_EmptySet
  <2> USE DEF A, B
  <2>7. Cardinality(A) \in Nat /\ Cardinality(B) \in Nat
    BY <2>1
  <2> HIDE DEF A, B
  <2>8. Cardinality(A \cup B) = row.errors + d.errors
    BY <2>4, <2>5, <2>6, <2>7
  <2> USE DEF A, B
  <2> QED BY <2>2, <2>8
<1>6. m.of = row.of \cup d.of /\ m.root = EarlierRoot(row.root, d.root)
  BY DEF Merged
<1>7. /\ m.root \in 0 .. Now
      /\ EarliestOf(m.root, m.of \cap Roots)
  <2> DEFINE A == row.of \cap Roots  B == d.of \cap Roots
  <2>1. A \in SUBSET Spans /\ B \in SUBSET Spans /\ m.of \cap Roots = A \cup B
    BY <1>2, <1>6
  <2> DEFINE x == row.root  y == d.root
  <2>2. EarliestOf(x, A) /\ EarliestOf(y, B)
    BY DEF SumsUp
  <2>3. x \in 0 .. Now /\ y \in 0 .. Now /\ m.root = EarlierRoot(x, y)
    BY <1>2, <1>6
  <2> HIDE DEF A, B, m, x, y
  <2>4. EarlierRoot(x, y) \in 0 .. Now /\ EarliestOf(EarlierRoot(x, y), A \cup B)
    BY <2>1, <2>2, <2>3, RootOfBoth
  <2> QED BY <2>1, <2>3, <2>4
<1>8. m \in Summary
  <2>1. MergedStart(row, d) \in 0 .. Unset
    BY <1>1 DEF Summary, MergedStart, Lesser
  <2>2. Greater(row.end, d.end) \in 0 .. Now
    BY <1>1 DEF Summary, Greater
  <2>3. row.spans + d.spans \in Nat /\ row.errors + d.errors \in Nat
    BY <1>1 DEF Summary
  <2>4. EarlierRoot(row.root, d.root) \in 0 .. Now /\ row.of \cup d.of \in SUBSET Spans
    BY <1>2, <1>6, <1>7
  <2> QED BY <2>1, <2>2, <2>3, <2>4 DEF Summary, Merged
<1>9. \A s \in m.of : TraceOf[s] = t /\ End[s] <= m.end
  <2>1. m.end = Greater(row.end, d.end) /\ row.end \in Nat /\ d.end \in Nat
    BY <1>1 DEF Merged, Summary
  <2>2. \A s \in row.of \cup d.of : s \in Spans /\ TraceOf[s] = t /\ (End[s] <= row.end \/ End[s] <= d.end)
    BY <1>2 DEF SumsUp
  <2> QED BY <1>6, <2>1, <2>2 DEF Greater
<1>10. m.spans = Cardinality(m.of) /\ m.errors = Cardinality(m.of \cap Errors)
  BY <1>4, <1>5 DEF Merged
<1> QED BY <1>7, <1>8, <1>9, <1>10 DEF SumsUp

\* A span that is added is summed up too.
LEMMA AddedSumsUp ==
  ASSUME NEW s \in Spans, NEW d, SumsUp(d, TraceOf[s]), s \notin d.of
  PROVE  SumsUp(Added(d, s), TraceOf[s])
<1> USE TraceBounds
<1> DEFINE m == Added(d, s)
<1>1. /\ d \in Summary /\ d.of \subseteq Spans /\ d.root \in 0 .. Now
      /\ d.start \in 0 .. Unset /\ d.end \in 0 .. Now /\ d.spans \in Nat /\ d.errors \in Nat
  BY DEF SumsUp, Summary
<1>2. IsFiniteSet(d.of) /\ IsFiniteSet(d.of \cap Errors)
  BY <1>1, SpansAreFinite
<1>3. m.of = d.of \cup {s}
  BY DEF Added
<1>4. Cardinality(m.of) = d.spans + 1
  <2>1. Cardinality(d.of \cup {s}) = Cardinality(d.of) + 1
    BY <1>2, FS_AddElement
  <2> QED BY <1>3, <2>1 DEF SumsUp
<1>5. Cardinality(m.of \cap Errors) = d.errors + (IF s \in Errors THEN 1 ELSE 0)
  <2>1. CASE s \in Errors
    <3>1. m.of \cap Errors = (d.of \cap Errors) \cup {s}
      BY <1>3, <2>1
    <3> QED BY <1>2, <2>1, <3>1, FS_AddElement DEF SumsUp
  <2>2. CASE s \notin Errors
    <3>1. m.of \cap Errors = d.of \cap Errors
      BY <1>3, <2>2
    <3>2. d.errors = Cardinality(d.of \cap Errors)
      BY DEF SumsUp
    <3>3. d.errors + (IF s \in Errors THEN 1 ELSE 0) = d.errors
      BY <1>1, <2>2
    <3> QED BY <3>1, <3>2, <3>3
  <2> QED BY <2>1, <2>2
<1>6. /\ m.root \in 0 .. Now
      /\ EarliestOf(m.root, m.of \cap Roots)
  <2>1. CASE s \in Roots
    <3> DEFINE A == d.of \cap Roots  B == {s}  x == d.root  y == Start[s]
    <3>1. A \in SUBSET Spans /\ B \in SUBSET Spans /\ m.of \cap Roots = A \cup B
      BY <1>1, <1>3, <2>1
    <3>2. EarliestOf(x, A)
      BY DEF SumsUp
    <3>3. EarliestOf(y, B)
      BY DEF EarliestOf
    <3>4. m.root = EarlierRoot(x, y) /\ x \in 0 .. Now /\ y \in 0 .. Now
      BY <1>1, <2>1 DEF Added
    <3> HIDE DEF A, B, m, x, y
    <3>5. EarlierRoot(x, y) \in 0 .. Now /\ EarliestOf(EarlierRoot(x, y), A \cup B)
      BY <3>1, <3>2, <3>3, <3>4, RootOfBoth
    <3> QED BY <3>1, <3>4, <3>5
  <2>2. CASE s \notin Roots
    <3>1. m.of \cap Roots = d.of \cap Roots /\ m.root = d.root
      BY <1>3, <2>2 DEF Added
    <3> QED BY <1>1, <3>1 DEF SumsUp
  <2> QED BY <2>1, <2>2
<1>7. m \in Summary
  <2>1. Lesser(d.start, Start[s]) \in 0 .. Unset /\ Greater(d.end, End[s]) \in 0 .. Now
    BY <1>1 DEF Lesser, Greater
  <2>2. d.spans + 1 \in Nat /\ d.errors + (IF s \in Errors THEN 1 ELSE 0) \in Nat
    BY <1>1
  <2>3. (IF s \in Roots THEN EarlierRoot(d.root, Start[s]) ELSE d.root) \in 0 .. Now
    BY <1>6 DEF Added
  <2>4. d.of \cup {s} \in SUBSET Spans
    BY <1>1
  <2> QED BY <2>1, <2>2, <2>3, <2>4 DEF Summary, Added
<1>8. \A u \in m.of : TraceOf[u] = TraceOf[s] /\ End[u] <= m.end
  <2>1. m.end = Greater(d.end, End[s]) /\ d.end \in Nat
    BY <1>1 DEF Added
  <2>2. \A u \in d.of : u \in Spans /\ TraceOf[u] = TraceOf[s] /\ End[u] <= d.end
    BY <1>1 DEF SumsUp
  <2> QED BY <1>3, <2>1, <2>2 DEF Greater
<1>9. m.spans = Cardinality(m.of) /\ m.errors = Cardinality(m.of \cap Errors)
  BY <1>4, <1>5 DEF Added
<1> QED BY <1>6, <1>7, <1>8, <1>9 DEF SumsUp

-----------------------------------------------------------------------------
(* Traces                                                                  *)

\* A span of a delta, a batch or a row is a span, of the trace it is kept for.
LEMMA TracesHold ==
  ASSUME TracesInv
  PROVE  /\ \A t \in DOMAIN deltas : t \in Traces /\ SumsUp(deltas[t], t) /\ deltas[t].of \subseteq Spans
         /\ \A t \in DOMAIN batch : t \in Traces /\ SumsUp(batch[t], t) /\ batch[t].of \subseteq Spans
         /\ \A t \in Traces : SumsUp(rows[t], t) /\ rows[t].of \subseteq Spans
         /\ \A t \in DOMAIN reading : /\ t \in DOMAIN batch /\ t \in Traces
                                      /\ SumsUp(reading[t], t) /\ reading[t].of \subseteq Spans
  BY DEF TracesInv, AllSumUp, ReadingHolds, SumsUp, Summary

LEMMA TracesInitially == TraceInit => TracesInv /\ MinutesInv
<1> SUFFICES ASSUME TraceInit PROVE TracesInv /\ MinutesInv
  OBVIOUS
<1>1. /\ DOMAIN deltas = {} /\ DOMAIN batch = {} /\ DOMAIN reading = {} /\ observed = {} /\ lost = {}
      /\ rows = [t \in Traces |-> Empty] /\ minute = 1
      /\ samples = [b \in Minutes |-> 0] /\ points = samples
  BY DEF TraceInit, NoFields
<1>2. \A t : SumsUp(Empty, t)
  BY EmptySumsUp
<1>3. AllSumUp
  BY <1>1, <1>2 DEF AllSumUp, SumsUp
<1>4. SpansPlaced
  BY <1>1 DEF SpansPlaced, InDelta, InBatch, InRow, Empty
<1>5. ReadingHolds
  BY <1>1 DEF ReadingHolds
<1>6. RequestsAreCounted
  <2>1. \A b : {s \in observed : Start[s] = b} = {}
    BY <1>1
  <2> QED BY <1>1, <2>1, FS_EmptySet DEF RequestsAreCounted
<1> QED BY <1>1, <1>3, <1>4, <1>5, <1>6 DEF TracesInv, MinutesInv

\* What leaves a place reaches another: the places after a step, when each
\* span not in the ones that changed stays where it is.
LEMMA ObserveKeeps ==
  ASSUME TracesInv, NEW s \in Spans, Observe(s)
  PROVE  TracesInv'
<1> DEFINE t == TraceOf[s]
<1>1. /\ s \notin observed /\ observed' = observed \cup {s}
      /\ UNCHANGED <<batch, reading, rows, lost>>
      /\ deltas' = With(deltas, t, Added(DeltaOf(t), s))
  BY DEF Observe
<1>2. t \in Traces
  BY TraceBounds
<1>3. SumsUp(DeltaOf(t), t) /\ s \notin DeltaOf(t).of
  <2>1. CASE t \in DOMAIN deltas
    <3>1. DeltaOf(t) = deltas[t]
      BY <2>1 DEF DeltaOf
    <3>2. ~InDelta(s)
      BY <1>1 DEF TracesInv, SpansPlaced
    <3> QED BY <2>1, <3>1, <3>2, TracesHold DEF InDelta
  <2>2. CASE t \notin DOMAIN deltas
    <3>1. DeltaOf(t) = [Empty EXCEPT !.start = Unset]
      BY <2>2 DEF DeltaOf
    <3>2. SumsUp([Empty EXCEPT !.start = Unset], t)
      BY EmptySumsUp
    <3>3. [Empty EXCEPT !.start = Unset].of = {}
      BY DEF Empty
    <3> QED BY <3>1, <3>2, <3>3
  <2> QED BY <2>1, <2>2
<1>4. SumsUp(Added(DeltaOf(t), s), t)
  BY <1>3, AddedSumsUp
<1>5. /\ DOMAIN deltas' = DOMAIN deltas \cup {t} /\ deltas'[t] = Added(DeltaOf(t), s)
      /\ \A u \in DOMAIN deltas \ {t} : deltas'[u] = deltas[u]
  BY <1>1 DEF With
<1>6. Added(DeltaOf(t), s).of = DeltaOf(t).of \cup {s}
  BY DEF Added
<1>7. t \in DOMAIN deltas => DeltaOf(t) = deltas[t]
  BY DEF DeltaOf
<1>8. t \notin DOMAIN deltas => DeltaOf(t).of = {}
  BY DEF DeltaOf, Empty
<1> HIDE DEF t
<1>9. \A x \in Spans : InDelta(x)' <=> InDelta(x) \/ x = s
  <2>1. ASSUME NEW x \in Spans, InDelta(x)' PROVE InDelta(x) \/ x = s
    BY <1>5, <1>6, <1>7, <1>8, <2>1 DEF InDelta
  <2>2. ASSUME NEW x \in Spans, InDelta(x) PROVE InDelta(x)'
    BY <1>5, <1>6, <1>7, <1>8, <2>2 DEF InDelta
  <2>3. InDelta(s)'
    BY <1>5, <1>6 DEF InDelta
  <2> QED BY <2>1, <2>2, <2>3
<1>10. \A x \in Spans : (InBatch(x)' <=> InBatch(x)) /\ (InRow(x)' <=> InRow(x))
  BY <1>1 DEF InBatch, InRow
<1>11. AllSumUp'
  <2>1. DOMAIN deltas' \subseteq Traces /\ \A u \in DOMAIN deltas' : SumsUp(deltas'[u], u)
    BY <1>2, <1>4, <1>5, TracesHold
  <2>2. AllSumUp
    BY DEF TracesInv
  <2> QED BY <1>1, <2>1, <2>2 DEF AllSumUp
<1>12. SpansPlaced'
  <2>1. SpansPlaced
    BY DEF TracesInv
  <2>2. observed' = observed \cup {s} /\ lost' = lost /\ s \notin observed
    BY <1>1
  <2> QED BY <1>9, <1>10, <2>1, <2>2 DEF SpansPlaced
<1>13. ReadingHolds'
  <2>1. ReadingHolds
    BY DEF TracesInv
  <2> QED BY <1>1, <2>1 DEF ReadingHolds
<1> QED BY <1>11, <1>12, <1>13 DEF TracesInv

LEMMA TakeDeltasKeeps ==
  ASSUME TracesInv, TakeDeltas
  PROVE  TracesInv'
<1> DEFINE some == {u \in DOMAIN deltas : deltas[u].spans > 0}
<1>1. /\ DOMAIN batch = {} /\ UNCHANGED <<observed, reading, rows, lost>>
      /\ batch' = [t \in some |-> deltas[t]]
      /\ deltas' = [t \in DOMAIN deltas |-> Empty]
  BY DEF TakeDeltas, NoFields, Reset
<1>2. \A t \in DOMAIN deltas \ some : deltas[t].of = {}
  <2> SUFFICES ASSUME NEW t \in DOMAIN deltas \ some PROVE deltas[t].of = {}
    OBVIOUS
  <2>1. deltas[t].of \in SUBSET Spans /\ deltas[t].spans = Cardinality(deltas[t].of) /\ ~(deltas[t].spans > 0)
    BY TracesHold DEF SumsUp
  <2>2. IsFiniteSet(deltas[t].of) /\ Cardinality(deltas[t].of) \in Nat
    BY <2>1, SpansAreFinite
  <2>3. Cardinality(deltas[t].of) = 0
    BY <2>1, <2>2
  <2> QED BY <2>2, <2>3, FS_EmptySet
<1>3. DOMAIN reading = {}
  BY <1>1 DEF TracesInv, ReadingHolds
<1>4. \A x \in Spans : /\ ~InDelta(x)' /\ ~InBatch(x)
                       /\ InBatch(x)' <=> InDelta(x)
                       /\ InRow(x)' <=> InRow(x)
  BY <1>1, <1>2 DEF InDelta, InBatch, InRow, Empty
<1>5. AllSumUp'
  <2>1. DOMAIN deltas' \subseteq Traces /\ \A u \in DOMAIN deltas' : SumsUp(deltas'[u], u)
    BY <1>1, TracesHold, EmptySumsUp
  <2>2. DOMAIN batch' \subseteq Traces /\ \A u \in DOMAIN batch' : SumsUp(batch'[u], u)
    BY <1>1, TracesHold
  <2>3. AllSumUp
    BY DEF TracesInv
  <2> QED BY <1>1, <2>1, <2>2, <2>3 DEF AllSumUp
<1>6. SpansPlaced'
  <2>1. SpansPlaced /\ UNCHANGED <<observed, lost>>
    BY <1>1 DEF TracesInv
  <2> QED BY <1>4, <2>1 DEF SpansPlaced
<1>7. ReadingHolds'
  BY <1>1, <1>3 DEF ReadingHolds
<1> QED BY <1>5, <1>6, <1>7 DEF TracesInv

LEMMA ReadRowKeeps ==
  ASSUME TracesInv, NEW t \in Traces, ReadRow(t)
  PROVE  TracesInv'
<1>1. /\ t \in DOMAIN batch /\ DOMAIN reading = {} /\ reading' = With(reading, t, rows[t])
      /\ UNCHANGED <<observed, deltas, batch, rows, lost>>
  BY DEF ReadRow, NoFields
<1>2. DOMAIN reading' = {t} /\ reading'[t] = rows[t]
  BY <1>1 DEF With
<1>3. ReadingHolds'
  <2>1. SumsUp(rows[t], t) /\ rows' = rows /\ batch' = batch
    BY <1>1, TracesHold
  <2>2. \A u \in DOMAIN reading' : u = t /\ reading'[u] = rows'[u] /\ SumsUp(reading'[u], u)
    BY <1>2, <2>1
  <2> QED BY <1>1, <2>1, <2>2 DEF ReadingHolds
<1>4. AllSumUp'
  BY <1>1 DEF TracesInv, AllSumUp
<1>5. SpansPlaced'
  BY <1>1 DEF TracesInv, SpansPlaced, InDelta, InBatch, InRow
<1> QED BY <1>3, <1>4, <1>5 DEF TracesInv

\* A trace that leaves a flush may evict traces that have nothing to write.
LEMMA LeaveKeeps ==
  ASSUME TracesInv, NEW t, Leave(t)
  PROVE  /\ DOMAIN reading' = {} /\ DOMAIN batch' = DOMAIN batch \ {t}
         /\ \A u \in DOMAIN batch' : batch'[u] = batch[u]
         /\ DOMAIN deltas' \subseteq DOMAIN deltas
         /\ \A u \in DOMAIN deltas' : deltas'[u] = deltas[u]
         /\ \A x \in Spans : InDelta(x)' <=> InDelta(x)
<1>1. DOMAIN reading' = {} /\ DOMAIN batch' = DOMAIN batch \ {t} /\ \A u \in DOMAIN batch' : batch'[u] = batch[u]
  BY DEF Leave, Without, NoFields
<1>2. deltas' = deltas \/ \E out \in SUBSET Clean : deltas' = [u \in DOMAIN deltas \ out |-> deltas[u]]
  BY DEF Leave, EvictTraces
<1>3. \A u \in Clean : deltas[u].of = {}
  <2> SUFFICES ASSUME NEW u \in Clean PROVE deltas[u].of = {}
    OBVIOUS
  <2>1. deltas[u].of \in SUBSET Spans /\ deltas[u].spans = Cardinality(deltas[u].of) /\ deltas[u].spans = 0
    BY TracesHold DEF SumsUp, Clean
  <2> QED BY <2>1, SpansAreFinite, FS_EmptySet
<1>4. CASE deltas' = deltas
  BY <1>1, <1>4 DEF InDelta
<1>5. ASSUME NEW out \in SUBSET Clean, deltas' = [u \in DOMAIN deltas \ out |-> deltas[u]]
      PROVE  /\ DOMAIN deltas' \subseteq DOMAIN deltas
             /\ \A u \in DOMAIN deltas' : deltas'[u] = deltas[u]
             /\ \A x \in Spans : InDelta(x)' <=> InDelta(x)
  BY <1>3, <1>5 DEF InDelta
<1> QED BY <1>1, <1>2, <1>4, <1>5

LEMMA WriteRowKeeps ==
  ASSUME TracesInv, NEW t, WriteRow(t)
  PROVE  TracesInv'
<1>1. /\ t \in DOMAIN reading /\ Leave(t) /\ UNCHANGED observed
      /\ rows' = [rows EXCEPT ![t] = Merged(reading[t], batch[t])] /\ lost' = lost \ reading[t].of
  BY DEF WriteRow
<1>2. t \in DOMAIN batch /\ t \in Traces /\ rows \in [Traces -> Summary]
  BY <1>1, TracesHold DEF TracesInv, AllSumUp
<1>3. rows'[t] = Merged(reading[t], batch[t]) /\ \A u \in Traces \ {t} : rows'[u] = rows[u]
  BY <1>1, <1>2
<1>4. reading[t].of = rows[t].of \/ (rows[t].of = {} /\ reading[t].of \subseteq lost)
  BY <1>1 DEF TracesInv, ReadingHolds, Empty
<1>5. SpansPlaced
  BY DEF TracesInv
<1>6. reading[t].of \cap batch[t].of = {}
  <2> SUFFICES ASSUME NEW x \in reading[t].of, x \in batch[t].of PROVE FALSE
    OBVIOUS
  <2>1. x \in Spans /\ InBatch(x) /\ (InRow(x) \/ x \in lost)
    BY <1>1, <1>2, <1>4, TracesHold DEF InBatch, InRow
  <2> QED BY <1>5, <2>1 DEF SpansPlaced
<1>7. SumsUp(rows'[t], t)
  <2>1. SumsUp(reading[t], t) /\ SumsUp(batch[t], t)
    BY <1>1, TracesHold
  <2>2. SumsUp(Merged(reading[t], batch[t]), t)
    BY <1>6, <2>1, MergedSumsUp
  <2> QED BY <1>3, <2>2
<1>8. rows'[t].of = reading[t].of \cup batch[t].of
  BY <1>3 DEF Merged
<1>9. /\ DOMAIN reading' = {} /\ DOMAIN batch' = DOMAIN batch \ {t}
      /\ \A u \in DOMAIN batch' : batch'[u] = batch[u]
      /\ DOMAIN deltas' \subseteq DOMAIN deltas
      /\ \A u \in DOMAIN deltas' : deltas'[u] = deltas[u]
      /\ \A x \in Spans : InDelta(x)' <=> InDelta(x)
  BY <1>1, LeaveKeeps
<1>10. AllSumUp'
  <2>1. DOMAIN deltas' \subseteq Traces /\ \A u \in DOMAIN deltas' : SumsUp(deltas'[u], u)
    BY <1>9, TracesHold
  <2>2. DOMAIN batch' \subseteq Traces /\ \A u \in DOMAIN batch' : SumsUp(batch'[u], u)
    BY <1>9, TracesHold
  <2>3. \A u \in Traces : SumsUp(rows'[u], u)
    BY <1>3, <1>7, TracesHold
  <2>4. rows' \in [Traces -> Summary]
    <3>1. rows'[t] \in Summary
      BY <1>7 DEF SumsUp
    <3> QED BY <1>1, <1>2, <1>3, <3>1
  <2> QED BY <2>1, <2>2, <2>3, <2>4 DEF AllSumUp
<1>11. \A x \in Spans : (x \in batch[t].of => InBatch(x)) /\ (InBatch(x) <=> InBatch(x)' \/ x \in batch[t].of)
  BY <1>2, <1>9 DEF InBatch
<1>12. \A x \in Spans : InBatch(x)' => x \notin batch[t].of
  <2> SUFFICES ASSUME NEW x \in Spans, InBatch(x)', x \in batch[t].of PROVE FALSE
    OBVIOUS
  <2>1. PICK u \in DOMAIN batch \ {t} : x \in batch[u].of
    BY <1>9 DEF InBatch
  <2>2. TraceOf[x] = u /\ TraceOf[x] = t
    <3>1. SumsUp(batch[u], u) /\ SumsUp(batch[t], t)
      BY <1>2, <2>1, TracesHold
    <3> QED BY <2>1, <3>1 DEF SumsUp
  <2> QED BY <2>1, <2>2
<1>13. \A x \in Spans : InRow(x)' <=> InRow(x) \/ x \in batch[t].of \/ x \in reading[t].of
  <2>1. ASSUME NEW x \in Spans, InRow(x)' PROVE InRow(x) \/ x \in batch[t].of \/ x \in reading[t].of
    BY <1>3, <1>8, <2>1 DEF InRow
  <2>2. ASSUME NEW x \in Spans, x \in batch[t].of \/ x \in reading[t].of PROVE InRow(x)'
    BY <1>2, <1>8, <2>2 DEF InRow
  <2>3. ASSUME NEW x \in Spans, InRow(x) PROVE InRow(x)'
    <3>1. PICK u \in Traces : x \in rows[u].of
      BY <2>3 DEF InRow
    <3>2. CASE u = t
      BY <1>2, <1>4, <1>8, <3>1, <3>2 DEF InRow
    <3>3. CASE u # t
      BY <1>3, <3>1, <3>3 DEF InRow
    <3> QED BY <3>2, <3>3
  <2> QED BY <2>1, <2>2, <2>3
<1>14. \A x \in Spans : x \in reading[t].of => InRow(x) \/ x \in lost
  BY <1>2, <1>4 DEF InRow
<1>15. SpansPlaced'
  BY <1>1, <1>5, <1>9, <1>11, <1>12, <1>13, <1>14 DEF SpansPlaced
<1>16. ReadingHolds'
  BY <1>9 DEF ReadingHolds
<1> QED BY <1>10, <1>15, <1>16 DEF TracesInv

LEMMA FlushFailsKeeps ==
  ASSUME TracesInv, NEW t, FlushFails(t)
  PROVE  TracesInv'
<1>1. t \in DOMAIN batch /\ Leave(t) /\ UNCHANGED <<observed, rows>> /\ lost' = lost \cup batch[t].of
  BY DEF FlushFails
<1>2. /\ DOMAIN reading' = {} /\ DOMAIN batch' = DOMAIN batch \ {t}
      /\ \A u \in DOMAIN batch' : batch'[u] = batch[u]
      /\ DOMAIN deltas' \subseteq DOMAIN deltas
      /\ \A u \in DOMAIN deltas' : deltas'[u] = deltas[u]
      /\ \A x \in Spans : InDelta(x)' <=> InDelta(x)
  BY <1>1, LeaveKeeps
<1>3. AllSumUp'
  <2>1. DOMAIN deltas' \subseteq Traces /\ \A u \in DOMAIN deltas' : SumsUp(deltas'[u], u)
    BY <1>2, TracesHold
  <2>2. DOMAIN batch' \subseteq Traces /\ \A u \in DOMAIN batch' : SumsUp(batch'[u], u)
    BY <1>2, TracesHold
  <2>3. AllSumUp
    BY DEF TracesInv
  <2> QED BY <1>1, <2>1, <2>2, <2>3 DEF AllSumUp
<1>4. \A x \in Spans : (InBatch(x) <=> InBatch(x)' \/ x \in batch[t].of)
  BY <1>1, <1>2 DEF InBatch
<1>5. \A x \in Spans : InBatch(x)' => x \notin batch[t].of
  <2> SUFFICES ASSUME NEW x \in Spans, InBatch(x)', x \in batch[t].of PROVE FALSE
    OBVIOUS
  <2>1. PICK u \in DOMAIN batch \ {t} : x \in batch[u].of
    BY <1>2 DEF InBatch
  <2>2. TraceOf[x] = u /\ TraceOf[x] = t
    <3>1. SumsUp(batch[u], u) /\ SumsUp(batch[t], t)
      BY <1>1, <2>1, TracesHold
    <3> QED BY <2>1, <3>1 DEF SumsUp
  <2> QED BY <2>1, <2>2
<1>6. \A x \in Spans : InRow(x)' <=> InRow(x)
  BY <1>1 DEF InRow
<1>7. SpansPlaced'
  <2>1. SpansPlaced /\ batch[t].of \subseteq Spans
    BY <1>1, TracesHold DEF TracesInv
  <2> QED BY <1>1, <1>2, <1>4, <1>5, <1>6, <2>1 DEF SpansPlaced
<1>8. ReadingHolds'
  BY <1>2 DEF ReadingHolds
<1> QED BY <1>3, <1>7, <1>8 DEF TracesInv

LEMMA RetentionOfTracesKeeps ==
  ASSUME TracesInv, Retention
  PROVE  TracesInv'
<1> DEFINE old == {t \in Traces : rows[t].spans > 0 /\ rows[t].start = 0}
<1>1. /\ rows' = [t \in Traces |-> IF t \in old THEN Empty ELSE rows[t]]
      /\ lost' = lost \cup UNION {rows[t].of : t \in old}
      /\ UNCHANGED <<observed, deltas, batch, reading>>
  BY DEF Retention
<1>2. \A t \in Traces : rows'[t] = IF t \in old THEN Empty ELSE rows[t]
  BY <1>1
<1>3. AllSumUp'
  <2>1. \A t \in Traces : SumsUp(rows'[t], t)
    BY <1>2, TracesHold, EmptySumsUp
  <2>2. rows' \in [Traces -> Summary]
    BY <1>1, <2>1 DEF SumsUp
  <2>3. AllSumUp
    BY DEF TracesInv
  <2> QED BY <1>1, <2>1, <2>2, <2>3 DEF AllSumUp
<1>4. \A x \in Spans : /\ InDelta(x)' <=> InDelta(x)
                       /\ InBatch(x)' <=> InBatch(x)
  BY <1>1 DEF InDelta, InBatch
<1> DEFINE Dropped(x) == \E t \in old : x \in rows[t].of
<1>5. \A x \in Spans : (InRow(x) <=> InRow(x)' \/ Dropped(x)) /\ (Dropped(x) => ~InRow(x)')
  <2>1. ASSUME NEW x \in Spans, InRow(x)' PROVE InRow(x) /\ ~Dropped(x)
    <3>1. PICK t \in Traces \ old : x \in rows[t].of
      BY <1>2, <2>1 DEF InRow, Empty
    <3>2. ASSUME NEW u \in old, x \in rows[u].of PROVE FALSE
      <4>1. TraceOf[x] = u /\ TraceOf[x] = t
        BY <3>1, <3>2, TracesHold DEF SumsUp
      <4> QED BY <3>1, <4>1
    <3> QED BY <3>1, <3>2 DEF InRow
  <2>2. ASSUME NEW x \in Spans, InRow(x), ~Dropped(x) PROVE InRow(x)'
    BY <1>2, <2>2 DEF InRow
  <2>3. ASSUME NEW x \in Spans, Dropped(x) PROVE InRow(x)
    BY <2>3 DEF InRow
  <2> QED BY <2>1, <2>2, <2>3
<1>6. lost' \subseteq Spans /\ \A x \in Spans : x \in lost' <=> x \in lost \/ Dropped(x)
  <2>1. lost \subseteq Spans
    BY DEF TracesInv, SpansPlaced
  <2> QED BY <1>1, <2>1, TracesHold
<1> HIDE DEF old, Dropped
<1>7. SpansPlaced'
  <2>1. SpansPlaced /\ UNCHANGED observed
    BY <1>1 DEF TracesInv
  <2> QED BY <1>4, <1>5, <1>6, <2>1 DEF SpansPlaced
<1>8. ReadingHolds'
  <2> SUFFICES ASSUME NEW t \in DOMAIN reading
               PROVE  /\ t \in DOMAIN batch /\ SumsUp(reading[t], t)
                      /\ reading[t] = rows'[t] \/ (rows'[t] = Empty /\ reading[t].of \subseteq lost')
    BY <1>1 DEF ReadingHolds
  <2>1. t \in DOMAIN batch /\ t \in Traces /\ SumsUp(reading[t], t)
    BY TracesHold
  <2>2. reading[t] = rows[t] \/ (rows[t] = Empty /\ reading[t].of \subseteq lost)
    BY DEF TracesInv, ReadingHolds
  <2>3. CASE t \in old
    <3>1. rows[t].spans > 0 /\ Empty.spans = 0 /\ rows'[t] = Empty
      BY <1>2, <2>1, <2>3 DEF old, Empty
    <3>2. reading[t] = rows[t]
      BY <2>2, <3>1
    <3>3. rows[t].of \subseteq lost'
      BY <1>1, <2>3
    <3> QED BY <2>1, <3>1, <3>2, <3>3
  <2>4. CASE t \notin old
    <3>1. rows'[t] = rows[t] /\ lost \subseteq lost'
      BY <1>1, <1>2, <2>1, <2>4
    <3> QED BY <2>1, <2>2, <3>1
  <2> QED BY <2>3, <2>4
<1> QED BY <1>3, <1>7, <1>8 DEF TracesInv

LEMMA CrashApmKeeps ==
  ASSUME TracesInv, CrashApm
  PROVE  TracesInv'
<1>1. /\ lost' = lost \cup (UNION {deltas[t].of : t \in DOMAIN deltas}) \cup (UNION {batch[t].of : t \in DOMAIN batch})
      /\ deltas' = [t \in {u \in Traces : rows[u].spans > 0} |-> Empty]
      /\ DOMAIN batch' = {} /\ DOMAIN reading' = {} /\ UNCHANGED <<observed, rows>>
  BY DEF CrashApm, NoFields
<1>2. lost' \subseteq Spans /\ \A x \in Spans : x \in lost' <=> x \in lost \/ InDelta(x) \/ InBatch(x)
  <2>1. lost \subseteq Spans
    BY DEF TracesInv, SpansPlaced
  <2>2. \A x : x \in lost' <=> x \in lost \/ InDelta(x) \/ InBatch(x)
    <3> DEFINE D == UNION {deltas[t].of : t \in DOMAIN deltas}
               B == UNION {batch[t].of : t \in DOMAIN batch}
    <3>1. \A x : (x \in D <=> InDelta(x)) /\ (x \in B <=> InBatch(x))
      BY DEF InDelta, InBatch
    <3>2. lost' = lost \cup D \cup B
      BY <1>1
    <3> HIDE DEF D, B
    <3> QED BY <3>1, <3>2
  <2>3. \A x : InDelta(x) \/ InBatch(x) => x \in Spans
    BY TracesHold DEF InDelta, InBatch
  <2> QED BY <2>1, <2>2, <2>3
<1>3. \A x \in Spans : ~InDelta(x)' /\ ~InBatch(x)' /\ (InRow(x)' <=> InRow(x))
  BY <1>1 DEF InDelta, InBatch, InRow, Empty
<1>4. AllSumUp'
  <2>1. DOMAIN deltas' \subseteq Traces /\ \A u \in DOMAIN deltas' : SumsUp(deltas'[u], u)
    BY <1>1, EmptySumsUp
  <2>2. AllSumUp
    BY DEF TracesInv
  <2> QED BY <1>1, <2>1, <2>2 DEF AllSumUp
<1>5. SpansPlaced'
  <2>1. SpansPlaced /\ UNCHANGED observed
    BY <1>1 DEF TracesInv
  <2> QED BY <1>2, <1>3, <2>1 DEF SpansPlaced
<1>6. ReadingHolds'
  BY <1>1 DEF ReadingHolds
<1> QED BY <1>4, <1>5, <1>6 DEF TracesInv

LEMMA TracesStep == TracesInv /\ [TraceNext]_traceVars => TracesInv'
<1> SUFFICES ASSUME TracesInv, [TraceNext]_traceVars PROVE TracesInv'
  OBVIOUS
<1>1. CASE UNCHANGED <<observed, deltas, batch, reading, rows, lost>>
  <2>1. AllSumUp'
    BY <1>1 DEF TracesInv, AllSumUp
  <2>2. SpansPlaced'
    BY <1>1 DEF TracesInv, SpansPlaced, InDelta, InBatch, InRow
  <2>3. ReadingHolds'
    BY <1>1 DEF TracesInv, ReadingHolds
  <2> QED BY <2>1, <2>2, <2>3 DEF TracesInv
<1>2. MinutePasses \/ Aggregate \/ UNCHANGED traceVars => TracesInv'
  BY <1>1 DEF MinutePasses, Aggregate, traceVars
<1>3. ASSUME NEW t \in Traces, ReadRow(t) \/ WriteRow(t) \/ FlushFails(t) PROVE TracesInv'
  BY <1>3, ReadRowKeeps, WriteRowKeeps, FlushFailsKeeps
<1>4. ASSUME NEW s \in Spans, Observe(s) PROVE TracesInv'
  BY <1>4, ObserveKeeps
<1> QED
  BY <1>2, <1>3, <1>4, TakeDeltasKeeps, RetentionOfTracesKeeps, CrashApmKeeps DEF TraceNext

-----------------------------------------------------------------------------
(* The requests of a minute                                                *)

LEMMA ObserveKeepsMinutes ==
  ASSUME MinutesInv, NEW s \in Spans, Observe(s)
  PROVE  MinutesInv'
<1> DEFINE b == Start[s]
           Seen(m) == {x \in observed : Start[x] = m}
<1>1. /\ s \notin observed /\ b <= minute /\ observed' = observed \cup {s}
      /\ samples' = [samples EXCEPT ![b] = @ + 1] /\ UNCHANGED <<minute, points>>
      /\ late' = IF b < minute /\ points[b] > 0 THEN late \cup {b} ELSE late
  BY DEF Observe
<1>2. b \in Minutes /\ b \in Nat
  BY TraceBounds DEF Minutes
<1>3. minute \in Nat /\ samples \in [Minutes -> Nat] /\ points \in [Minutes -> Nat] /\ observed \subseteq Spans
  BY DEF MinutesInv
<1>4. samples' \in [Minutes -> Nat] /\ samples'[b] = samples[b] + 1 /\ \A m \in Minutes \ {b} : samples'[m] = samples[m]
  BY <1>1, <1>2, <1>3
<1>5. b \in Minutes \ late' => b \notin late /\ points[b] = 0
  <2>1. \A m \in Minutes : m >= minute => points[m] = 0
    BY DEF MinutesInv
  <2>2. points[b] \in Nat
    BY <1>2, <1>3
  <2> QED BY <1>1, <1>2, <1>3, <2>1, <2>2
<1>6. \A m \in Minutes \ late' : m \notin late
  BY <1>1
<1>7. Cardinality(Seen(b)') = Cardinality(Seen(b)) + 1 /\ Cardinality(Seen(b)) \in Nat
  <2>1. Seen(b)' = Seen(b) \cup {s} /\ s \notin Seen(b) /\ Seen(b) \in SUBSET Spans
    BY <1>1, <1>3
  <2>2. IsFiniteSet(Seen(b)) /\ Cardinality(Seen(b)) \in Nat
    BY <2>1, SpansAreFinite
  <2>3. Cardinality(Seen(b) \cup {s}) = Cardinality(Seen(b)) + 1
    BY <2>1, <2>2, FS_AddElement
  <2> QED BY <2>1, <2>2, <2>3
<1>8. \A m \in Minutes \ {b} : Seen(m)' = Seen(m)
  BY <1>1
<1>9. \A m \in Minutes \ late' : points[m] > 0 => samples'[m] = 0
  BY <1>2, <1>4, <1>5, <1>6 DEF MinutesInv
<1>10. RequestsAreCounted'
  <2> SUFFICES ASSUME NEW m \in Minutes \ late'
               PROVE  points[m] + samples'[m] = Cardinality(Seen(m)')
    BY <1>1 DEF RequestsAreCounted
  <2>1. points[m] + samples[m] = Cardinality(Seen(m))
    BY <1>6 DEF MinutesInv, RequestsAreCounted
  <2> HIDE DEF Seen
  <2>2. CASE m = b
    BY <1>2, <1>3, <1>4, <1>7, <2>1, <2>2
  <2>3. CASE m # b
    BY <1>4, <1>8, <2>1, <2>3
  <2> QED BY <2>2, <2>3
<1>11. \A m \in Minutes : m >= minute => points[m] = 0
  BY DEF MinutesInv
<1>12. observed' \subseteq Spans
  BY <1>1, <1>3
<1> QED BY <1>1, <1>3, <1>4, <1>9, <1>10, <1>11, <1>12 DEF MinutesInv

LEMMA AggregateKeepsMinutes ==
  ASSUME MinutesInv, Aggregate
  PROVE  MinutesInv'
<1>1. /\ points' = [b \in Minutes |-> IF Over(b) THEN samples[b] ELSE points[b]]
      /\ samples' = [b \in Minutes |-> IF Over(b) THEN 0 ELSE samples[b]]
      /\ UNCHANGED <<minute, observed, late>>
  BY DEF Aggregate
<1>2. minute \in Nat /\ samples \in [Minutes -> Nat] /\ points \in [Minutes -> Nat] /\ observed \subseteq Spans
  BY DEF MinutesInv
<1>3. samples' \in [Minutes -> Nat] /\ points' \in [Minutes -> Nat]
  BY <1>1, <1>2
<1>4. \A b \in Minutes : b >= minute => points'[b] = 0
  BY <1>1, <1>2 DEF MinutesInv, Over, Minutes
<1>5. \A b \in Minutes \ late : points'[b] > 0 => samples'[b] = 0
  BY <1>1, <1>2 DEF MinutesInv
<1>6. \A b \in Minutes \ late : points'[b] + samples'[b] = points[b] + samples[b]
  <2> SUFFICES ASSUME NEW b \in Minutes \ late PROVE points'[b] + samples'[b] = points[b] + samples[b]
    OBVIOUS
  <2>1. points[b] \in Nat /\ samples[b] \in Nat /\ (points[b] > 0 => samples[b] = 0)
    BY <1>2 DEF MinutesInv
  <2>2. Over(b) => points[b] = 0
    BY <2>1 DEF Over
  <2> QED BY <1>1, <2>1, <2>2
<1>7. RequestsAreCounted'
  BY <1>1, <1>6 DEF MinutesInv, RequestsAreCounted
<1> QED BY <1>1, <1>2, <1>3, <1>4, <1>5, <1>7 DEF MinutesInv

LEMMA CrashKeepsMinutes ==
  ASSUME MinutesInv, CrashApm
  PROVE  MinutesInv'
<1>1. /\ late' = late \cup {b \in Minutes : samples[b] > 0} /\ samples' = [b \in Minutes |-> 0]
      /\ UNCHANGED <<minute, observed, points>>
  BY DEF CrashApm
<1>2. /\ minute \in Nat /\ samples \in [Minutes -> Nat] /\ points \in [Minutes -> Nat] /\ observed \subseteq Spans
      /\ \A b \in Minutes : b >= minute => points[b] = 0
  BY DEF MinutesInv
<1>3. samples' \in [Minutes -> Nat] /\ \A b \in Minutes : samples'[b] = 0
  BY <1>1
<1>4. \A b \in Minutes \ late' : b \in Minutes \ late /\ samples[b] = 0
  BY <1>1, <1>2
<1>5. RequestsAreCounted'
  BY <1>1, <1>3, <1>4 DEF MinutesInv, RequestsAreCounted
<1> QED BY <1>1, <1>2, <1>3, <1>5 DEF MinutesInv

LEMMA MinutesStep == MinutesInv /\ [TraceNext]_traceVars => MinutesInv'
<1> SUFFICES ASSUME MinutesInv, [TraceNext]_traceVars PROVE MinutesInv'
  OBVIOUS
<1>1. CASE UNCHANGED <<minute, observed, samples, points, late>>
  BY <1>1 DEF MinutesInv, RequestsAreCounted
<1>2. CASE MinutePasses
  <2>1. minute' = minute + 1 /\ UNCHANGED <<observed, samples, points, late>>
    BY <1>2 DEF MinutePasses, redVars
  <2>2. RequestsAreCounted'
    BY <2>1 DEF MinutesInv, RequestsAreCounted
  <2>3. minute' \in Nat /\ \A b \in Minutes : b >= minute' => b >= minute
    BY <2>1 DEF MinutesInv, Minutes
  <2> QED BY <2>1, <2>2, <2>3 DEF MinutesInv
<1>3. ASSUME NEW t \in Traces, ReadRow(t) \/ WriteRow(t) \/ FlushFails(t) PROVE MinutesInv'
  BY <1>1, <1>3 DEF ReadRow, WriteRow, FlushFails, redVars
<1>4. TakeDeltas \/ Retention \/ UNCHANGED traceVars => MinutesInv'
  BY <1>1 DEF TakeDeltas, Retention, redVars, traceVars
<1>5. ASSUME NEW s \in Spans, Observe(s) PROVE MinutesInv'
  BY <1>5, ObserveKeepsMinutes
<1> QED
  BY <1>2, <1>3, <1>4, <1>5, AggregateKeepsMinutes, CrashKeepsMinutes DEF TraceNext

\* One of four booleans.
LEMMA OneOfFour ==
  ASSUME NEW a \in BOOLEAN, NEW b \in BOOLEAN, NEW c \in BOOLEAN, NEW d \in BOOLEAN,
         a \/ b \/ c \/ d,
         ~(a /\ b), ~(a /\ c), ~(a /\ d), ~(b /\ c), ~(b /\ d), ~(c /\ d)
  PROVE  Exactly({p \in {<<"delta", a>>, <<"batch", b>>, <<"row", c>>, <<"lost", d>>} : p[2]}, 1)
<1> DEFINE w == <<"delta", a>>  x == <<"batch", b>>  y == <<"row", c>>  z == <<"lost", d>>
           S == {p \in {w, x, y, z} : p[2]}
<1>1. w[2] = a /\ x[2] = b /\ y[2] = c /\ z[2] = d
  OBVIOUS
<1> HIDE DEF w, x, y, z
<1>2. S = {w} \/ S = {x} \/ S = {y} \/ S = {z}
  <2>1. CASE a
    BY <1>1, <2>1, Zenon
  <2>2. CASE b
    BY <1>1, <2>2, Zenon
  <2>3. CASE c
    BY <1>1, <2>3, Zenon
  <2>4. CASE d
    BY <1>1, <2>4, Zenon
  <2> QED BY <2>1, <2>2, <2>3, <2>4
<1>3. Cardinality(S) = 1
  BY <1>2, FS_Singleton
<1> USE DEF w, x, y, z
<1> QED BY <1>3 DEF Exactly

LEMMA TracesInvMeans == TracesInv => SummariesAreExact
<1> SUFFICES ASSUME TracesInv PROVE SummariesAreExact
  OBVIOUS
<1>1. ASSUME NEW s \in observed PROVE InOnePlace(s)
  <2> DEFINE a == InDelta(s)  b == InBatch(s)  c == InRow(s)  d == s \in lost
  <2>1. /\ a \/ b \/ c \/ d
        /\ ~(a /\ b) /\ ~(a /\ c) /\ ~(a /\ d) /\ ~(b /\ c) /\ ~(b /\ d) /\ ~(c /\ d)
    BY DEF TracesInv, SpansPlaced
  <2>2. a \in BOOLEAN /\ b \in BOOLEAN /\ c \in BOOLEAN /\ d \in BOOLEAN
    BY DEF InDelta, InBatch, InRow
  <2> HIDE DEF a, b, c, d
  <2>3. Exactly({p \in {<<"delta", a>>, <<"batch", b>>, <<"row", c>>, <<"lost", d>>} : p[2]}, 1)
    BY <2>1, <2>2, OneOfFour
  <2> USE DEF a, b, c, d
  <2> QED BY <2>3 DEF InOnePlace
<1>2. ASSUME NEW t \in Traces PROVE RowIsExact(t)
  BY TracesHold DEF SumsUp, EarliestOf, RowIsExact
<1> QED BY <1>1, <1>2 DEF SummariesAreExact

\* The summary of a trace is exact, and so are the requests of a minute that
\* no span came late to, whatever flushes, evictions, failures, crashes and
\* the retention do in between.
THEOREM SummariesStayExact == TraceSpec => [](SummariesAreExact /\ RequestsAreCounted)
<1>1. TraceInit => TracesInv /\ MinutesInv
  BY TracesInitially
<1>2. TracesInv /\ MinutesInv /\ [TraceNext]_traceVars => TracesInv' /\ MinutesInv'
  BY TracesStep, MinutesStep
<1>3. TracesInv /\ MinutesInv => SummariesAreExact /\ RequestsAreCounted
  BY TracesInvMeans DEF MinutesInv
<1> QED BY <1>1, <1>2, <1>3, PTL DEF TraceSpec

-----------------------------------------------------------------------------
(* Edges                                                                   *)

LEMMA EdgeBounds ==
    /\ LastMinute \in Nat /\ IsFiniteSet(Clients) /\ IsFiniteSet(Servers) /\ Clients \cap Servers = {}
    /\ \A s \in Servers : Peer[s] \in Clients /\ Service[s] \in Named
    /\ \A c \in Clients : At[c] \in 0 .. LastMinute
<1>1. Clients \subseteq AllSpans /\ Servers \subseteq AllSpans /\ IsFiniteSet(AllSpans)
  BY EdgesAssumption DEF AllSpans
<1>2. IsFiniteSet(Clients) /\ IsFiniteSet(Servers)
  BY <1>1, FS_Subset
<1> QED BY <1>1, <1>2, EdgesAssumption DEF Named

LEMMA KeysOfCalls ==
  ASSUME NEW c \in Clients, NEW dst \in Named \cup {Unknown}
  PROVE  /\ EdgeOf(c, dst) \in EdgeKeys
         /\ EdgeOf(c, dst).minute = At[c] /\ EdgeOf(c, dst).src = Service[c] /\ EdgeOf(c, dst).dst = dst
  BY EdgeBounds DEF EdgeKeys, EdgeOf

\* The values of a function on a finite set are finitely many.
LEMMA ImageIsFinite ==
  ASSUME NEW S, IsFiniteSet(S), NEW f, DOMAIN f = S, f = [x \in S |-> f[x]]
  PROVE  IsFiniteSet({f[x] : x \in S})
<1> DEFINE T == {f[x] : x \in S}
<1>1. f \in [S -> T]
  OBVIOUS
<1>2. f \in Surjection(S, T)
  BY <1>1 DEF Surjection
<1> QED BY <1>2, FS_Surjection

LEMMA EdgeKeysAreFinite == IsFiniteSet(EdgeKeys) /\ IsFiniteSet(Tokens)
<1> DEFINE Ms == 0 .. LastMinute  Srcs == {Service[c] : c \in Clients}  Dsts == Named \cup {Unknown}
           f == [x \in (Ms \X Srcs) \X Dsts |-> [minute |-> x[1][1], src |-> x[1][2], dst |-> x[2]]]
<1>1. IsFiniteSet(Ms) /\ IsFiniteSet(1 .. 2)
  <2>1. IsFiniteSet(0 .. LastMinute)
    BY EdgeBounds, FS_Interval
  <2>2. IsFiniteSet(1 .. 2)
    <3>1. 1 \in Int /\ 2 \in Int
      OBVIOUS
    <3> QED BY <3>1, FS_Interval, Zenon
  <2> QED BY <2>1, <2>2
<1>2. IsFiniteSet(Srcs)
  <2> DEFINE g == [c \in Clients |-> Service[c]]
  <2>1. IsFiniteSet(Clients) /\ DOMAIN g = Clients /\ g = [c \in Clients |-> g[c]]
    BY EdgeBounds
  <2>2. {g[c] : c \in Clients} = Srcs
    OBVIOUS
  <2> HIDE DEF g
  <2> QED BY <2>1, <2>2, ImageIsFinite
<1>3. IsFiniteSet(Dsts)
  <2> DEFINE g == [s \in Servers |-> Service[s]]
  <2>1. IsFiniteSet(Servers) /\ DOMAIN g = Servers /\ g = [s \in Servers |-> g[s]]
    BY EdgeBounds
  <2>2. {g[s] : s \in Servers} = Named
    BY DEF Named
  <2> HIDE DEF g
  <2>3. IsFiniteSet(Named)
    BY <2>1, <2>2, ImageIsFinite
  <2> QED BY <2>3, FS_AddElement
<1>4. IsFiniteSet((Ms \X Srcs) \X Dsts)
  BY <1>1, <1>2, <1>3, FS_Product
<1>5. IsFiniteSet({f[x] : x \in (Ms \X Srcs) \X Dsts})
  <2> DEFINE X == (Ms \X Srcs) \X Dsts
  <2>1. DOMAIN f = X /\ f = [x \in X |-> f[x]] /\ IsFiniteSet(X)
    BY <1>4
  <2> HIDE DEF X, f
  <2>2. IsFiniteSet({f[x] : x \in X})
    BY <2>1, ImageIsFinite
  <2> USE DEF X
  <2> QED BY <2>2
<1>6. EdgeKeys \subseteq {f[x] : x \in (Ms \X Srcs) \X Dsts}
  <2> SUFFICES ASSUME NEW k \in EdgeKeys PROVE \E x \in (Ms \X Srcs) \X Dsts : k = f[x]
    OBVIOUS
  <2>1. k.minute \in Ms /\ k.src \in Srcs /\ k.dst \in Dsts /\ k = [minute |-> k.minute, src |-> k.src, dst |-> k.dst]
    BY DEF EdgeKeys
  <2> DEFINE x == <<<<k.minute, k.src>>, k.dst>>
  <2>2. x \in (Ms \X Srcs) \X Dsts /\ f[x] = k
    BY <2>1
  <2> QED BY <2>2
<1>7. IsFiniteSet(EdgeKeys)
  BY <1>5, <1>6, FS_Subset
<1>8. IsFiniteSet(Tokens)
  BY <1>1, EdgeBounds, FS_Product DEF Tokens
<1> QED BY <1>7, <1>8

LEMMA TokensAreFinite ==
  ASSUME NEW S \in SUBSET Tokens
  PROVE  IsFiniteSet(S) /\ Cardinality(S) \in Nat /\ (Cardinality(S) = 0 <=> S = {})
  BY EdgeKeysAreFinite, FS_Subset, FS_CardinalityType, FS_EmptySet

LEMMA OrderedExists ==
  ASSUME NEW S, IsFiniteSet(S)
  PROVE  \E q : q \in Ordered(S)
<1>1. ExistsBijection(1 .. Cardinality(S), S)
  BY FS_CardinalityType
<1>2. PICK f \in Bijection(1 .. Cardinality(S), S) : TRUE
  BY <1>1 DEF ExistsBijection
<1>3. f \in Ordered(S)
  BY <1>2 DEF Bijection, Surjection, Ordered
<1> QED BY <1>3

\* The list a flush makes of a set has each of its elements once.
LEMMA OrderedLists ==
  ASSUME NEW S, IsFiniteSet(S), NEW q \in Ordered(S)
  PROVE  /\ q \in Seq(S)
         /\ \A x \in S : \E n \in DOMAIN q : q[n] = x
         /\ \A m, n \in DOMAIN q : m # n => q[m] # q[n]
<1> DEFINE N == Cardinality(S)
<1>1. N \in Nat
  BY FS_CardinalityType
<1>2. q \in [1 .. N -> S] /\ \A x \in S : \E n \in 1 .. N : q[n] = x
  BY DEF Ordered
<1>3. q \in Surjection(1 .. N, S)
  BY <1>2 DEF Surjection
<1>4. IsFiniteSet(1 .. N) /\ Cardinality(1 .. N) = N
  BY <1>1, FS_Interval
<1>5. q \in Injection(1 .. N, S)
  BY <1>3, <1>4, FS_Surjection
<1>6. \A m, n \in 1 .. N : q[m] = q[n] => m = n
  BY <1>5 DEF Injection, IsInjective
<1>7. DOMAIN q = 1 .. N /\ q \in Seq(S)
  <2> HIDE DEF N
  <2> QED BY <1>1, <1>2 DEF N
<1> QED BY <1>2, <1>6, <1>7

\* What is counted is one token more for each client of S.
LEMMA CountedGrows ==
  ASSUME EdgeTypes, NEW S \in SUBSET Clients, \A c \in S : counted[c] <= 1,
         counted' = [c \in Clients |-> IF c \in S THEN counted[c] + 1 ELSE counted[c]]
  PROVE  /\ counted' \in [Clients -> 0 .. 2]
         /\ {Token(c) : c \in S} \subseteq Tokens
         /\ {Token(c) : c \in S} \cap Counted = {}
         /\ Counted' = Counted \cup {Token(c) : c \in S}
<1>1. \A c \in Clients : counted[c] \in 0 .. 2
  BY DEF EdgeTypes
<1>2. counted' \in [Clients -> 0 .. 2]
  BY <1>1
<1>3. \A c \in S : Token(c) \in Tokens /\ Token(c)[1] = c /\ Token(c)[2] = counted[c] + 1
  BY <1>1 DEF Token, Tokens
<1>4. \A c \in S : Token(c) \notin Counted
  BY <1>1, <1>3 DEF Counted
<1>5. ASSUME NEW t \in Tokens PROVE t \in Counted' <=> t \in Counted \/ \E c \in S : t = Token(c)
  <2>1. PICK c \in Clients, n \in 1 .. 2 : t = <<c, n>>
    BY DEF Tokens
  <2>2. t[1] = c /\ t[2] = n
    BY <2>1
  <2>3. (t \in Counted <=> n <= counted[c]) /\ (t \in Counted' <=> n <= counted'[c])
    BY <2>2 DEF Counted
  <2>4. (\E d \in S : t = Token(d)) <=> c \in S /\ n = counted[c] + 1
    BY <2>1 DEF Token
  <2>5. counted'[c] = IF c \in S THEN counted[c] + 1 ELSE counted[c]
    OBVIOUS
  <2> QED BY <1>1, <2>3, <2>4, <2>5
<1>6. Counted' \subseteq Tokens /\ Counted \subseteq Tokens
  BY DEF Counted
<1>7. Counted' = Counted \cup {Token(c) : c \in S}
  BY <1>3, <1>5, <1>6
<1> QED BY <1>2, <1>3, <1>4, <1>7

\* What an eviction leaves was waiting.
LEMMA EvictLeaves ==
  ASSUME NEW cs, NEW ss, NEW m, Evict(cs, ss, m)
  PROVE  waitingServer' \subseteq cs /\ waitingClient' \subseteq ss
  BY DEF Evict, Recent

LEMMA EdgesInitially == EdgeInit => EdgesInv
<1> SUFFICES ASSUME EdgeInit PROVE EdgesInv
  OBVIOUS
<1>1. /\ clock = 0 /\ arrived = {} /\ waitingClient = {} /\ waitingServer = {} /\ toWrite = <<>>
      /\ edges = [k \in EdgeKeys |-> NoCalls] /\ edgeRows = edges
      /\ counted = [c \in Clients |-> 0] /\ serverFirst = {} /\ gone = {}
  BY DEF EdgeInit
<1>2. NoCalls \in Calls /\ NoCalls.calls = 0 /\ NoCalls.of = {}
  BY DEF NoCalls, Calls
<1>3. EdgeTypes
  BY <1>1, <1>2 DEF EdgeTypes
<1>4. AllTallied
  <2>1. \A k : Tallied(NoCalls, k)
    BY <1>2, FS_EmptySet DEF Tallied
  <2> QED BY <1>1, <2>1 DEF AllTallied
<1>5. EdgesApart /\ UnknownIsOver
  BY <1>1, <1>2 DEF EdgesApart, UnknownIsOver
<1>6. CountedSoFar
  BY <1>1 DEF CountedSoFar, EarlyCalls
<1>7. Counted = {} /\ InEdges = {} /\ Pending = {} /\ Written = {} /\ gone = {}
  <2>1. Counted = {}
    BY <1>1 DEF Counted, Tokens
  <2>2. InEdges = {} /\ Written = {} /\ Pending = {}
    BY <1>1, <1>2 DEF InEdges, Written, Pending
  <2> QED BY <1>1, <2>1, <2>2
<1>8. CallsPlaced
  BY <1>7 DEF CallsPlaced
<1> QED BY <1>3, <1>4, <1>5, <1>6, <1>8 DEF EdgesInv

\* What an observation leaves alone.
LEMMA NoRecordKeeps ==
  ASSUME EdgesInv, UNCHANGED <<clock, toWrite, edgeRows, gone, edges, counted>>
  PROVE  /\ AllTallied' /\ EdgesApart' /\ UnknownIsOver' /\ CallsPlaced'
         /\ edges' \in [EdgeKeys -> Calls] /\ counted' \in [Clients -> 0 .. 2]
<1>1. AllTallied' /\ EdgesApart' /\ UnknownIsOver'
  BY DEF EdgesInv, AllTallied, Tallied, EdgesApart, UnknownIsOver, NoServer
<1>2. UNCHANGED <<Counted, InEdges, Pending, Written>>
  BY DEF Counted, InEdges, Pending, Written
<1>3. CallsPlaced'
  BY <1>2 DEF EdgesInv, CallsPlaced
<1> QED BY <1>1, <1>3 DEF EdgesInv, EdgeTypes

\* A call that is recorded is a token more, in the edge of its minute.
LEMMA RecordKeeps ==
  ASSUME EdgesInv, NEW c \in Clients, NEW dst \in Named, NEW key, NEW m, Record(key, c, dst, m),
         counted[c] <= 1, UNCHANGED <<clock, toWrite, edgeRows, gone>>
  PROVE  /\ AllTallied' /\ EdgesApart' /\ UnknownIsOver' /\ CallsPlaced'
         /\ edges' \in [EdgeKeys -> Calls] /\ counted' \in [Clients -> 0 .. 2]
         /\ counted'[c] \in {counted[c], counted[c] + 1}
         /\ \A x \in Clients \ {c} : counted'[x] = counted[x]
<1> DEFINE k == EdgeOf(c, dst)  T == Token(c)
<1>1. CASE UNCHANGED <<edges, counted>>
  BY <1>1, NoRecordKeeps
<1>2. CASE /\ counted' = [counted EXCEPT ![c] = @ + 1]
           /\ edges' = [edges EXCEPT ![k] = [calls |-> @.calls + 1, of |-> @.of \cup {T}]]
  <2>1. k \in EdgeKeys /\ k.minute = At[c] /\ k.src = Service[c] /\ k.dst = dst
    BY KeysOfCalls
  <2>2. EdgeTypes /\ edges \in [EdgeKeys -> Calls] /\ counted \in [Clients -> 0 .. 2]
    BY DEF EdgesInv, EdgeTypes
  <2>3. /\ counted' \in [Clients -> 0 .. 2] /\ T \in Tokens /\ T \notin Counted
        /\ Counted' = Counted \cup {T}
    <3> DEFINE S == {c}
    <3>1. counted' = [x \in Clients |-> IF x \in S THEN counted[x] + 1 ELSE counted[x]]
      BY <1>2, <2>2
    <3>2. S \in SUBSET Clients /\ \A x \in S : counted[x] <= 1
      OBVIOUS
    <3>3. {Token(x) : x \in S} = {T}
      OBVIOUS
    <3> HIDE DEF S, T
    <3>4. /\ counted' \in [Clients -> 0 .. 2] /\ {Token(x) : x \in S} \subseteq Tokens
          /\ {Token(x) : x \in S} \cap Counted = {}
          /\ Counted' = Counted \cup {Token(x) : x \in S}
      BY <2>2, <3>1, <3>2, CountedGrows
    <3> QED BY <3>3, <3>4
  <2>4. T[1] = c
    BY DEF Token
  <2> HIDE DEF k, T
  <2>5. /\ edges'[k].calls = edges[k].calls + 1 /\ edges'[k].of = edges[k].of \cup {T}
        /\ \A l \in EdgeKeys \ {k} : edges'[l] = edges[l]
    BY <1>2, <2>1, <2>2
  <2>6. edges[k].calls \in Nat /\ \A l \in EdgeKeys : edges[l].of \subseteq Tokens
    BY <2>1, <2>2 DEF Calls
  <2>7. edges' \in [EdgeKeys -> Calls]
    <3>1. [calls |-> edges[k].calls + 1, of |-> edges[k].of \cup {T}] \in Calls
      BY <2>1, <2>3, <2>6 DEF Calls
    <3> QED BY <1>2, <2>1, <2>2, <3>1
  <2>8. \A l \in EdgeKeys : T \notin edges[l].of
    BY <2>3 DEF EdgesInv, CallsPlaced, InEdges
  <2>9. Tallied(edges'[k], k)
    <3>1. Tallied(edges[k], k)
      BY <2>1 DEF EdgesInv, AllTallied
    <3>2. IsFiniteSet(edges[k].of)
      BY <2>1, <2>6, TokensAreFinite
    <3>3. Cardinality(edges[k].of \cup {T}) = Cardinality(edges[k].of) + 1
      BY <2>1, <2>8, <3>2, FS_AddElement
    <3>4. edges'[k].calls = Cardinality(edges'[k].of)
      BY <2>5, <3>1, <3>3 DEF Tallied
    <3>5. \A t \in edges'[k].of : At[t[1]] = k.minute /\ Service[t[1]] = k.src
      BY <2>1, <2>4, <2>5, <3>1 DEF Tallied
    <3> QED BY <3>4, <3>5 DEF Tallied
  <2>10. AllTallied'
    <3>1. AllTallied
      BY DEF EdgesInv
    <3>2. \A l \in EdgeKeys : Tallied(edges'[l], l)
      BY <2>5, <2>9, <3>1 DEF AllTallied
    <3> QED BY <3>1, <3>2 DEF AllTallied
  <2>11. EdgesApart'
    <3>1. EdgesApart
      BY DEF EdgesInv
    <3> QED BY <2>5, <2>8, <3>1 DEF EdgesApart
  <2>12. UnknownIsOver'
    <3>1. UnknownIsOver /\ ~NoServer(k)
      BY <2>1 DEF EdgesInv, NoServer
    <3> QED BY <2>5, <3>1 DEF UnknownIsOver, NoServer
  <2>13. CallsPlaced'
    <3>1. InEdges' = InEdges \cup {T}
      BY <2>1, <2>5 DEF InEdges
    <3>2. UNCHANGED <<Pending, Written, gone>>
      BY DEF Pending, Written
    <3>3. CallsPlaced
      BY DEF EdgesInv
    <3> QED BY <2>3, <3>1, <3>2, <3>3 DEF CallsPlaced
  <2>14. counted'[c] = counted[c] + 1 /\ \A x \in Clients \ {c} : counted'[x] = counted[x]
    BY <1>2, <2>2
  <2> QED BY <2>3, <2>7, <2>10, <2>11, <2>12, <2>13, <2>14
<1> QED BY <1>1, <1>2 DEF Record, NoRecord

LEMMA ObserveClientKeeps ==
  ASSUME EdgesInv, NEW c \in Clients, ObserveClient(c)
  PROVE  EdgesInv'
<1> DEFINE first == {s \in waitingClient : Peer[s] = c}
<1>1. /\ c \notin arrived /\ arrived' = arrived \cup {c}
      /\ UNCHANGED <<clock, toWrite, edgeRows, gone>>
      /\ serverFirst' = IF first = {} THEN serverFirst ELSE serverFirst \cup {c}
      /\ Evict(waitingServer \cup {c}, waitingClient \ first, At[c])
  BY DEF ObserveClient, Arrives
<1>2. waitingServer' \subseteq waitingServer \cup {c} /\ waitingClient' \subseteq waitingClient
  BY <1>1, EvictLeaves
<1>3. counted[c] = 0
  BY <1>1 DEF EdgesInv, CountedSoFar
<1>4. /\ AllTallied' /\ EdgesApart' /\ UnknownIsOver' /\ CallsPlaced'
      /\ edges' \in [EdgeKeys -> Calls] /\ counted' \in [Clients -> 0 .. 2]
      /\ counted'[c] \in {0, 1} /\ (first = {} => counted'[c] = 0)
      /\ \A x \in Clients \ {c} : counted'[x] = counted[x]
  <2>1. CASE first = {}
    <3>1. UNCHANGED <<edges, counted>>
      BY <2>1 DEF ObserveClient, NoRecord
    <3> QED BY <1>1, <1>3, <3>1, NoRecordKeeps
  <2>2. CASE first # {}
    <3>1. PICK s \in first : Record(Parent[c], c, Service[s], At[c])
      BY <2>2 DEF ObserveClient
    <3>2. Service[s] \in Named
      BY EdgeBounds DEF EdgesInv, EdgeTypes
    <3>3. counted[c] <= 1
      BY <1>3
    <3> QED BY <1>1, <1>3, <2>2, <3>1, <3>2, <3>3, RecordKeeps
  <2> QED BY <2>1, <2>2
<1>5. EdgeTypes'
  BY <1>1, <1>2, <1>4 DEF EdgesInv, EdgeTypes
<1> HIDE DEF first
<1>6. CountedSoFar'
  <2> SUFFICES ASSUME NEW x \in Clients
               PROVE  /\ counted'[x] <= 1 + EarlyCalls(x)'
                      /\ x \in waitingServer' => counted'[x] <= EarlyCalls(x)'
                      /\ x \notin arrived' => counted'[x] = 0
    BY DEF CountedSoFar
  <2>1. CASE x = c
    BY <1>1, <1>4, <2>1 DEF EarlyCalls
  <2>2. CASE x # c
    <3>1. /\ counted[x] <= 1 + EarlyCalls(x) /\ counted[x] \in 0 .. 2
          /\ x \in waitingServer => counted[x] <= EarlyCalls(x)
          /\ x \notin arrived => counted[x] = 0
      BY DEF EdgesInv, CountedSoFar, EdgeTypes
    <3>2. EarlyCalls(x)' = EarlyCalls(x)
      BY <1>1, <2>2 DEF EarlyCalls
    <3> QED BY <1>1, <1>2, <1>4, <2>2, <3>1, <3>2
  <2> QED BY <2>1, <2>2
<1> QED BY <1>4, <1>5, <1>6 DEF EdgesInv

LEMMA ObserveServerKeeps ==
  ASSUME EdgesInv, NEW s \in Servers, ObserveServer(s)
  PROVE  EdgesInv'
<1> DEFINE c == Peer[s]
<1>1. /\ s \notin arrived /\ arrived' = arrived \cup {s} /\ c \in Clients /\ s \notin Clients
      /\ UNCHANGED <<clock, toWrite, edgeRows, serverFirst, gone>>
  BY EdgeBounds DEF ObserveServer, Arrives
<1>2. \A x \in Clients : /\ counted[x] <= 1 + EarlyCalls(x) /\ counted[x] \in 0 .. 2
                         /\ EarlyCalls(x)' = EarlyCalls(x) /\ EarlyCalls(x) \in {0, 1}
                         /\ x \in waitingServer => counted[x] <= EarlyCalls(x)
                         /\ x \notin arrived => counted[x] = 0
  BY <1>1 DEF EdgesInv, CountedSoFar, EdgeTypes, EarlyCalls
<1>3. waitingServer \subseteq arrived \cap Clients /\ waitingClient \subseteq Servers
  BY DEF EdgesInv, EdgeTypes
<1>4. CASE c \notin waitingServer
  <2>1. UNCHANGED <<edges, counted>> /\ Evict(waitingServer, waitingClient \cup {s}, At[s])
    BY <1>4 DEF ObserveServer, NoRecord
  <2>2. waitingServer' \subseteq waitingServer /\ waitingClient' \subseteq waitingClient \cup {s}
    BY <2>1, EvictLeaves
  <2>3. /\ AllTallied' /\ EdgesApart' /\ UnknownIsOver' /\ CallsPlaced'
        /\ edges' \in [EdgeKeys -> Calls] /\ counted' \in [Clients -> 0 .. 2]
    BY <1>1, <2>1, NoRecordKeeps
  <2>4. EdgeTypes'
    BY <1>1, <1>3, <2>2, <2>3 DEF EdgesInv, EdgeTypes
  <2>5. CountedSoFar'
    BY <1>1, <1>2, <2>1, <2>2 DEF CountedSoFar
  <2> QED BY <2>3, <2>4, <2>5 DEF EdgesInv
<1>5. CASE c \in waitingServer
  <2>1. Record(c, c, Service[s], At[s]) /\ Evict(waitingServer \ {c}, waitingClient, At[s])
    BY <1>5 DEF ObserveServer
  <2>2. waitingServer' \subseteq waitingServer \ {c} /\ waitingClient' \subseteq waitingClient
    BY <2>1, EvictLeaves
  <2>3. Service[s] \in Named /\ counted[c] <= EarlyCalls(c) /\ counted[c] <= 1 /\ c \in arrived
    BY <1>1, <1>2, <1>3, <1>5, EdgeBounds
  <2> HIDE DEF c
  <2>4. /\ AllTallied' /\ EdgesApart' /\ UnknownIsOver' /\ CallsPlaced'
        /\ edges' \in [EdgeKeys -> Calls] /\ counted' \in [Clients -> 0 .. 2]
        /\ counted'[c] \in {counted[c], counted[c] + 1}
        /\ \A x \in Clients \ {c} : counted'[x] = counted[x]
    BY <1>1, <2>1, <2>3, RecordKeeps
  <2>5. EdgeTypes'
    BY <1>1, <1>3, <2>2, <2>4 DEF EdgesInv, EdgeTypes
  <2>6. CountedSoFar'
    <3> SUFFICES ASSUME NEW x \in Clients
                 PROVE  /\ counted'[x] <= 1 + EarlyCalls(x)'
                        /\ x \in waitingServer' => counted'[x] <= EarlyCalls(x)'
                        /\ x \notin arrived' => counted'[x] = 0
      BY DEF CountedSoFar
    <3>1. CASE x = c
      BY <1>1, <1>2, <2>2, <2>3, <2>4, <3>1
    <3>2. CASE x # c
      BY <1>1, <1>2, <2>2, <2>4, <3>2
    <3> QED BY <3>1, <3>2
  <2> QED BY <2>4, <2>5, <2>6 DEF EdgesInv
<1> QED BY <1>4, <1>5

\* What a flush has not written yet, when the first entry has left.
LEMMA FlushGoesOn ==
  ASSUME EdgesInv, toWrite # <<>>, toWrite' = Tail(toWrite)
  PROVE  /\ Head(toWrite) \in [key : EdgeKeys, calls : Nat, of : SUBSET Tokens]
         /\ Tallied(Head(toWrite), Head(toWrite).key)
         /\ NoServer(Head(toWrite).key) => Head(toWrite).key.minute < clock
         /\ toWrite' \in Seq([key : EdgeKeys, calls : Nat, of : SUBSET Tokens])
         /\ \A n \in DOMAIN toWrite' :
              /\ Tallied(toWrite'[n], toWrite'[n].key)
              /\ NoServer(toWrite'[n].key) => toWrite'[n].key.minute < clock
         /\ \A m, n \in DOMAIN toWrite' : m # n => toWrite'[m].of \cap toWrite'[n].of = {}
         /\ Pending = Head(toWrite).of \cup Pending' /\ Head(toWrite).of \cap Pending' = {}
<1> DEFINE Entries == [key : EdgeKeys, calls : Nat, of : SUBSET Tokens]
<1>1. /\ toWrite \in Seq(Entries)
      /\ \A n \in DOMAIN toWrite : /\ Tallied(toWrite[n], toWrite[n].key)
                                   /\ NoServer(toWrite[n].key) => toWrite[n].key.minute < clock
      /\ \A m, n \in DOMAIN toWrite : m # n => toWrite[m].of \cap toWrite[n].of = {}
  BY DEF EdgesInv, EdgeTypes, AllTallied, UnknownIsOver, EdgesApart
<1> HIDE DEF Entries
<1>2. /\ 1 \in DOMAIN toWrite /\ Head(toWrite) = toWrite[1] /\ toWrite[1] \in Entries
      /\ toWrite' \in Seq(Entries)
      /\ \A n \in DOMAIN toWrite' : n + 1 \in DOMAIN toWrite /\ toWrite'[n] = toWrite[n + 1] /\ n + 1 # 1
      /\ \A n \in DOMAIN toWrite \ {1} : n - 1 \in DOMAIN toWrite' /\ toWrite'[n - 1] = toWrite[n]
      /\ \A m, n \in DOMAIN toWrite' : m # n => m + 1 # n + 1
  BY <1>1
<1>3. \A n \in DOMAIN toWrite' :
        /\ Tallied(toWrite'[n], toWrite'[n].key)
        /\ NoServer(toWrite'[n].key) => toWrite'[n].key.minute < clock
  BY <1>1, <1>2
<1>4. \A m, n \in DOMAIN toWrite' : m # n => toWrite'[m].of \cap toWrite'[n].of = {}
  BY <1>1, <1>2
<1>5. Pending = toWrite[1].of \cup Pending'
  <2>1. ASSUME NEW t \in Pending PROVE t \in toWrite[1].of \/ t \in Pending'
    <3>1. PICK n \in DOMAIN toWrite : t \in toWrite[n].of
      BY <2>1 DEF Pending
    <3>2. n # 1 => t \in Pending'
      BY <1>2, <3>1 DEF Pending
    <3> QED BY <3>1, <3>2
  <2>2. toWrite[1].of \subseteq Pending /\ Pending' \subseteq Pending
    BY <1>2 DEF Pending
  <2> QED BY <2>1, <2>2
<1>6. toWrite[1].of \cap Pending' = {}
  <2> SUFFICES ASSUME NEW t \in toWrite[1].of, t \in Pending' PROVE FALSE
    OBVIOUS
  <2>1. PICK n \in DOMAIN toWrite' : t \in toWrite'[n].of
    BY DEF Pending
  <2> QED BY <1>1, <1>2, <2>1
<1> QED BY <1>1, <1>2, <1>3, <1>4, <1>5, <1>6 DEF Entries

LEMMA WriteEdgeKeeps ==
  ASSUME EdgesInv, WriteEdge
  PROVE  EdgesInv'
<1> DEFINE h == Head(toWrite)
<1>1. /\ toWrite # <<>> /\ toWrite' = Tail(toWrite)
      /\ UNCHANGED <<clock, arrived, waitingClient, waitingServer, edges, counted, serverFirst, gone>>
  BY DEF WriteEdge
<1>2. /\ h \in [key : EdgeKeys, calls : Nat, of : SUBSET Tokens]
      /\ Tallied(h, h.key)
      /\ NoServer(h.key) => h.key.minute < clock
      /\ toWrite' \in Seq([key : EdgeKeys, calls : Nat, of : SUBSET Tokens])
      /\ \A n \in DOMAIN toWrite' :
           /\ Tallied(toWrite'[n], toWrite'[n].key)
           /\ NoServer(toWrite'[n].key) => toWrite'[n].key.minute < clock
      /\ \A m, n \in DOMAIN toWrite' : m # n => toWrite'[m].of \cap toWrite'[n].of = {}
      /\ Pending = h.of \cup Pending' /\ h.of \cap Pending' = {}
  BY <1>1, FlushGoesOn
<1>3. PICK k \in EdgeKeys :
        /\ k = h.key \/ (h.key.dst = Unknown /\ [k EXCEPT !.dst = Unknown] = h.key)
        /\ edgeRows' = [edgeRows EXCEPT ![k] = [calls |-> @.calls + h.calls, of |-> @.of \cup h.of]]
  BY DEF WriteEdge
<1>4. k.minute = h.key.minute /\ k.src = h.key.src /\ (NoServer(k) => NoServer(h.key))
  <2>1. CASE k = h.key
    BY <2>1
  <2>2. CASE h.key.dst = Unknown /\ [k EXCEPT !.dst = Unknown] = h.key
    <3>1. k = [minute |-> k.minute, src |-> k.src, dst |-> k.dst]
      BY DEF EdgeKeys
    <3>2. h.key.minute = k.minute /\ h.key.src = k.src
      BY <2>2, <3>1
    <3> QED BY <2>2, <3>2 DEF NoServer
  <2> QED BY <1>3, <2>1, <2>2
<1> HIDE DEF h
<1>5. /\ edgeRows \in [EdgeKeys -> Calls] /\ edgeRows[k].calls \in Nat /\ edgeRows[k].of \subseteq Tokens
      /\ h.calls \in Nat /\ h.of \subseteq Tokens
  BY <1>2 DEF EdgesInv, EdgeTypes, Calls
<1>6. /\ edgeRows'[k].calls = edgeRows[k].calls + h.calls /\ edgeRows'[k].of = edgeRows[k].of \cup h.of
      /\ \A l \in EdgeKeys \ {k} : edgeRows'[l] = edgeRows[l]
  BY <1>3, <1>5
<1>7. edgeRows' \in [EdgeKeys -> Calls]
  <2>1. [calls |-> edgeRows[k].calls + h.calls, of |-> edgeRows[k].of \cup h.of] \in Calls
    BY <1>5 DEF Calls
  <2> QED BY <1>3, <1>5, <2>1
<1>8. edgeRows[k].of \cap h.of = {}
  BY <1>2 DEF EdgesInv, CallsPlaced, Written
<1>9. Tallied(edgeRows'[k], k)
  <2>1. Tallied(edgeRows[k], k)
    BY DEF EdgesInv, AllTallied
  <2>2. /\ IsFiniteSet(edgeRows[k].of) /\ IsFiniteSet(h.of)
        /\ Cardinality(edgeRows[k].of) \in Nat /\ Cardinality(h.of) \in Nat
    BY <1>5, TokensAreFinite
  <2>3. Cardinality(edgeRows[k].of \cup h.of) =
          Cardinality(edgeRows[k].of) + Cardinality(h.of) - Cardinality(edgeRows[k].of \cap h.of)
    BY <2>2, FS_Union
  <2>4. Cardinality(edgeRows[k].of \cap h.of) = 0
    BY <1>8, FS_EmptySet
  <2>5. edgeRows[k].calls = Cardinality(edgeRows[k].of) /\ h.calls = Cardinality(h.of)
    BY <1>2, <2>1 DEF Tallied
  <2>6. edgeRows'[k].calls = Cardinality(edgeRows'[k].of)
    BY <1>6, <2>2, <2>3, <2>4, <2>5
  <2>7. \A t \in edgeRows'[k].of : At[t[1]] = k.minute /\ Service[t[1]] = k.src
    BY <1>2, <1>4, <1>6, <2>1 DEF Tallied
  <2> QED BY <2>6, <2>7 DEF Tallied
<1>10. AllTallied'
  <2>1. \A l \in EdgeKeys : Tallied(edges[l], l) /\ Tallied(edgeRows'[l], l)
    BY <1>6, <1>9 DEF EdgesInv, AllTallied
  <2>2. \A n \in DOMAIN toWrite' : Tallied(toWrite'[n], toWrite'[n].key)
    BY <1>2
  <2> QED BY <1>1, <2>1, <2>2 DEF AllTallied
<1>11. EdgesApart'
  BY <1>1, <1>2 DEF EdgesInv, EdgesApart
<1>12. UnknownIsOver'
  <2>1. UnknownIsOver
    BY DEF EdgesInv
  <2>2. NoServer(k) => k.minute < clock
    BY <1>2, <1>4
  <2>3. \A l \in EdgeKeys : NoServer(l) => edges[l].calls = 0 /\ (edgeRows'[l].calls > 0 => l.minute < clock)
    BY <1>6, <2>1, <2>2 DEF UnknownIsOver
  <2>4. \A n \in DOMAIN toWrite' : NoServer(toWrite'[n].key) => toWrite'[n].key.minute < clock
    BY <1>2
  <2> QED BY <1>1, <2>3, <2>4 DEF UnknownIsOver, NoServer
<1>13. CallsPlaced'
  <2>1. Written' = Written \cup h.of
    BY <1>6 DEF Written
  <2>2. UNCHANGED <<Counted, InEdges, gone>>
    BY <1>1 DEF Counted, InEdges
  <2>3. CallsPlaced
    BY DEF EdgesInv
  <2> QED BY <1>2, <2>1, <2>2, <2>3 DEF CallsPlaced
<1>14. EdgeTypes'
  BY <1>1, <1>2, <1>7 DEF EdgesInv, EdgeTypes
<1>15. CountedSoFar'
  BY <1>1 DEF EdgesInv, CountedSoFar, EarlyCalls
<1> QED BY <1>10, <1>11, <1>12, <1>13, <1>14, <1>15 DEF EdgesInv

LEMMA WriteEdgeFailsKeeps ==
  ASSUME EdgesInv, WriteEdgeFails
  PROVE  EdgesInv'
<1> DEFINE h == Head(toWrite)
<1>1. /\ toWrite # <<>> /\ toWrite' = Tail(toWrite) /\ gone' = gone \cup h.of
      /\ UNCHANGED <<clock, arrived, waitingClient, waitingServer, edges, edgeRows, counted, serverFirst>>
  BY DEF WriteEdgeFails
<1>2. /\ h \in [key : EdgeKeys, calls : Nat, of : SUBSET Tokens]
      /\ toWrite' \in Seq([key : EdgeKeys, calls : Nat, of : SUBSET Tokens])
      /\ \A n \in DOMAIN toWrite' :
           /\ Tallied(toWrite'[n], toWrite'[n].key)
           /\ NoServer(toWrite'[n].key) => toWrite'[n].key.minute < clock
      /\ \A m, n \in DOMAIN toWrite' : m # n => toWrite'[m].of \cap toWrite'[n].of = {}
      /\ Pending = h.of \cup Pending' /\ h.of \cap Pending' = {}
  BY <1>1, FlushGoesOn
<1> HIDE DEF h
<1>3. h.of \subseteq Tokens
  BY <1>2
<1>4. AllTallied'
  <2>1. \A l \in EdgeKeys : Tallied(edges[l], l) /\ Tallied(edgeRows[l], l)
    BY DEF EdgesInv, AllTallied
  <2> QED BY <1>1, <1>2, <2>1 DEF AllTallied
<1>5. EdgesApart'
  BY <1>1, <1>2 DEF EdgesInv, EdgesApart
<1>6. UnknownIsOver'
  BY <1>1, <1>2 DEF EdgesInv, UnknownIsOver, NoServer
<1>7. CallsPlaced'
  <2>1. UNCHANGED <<Counted, InEdges, Written>>
    BY <1>1 DEF Counted, InEdges, Written
  <2>2. CallsPlaced
    BY DEF EdgesInv
  <2> QED BY <1>1, <1>2, <2>1, <2>2 DEF CallsPlaced
<1>8. EdgeTypes'
  BY <1>1, <1>2, <1>3 DEF EdgesInv, EdgeTypes
<1>9. CountedSoFar'
  BY <1>1 DEF EdgesInv, CountedSoFar, EarlyCalls
<1> QED BY <1>4, <1>5, <1>6, <1>7, <1>8, <1>9 DEF EdgesInv

LEMMA CrashEdgesKeeps ==
  ASSUME EdgesInv, CrashEdges
  PROVE  EdgesInv'
<1>1. /\ waitingClient' = {} /\ waitingServer' = {} /\ toWrite' = <<>>
      /\ edges' = [k \in EdgeKeys |-> NoCalls]
      /\ UNCHANGED <<clock, arrived, edgeRows, counted, serverFirst>>
  BY DEF CrashEdges, Drained
<1>2. gone' = gone \cup InEdges \cup Pending
  BY DEF CrashEdges, InEdges, Pending
<1>3. NoCalls \in Calls /\ NoCalls.calls = 0 /\ NoCalls.of = {} /\ \A k : Tallied(NoCalls, k)
  BY FS_EmptySet DEF NoCalls, Calls, Tallied
<1>4. InEdges' = {} /\ Pending' = {}
  BY <1>1, <1>3 DEF InEdges, Pending
<1>5. UNCHANGED <<Counted, Written>>
  BY <1>1 DEF Counted, Written
<1>6. CallsPlaced /\ gone \subseteq Tokens /\ Counted \subseteq Tokens
  BY DEF EdgesInv, EdgeTypes, Counted
<1>7. gone' \subseteq Tokens
  BY <1>2, <1>6 DEF CallsPlaced
<1>8. CallsPlaced'
  BY <1>2, <1>4, <1>5, <1>6 DEF CallsPlaced
<1>9. EdgeTypes'
  BY <1>1, <1>3, <1>7 DEF EdgesInv, EdgeTypes
<1>10. AllTallied'
  <2>1. \A k \in EdgeKeys : Tallied(edges'[k], k) /\ Tallied(edgeRows[k], k)
    BY <1>1, <1>3 DEF EdgesInv, AllTallied
  <2> QED BY <1>1, <2>1 DEF AllTallied
<1>11. EdgesApart' /\ UnknownIsOver'
  BY <1>1, <1>3 DEF EdgesInv, EdgesApart, UnknownIsOver, NoServer
<1>12. CountedSoFar'
  BY <1>1 DEF EdgesInv, CountedSoFar, EarlyCalls
<1> QED BY <1>8, <1>9, <1>10, <1>11, <1>12 DEF EdgesInv

\* A flush takes each edge with calls, and each client whose minute is over
\* and which was not recorded.
LEMMA TakeEdgesKeeps ==
  ASSUME EdgesInv, TakeEdges
  PROVE  EdgesInv'
<1> DEFINE over     == {c \in waitingServer : Closed(c)}
           fallback == {c \in over : ~IsRecorded(c)}
           busy     == {x \in EdgeKeys : edges[x].calls > 0}
           alone(c) == Entry(EdgeOf(c, Unknown), 1, {Token(c)})
           whole(k) == Entry(k, edges[k].calls, edges[k].of)
           A        == {alone(c) : c \in fallback}
           B        == {whole(k) : k \in busy}
           taken    == A \cup B
           F        == {Token(c) : c \in fallback}
           Entries  == [key : EdgeKeys, calls : Nat, of : SUBSET Tokens]
<1>1. /\ toWrite = <<>> /\ waitingServer' = waitingServer \ over
      /\ counted' = [c \in Clients |-> IF c \in fallback THEN counted[c] + 1 ELSE counted[c]]
      /\ edges' = [k \in EdgeKeys |-> NoCalls]
      /\ toWrite' = CHOOSE q \in Ordered(taken) : TRUE
      /\ UNCHANGED <<clock, arrived, waitingClient, edgeRows, serverFirst, gone>>
  BY DEF TakeEdges, Drained
<1>2. /\ fallback \subseteq Clients /\ fallback \subseteq waitingServer \ waitingServer'
      /\ \A c \in fallback : Closed(c)
  BY <1>1 DEF EdgesInv, EdgeTypes
<1>3. /\ edges \in [EdgeKeys -> Calls] /\ clock \in Nat
      /\ \A k \in EdgeKeys : edges[k].calls \in Nat /\ edges[k].of \subseteq Tokens /\ Tallied(edges[k], k)
  BY DEF EdgesInv, EdgeTypes, Calls, AllTallied
<1>4. \A c \in Clients : /\ counted[c] \in 0 .. 2 /\ counted[c] <= 1 + EarlyCalls(c) /\ EarlyCalls(c) \in {0, 1}
                         /\ c \in waitingServer => counted[c] <= EarlyCalls(c)
                         /\ c \notin arrived => counted[c] = 0
  BY DEF EdgesInv, EdgeTypes, CountedSoFar, EarlyCalls
<1> HIDE DEF over, fallback
<1>5. \A c \in fallback : counted[c] <= 1
  BY <1>2, <1>4
<1>6. /\ counted' \in [Clients -> 0 .. 2] /\ F \subseteq Tokens /\ F \cap Counted = {}
      /\ Counted' = Counted \cup F
  BY <1>1, <1>2, <1>5, CountedGrows DEF EdgesInv
<1>7. InEdges \subseteq Counted
  BY DEF EdgesInv, CallsPlaced
<1>8. \A c \in fallback : /\ alone(c) \in Entries /\ Tallied(alone(c), alone(c).key)
                          /\ alone(c).key.minute < clock /\ alone(c).of = {Token(c)}
  <2> SUFFICES ASSUME NEW c \in fallback
               PROVE  /\ alone(c) \in Entries /\ Tallied(alone(c), alone(c).key)
                      /\ alone(c).key.minute < clock /\ alone(c).of = {Token(c)}
    OBVIOUS
  <2>1. c \in Clients /\ Token(c) \in Tokens /\ Token(c)[1] = c
    BY <1>2, <1>6 DEF Token
  <2>2. /\ EdgeOf(c, Unknown) \in EdgeKeys /\ EdgeOf(c, Unknown).minute = At[c]
        /\ EdgeOf(c, Unknown).src = Service[c]
    BY <2>1, KeysOfCalls
  <2>3. alone(c).key = EdgeOf(c, Unknown) /\ alone(c).calls = 1 /\ alone(c).of = {Token(c)}
    BY DEF Entry
  <2>4. alone(c) \in Entries
    BY <2>1, <2>2 DEF Entry
  <2>5. Cardinality({Token(c)}) = 1
    BY FS_Singleton
  <2>6. At[c] < clock
    <3>1. At[c] + 1 <= clock /\ At[c] \in Nat
      BY <1>2, <2>1, EdgeBounds DEF Closed
    <3> QED BY <1>3, <3>1
  <2>7. Tallied(alone(c), alone(c).key)
    BY <2>1, <2>2, <2>3, <2>5 DEF Tallied
  <2> QED BY <2>2, <2>3, <2>4, <2>6, <2>7
<1>9. \A k \in busy : /\ whole(k) \in Entries /\ Tallied(whole(k), whole(k).key)
                      /\ ~NoServer(whole(k).key) /\ whole(k).of = edges[k].of
  <2> SUFFICES ASSUME NEW k \in busy
               PROVE  /\ whole(k) \in Entries /\ Tallied(whole(k), whole(k).key)
                      /\ ~NoServer(whole(k).key) /\ whole(k).of = edges[k].of
    OBVIOUS
  <2>1. k \in EdgeKeys /\ edges[k].calls > 0
    OBVIOUS
  <2>2. whole(k).key = k /\ whole(k).calls = edges[k].calls /\ whole(k).of = edges[k].of
    BY DEF Entry
  <2>3. whole(k) \in Entries
    BY <1>3, <2>1 DEF Entry
  <2>4. ~NoServer(k)
    BY <2>1 DEF EdgesInv, UnknownIsOver
  <2>5. Tallied(whole(k), whole(k).key)
    BY <1>3, <2>1, <2>2 DEF Tallied
  <2> QED BY <2>2, <2>3, <2>4, <2>5
<1> HIDE DEF alone, whole, busy
<1>10. \A x \in taken : /\ x \in Entries /\ Tallied(x, x.key)
                        /\ NoServer(x.key) => x.key.minute < clock
  BY <1>8, <1>9
<1>11. \A x, y \in taken : x # y => x.of \cap y.of = {}
  <2>1. ASSUME NEW c \in fallback, NEW d \in fallback, alone(c) # alone(d)
        PROVE  alone(c).of \cap alone(d).of = {}
    <3>1. c # d
      BY <2>1
    <3>2. Token(c) # Token(d)
      BY <3>1 DEF Token
    <3> QED BY <1>8, <3>2
  <2>2. ASSUME NEW k \in busy, NEW l \in busy, whole(k) # whole(l)
        PROVE  whole(k).of \cap whole(l).of = {}
    <3>1. k # l /\ k \in EdgeKeys /\ l \in EdgeKeys
      BY <2>2 DEF busy
    <3> QED BY <1>9, <3>1 DEF EdgesInv, EdgesApart
  <2>3. ASSUME NEW c \in fallback, NEW k \in busy
        PROVE  alone(c).of \cap whole(k).of = {}
    <3>1. Token(c) \notin Counted
      BY <1>6
    <3>2. edges[k].of \subseteq Counted
      BY <1>7 DEF busy, InEdges
    <3> QED BY <1>8, <1>9, <3>1, <3>2
  <2> QED BY <2>1, <2>2, <2>3
<1>12. IsFiniteSet(taken)
  <2>1. IsFiniteSet(A)
    <3> DEFINE g == [c \in fallback |-> alone(c)]
    <3>1. IsFiniteSet(fallback)
      BY <1>2, EdgeBounds, FS_Subset
    <3>2. IsFiniteSet({g[c] : c \in fallback})
      BY <3>1, ImageIsFinite
    <3>3. {g[c] : c \in fallback} = A
      OBVIOUS
    <3> QED BY <3>2, <3>3
  <2>2. IsFiniteSet(B)
    <3> DEFINE g == [k \in busy |-> whole(k)]
    <3>1. IsFiniteSet(busy)
      BY EdgeKeysAreFinite, FS_Subset DEF busy
    <3>2. IsFiniteSet({g[k] : k \in busy})
      BY <3>1, ImageIsFinite
    <3>3. {g[k] : k \in busy} = B
      OBVIOUS
    <3> QED BY <3>2, <3>3
  <2> QED BY <2>1, <2>2, FS_Union
<1> HIDE DEF taken
<1>13. /\ toWrite' \in Seq(taken)
       /\ \A x \in taken : \E n \in DOMAIN toWrite' : toWrite'[n] = x
       /\ \A m, n \in DOMAIN toWrite' : m # n => toWrite'[m] # toWrite'[n]
  <2>1. \E q : q \in Ordered(taken)
    BY <1>12, OrderedExists
  <2>2. toWrite' \in Ordered(taken)
    BY <1>1, <2>1
  <2> QED BY <1>12, <2>2, OrderedLists
<1>14. \A n \in DOMAIN toWrite' : toWrite'[n] \in taken
  BY <1>13
<1>15. NoCalls \in Calls /\ NoCalls.calls = 0 /\ NoCalls.of = {} /\ \A k : Tallied(NoCalls, k)
  BY FS_EmptySet DEF NoCalls, Calls, Tallied
<1>16. EdgeTypes'
  <2>1. taken \subseteq Entries
    BY <1>10
  <2> HIDE DEF Entries
  <2>2. toWrite' \in Seq(Entries)
    BY <1>13, <1>14, <2>1
  <2> USE DEF Entries
  <2>3. edges' \in [EdgeKeys -> Calls] /\ waitingServer' \subseteq waitingServer
    BY <1>1, <1>15
  <2> QED BY <1>1, <1>6, <2>2, <2>3 DEF EdgesInv, EdgeTypes
<1>17. AllTallied'
  <2>1. \A k \in EdgeKeys : Tallied(edges'[k], k) /\ Tallied(edgeRows[k], k)
    BY <1>1, <1>15 DEF EdgesInv, AllTallied
  <2>2. \A n \in DOMAIN toWrite' : Tallied(toWrite'[n], toWrite'[n].key)
    BY <1>10, <1>14
  <2> QED BY <1>1, <2>1, <2>2 DEF AllTallied
<1>18. EdgesApart'
  <2>1. \A m, n \in DOMAIN toWrite' : m # n => toWrite'[m].of \cap toWrite'[n].of = {}
    BY <1>11, <1>13, <1>14
  <2>2. \A k \in EdgeKeys : edges'[k].of = {}
    BY <1>1, <1>15
  <2> QED BY <2>1, <2>2 DEF EdgesApart
<1>19. UnknownIsOver'
  <2>1. \A n \in DOMAIN toWrite' : NoServer(toWrite'[n].key) => toWrite'[n].key.minute < clock
    BY <1>10, <1>14
  <2>2. \A k \in EdgeKeys : edges'[k].calls = 0
    BY <1>1, <1>15
  <2> QED BY <1>1, <2>1, <2>2 DEF EdgesInv, UnknownIsOver, NoServer
<1>20. Pending' = F \cup InEdges
  <2>1. ASSUME NEW t \in Pending' PROVE t \in F \cup InEdges
    <3>1. PICK n \in DOMAIN toWrite' : t \in toWrite'[n].of
      BY <2>1 DEF Pending
    <3>2. PICK x \in taken : t \in x.of
      BY <1>14, <3>1
    <3> QED BY <1>8, <1>9, <3>2 DEF taken, busy, InEdges
  <2>2. ASSUME NEW x \in taken, NEW t \in x.of PROVE t \in Pending'
    BY <1>13, <2>2 DEF Pending
  <2>3. ASSUME NEW t \in F PROVE t \in Pending'
    <3>1. PICK c \in fallback : t = Token(c)
      OBVIOUS
    <3>2. alone(c) \in taken /\ t \in alone(c).of
      BY <1>8, <3>1 DEF taken
    <3> QED BY <2>2, <3>2
  <2>4. ASSUME NEW t \in InEdges PROVE t \in Pending'
    <3>1. PICK k \in EdgeKeys : t \in edges[k].of
      BY DEF InEdges
    <3>2. edges[k].calls = Cardinality(edges[k].of) /\ (Cardinality(edges[k].of) = 0 => edges[k].of = {})
      BY <1>3, TokensAreFinite DEF Tallied
    <3>3. edges[k].calls \in Nat /\ edges[k].calls # 0
      BY <1>3, <3>1, <3>2
    <3>4. k \in busy
      BY <3>3 DEF busy
    <3>5. whole(k) \in taken /\ t \in whole(k).of
      BY <1>9, <3>1, <3>4 DEF taken
    <3> QED BY <2>2, <3>5
  <2> QED BY <2>1, <2>3, <2>4
<1>21. CallsPlaced'
  <2>1. InEdges' = {}
    BY <1>1, <1>15 DEF InEdges
  <2>2. UNCHANGED <<Written, gone>> /\ Pending = {}
    BY <1>1 DEF Written, Pending
  <2>3. CallsPlaced
    BY DEF EdgesInv
  <2> HIDE DEF F
  <2> QED BY <1>6, <1>20, <2>1, <2>2, <2>3 DEF CallsPlaced
<1>22. CountedSoFar'
  <2> SUFFICES ASSUME NEW c \in Clients
               PROVE  /\ counted'[c] <= 1 + EarlyCalls(c)
                      /\ c \in waitingServer' => counted'[c] <= EarlyCalls(c)
                      /\ c \notin arrived => counted'[c] = 0
    BY <1>1 DEF CountedSoFar, EarlyCalls
  <2>1. CASE c \in fallback
    <3>1. c \in waitingServer /\ c \notin waitingServer' /\ c \in arrived /\ counted'[c] = counted[c] + 1
      BY <1>1, <1>2, <2>1 DEF EdgesInv, EdgeTypes
    <3> QED BY <1>4, <3>1
  <2>2. CASE c \notin fallback
    BY <1>1, <1>4, <2>2
  <2> QED BY <2>1, <2>2
<1> QED BY <1>16, <1>17, <1>18, <1>19, <1>21, <1>22 DEF EdgesInv

LEMMA EdgesStep == EdgesInv /\ [EdgeNext]_edgeVars => EdgesInv'
<1> SUFFICES ASSUME EdgesInv, [EdgeNext]_edgeVars PROVE EdgesInv'
  OBVIOUS
<1>1. CASE /\ clock' \in {clock, clock + 1}
           /\ UNCHANGED <<arrived, waitingClient, waitingServer, edges, toWrite, edgeRows, counted,
                          serverFirst, gone>>
  <2>1. clock \in Nat /\ clock' \in Nat /\ clock <= clock'
    BY <1>1 DEF EdgesInv, EdgeTypes
  <2>2. EdgeTypes' /\ AllTallied' /\ EdgesApart'
    BY <1>1, <2>1 DEF EdgesInv, EdgeTypes, AllTallied, Tallied, EdgesApart
  <2>3. UnknownIsOver'
    <3>1. \A k \in EdgeKeys : k.minute \in Nat /\ (k.minute < clock => k.minute < clock')
      BY <2>1, EdgeBounds DEF EdgeKeys
    <3>2. \A n \in DOMAIN toWrite : toWrite[n].key \in EdgeKeys
      <4> DEFINE Entries == [key : EdgeKeys, calls : Nat, of : SUBSET Tokens]
      <4>1. toWrite \in Seq(Entries)
        BY DEF EdgesInv, EdgeTypes
      <4> HIDE DEF Entries
      <4>2. \A n \in DOMAIN toWrite : toWrite[n] \in Entries
        BY <4>1
      <4> USE DEF Entries
      <4> QED BY <4>2
    <3> QED BY <1>1, <3>1, <3>2 DEF EdgesInv, UnknownIsOver, NoServer
  <2>4. CountedSoFar'
    BY <1>1 DEF EdgesInv, CountedSoFar, EarlyCalls
  <2>5. CallsPlaced'
    <3>1. UNCHANGED <<Counted, InEdges, Pending, Written, gone>>
      BY <1>1 DEF Counted, InEdges, Pending, Written
    <3> QED BY <3>1 DEF EdgesInv, CallsPlaced
  <2> QED BY <2>2, <2>3, <2>4, <2>5 DEF EdgesInv
<1>2. ClockTicks \/ UNCHANGED edgeVars => EdgesInv'
  BY <1>1 DEF ClockTicks, edgeVars
<1>3. ASSUME NEW c \in Clients, ObserveClient(c) PROVE EdgesInv'
  BY <1>3, ObserveClientKeeps
<1>4. ASSUME NEW s \in Servers, ObserveServer(s) PROVE EdgesInv'
  BY <1>4, ObserveServerKeeps
<1> QED
  BY <1>2, <1>3, <1>4, TakeEdgesKeeps, WriteEdgeKeeps, WriteEdgeFailsKeeps, CrashEdgesKeeps DEF EdgeNext

LEMMA EdgesInvMeans == EdgesInv => CallsAreAccounted
<1> SUFFICES ASSUME EdgesInv PROVE CallsAreAccounted
  OBVIOUS
<1>1. \A k \in EdgeKeys :
        /\ edgeRows[k].calls = Cardinality(edgeRows[k].of)
        /\ \A t \in edgeRows[k].of : At[t[1]] = k.minute /\ Service[t[1]] = k.src
        /\ k.dst \in {Unknown} \ Named /\ edgeRows[k].calls > 0 => k.minute < clock
  BY DEF EdgesInv, AllTallied, Tallied, UnknownIsOver, NoServer
<1>2. \A c \in Clients \ serverFirst : counted[c] <= 1
  BY DEF EdgesInv, CountedSoFar, EarlyCalls
<1> QED BY <1>1, <1>2 DEF EdgesInv, CallsPlaced, CallsAreAccounted

\* What the dataserver counts of spans is exact, for any spans and services,
\* any capacity and any number of failed writes and crashes: the summary of
\* each trace, the requests of each minute and the calls of each edge.
THEOREM SpansStayCounted == TraceSpec /\ EdgeSpec => []SpansAreCounted
<1>1. TraceSpec => [](SummariesAreExact /\ RequestsAreCounted)
  BY SummariesStayExact
<1>2. EdgeInit => EdgesInv
  BY EdgesInitially
<1>3. EdgesInv /\ [EdgeNext]_edgeVars => EdgesInv'
  BY EdgesStep
<1>4. EdgesInv => CallsAreAccounted
  BY EdgesInvMeans
<1>5. SummariesAreExact /\ RequestsAreCounted /\ CallsAreAccounted => SpansAreCounted
  BY DEF SpansAreCounted
<1> QED BY <1>1, <1>2, <1>3, <1>4, <1>5, PTL DEF EdgeSpec

-----------------------------------------------------------------------------
(* Sorting a finite set of pairs of numbers.                               *)

LEMMA InjectiveIsOnto ==
    ASSUME NEW S, NEW T, IsFiniteSet(S), IsFiniteSet(T), Cardinality(S) = Cardinality(T),
           NEW f \in [S -> T], \A x, y \in S : f[x] = f[y] => x = y
    PROVE  \A t \in T : \E x \in S : f[x] = t
<1>1. f \in Injection(S, T)
  BY DEF Injection, IsInjective
<1>2. f \in Surjection(S, T)
  BY <1>1, FS_Injection
<1>. QED
  BY <1>2 DEF Surjection

\* The place of an element is the number of those before it, and one.
LEMMA SetsAreSorted ==
    ASSUME NEW S, IsFiniteSet(S), S \subseteq Nat \X Nat
    PROVE  \E q \in SetToSeqs(S) : InOrder(q)
<1>. DEFINE n == Cardinality(S)
            s == CHOOSE f \in [1 .. n -> S] : IsInjective(f)
<1>a. n \in Nat /\ ExistsBijection(1 .. n, S)
  BY FS_CardinalityType
<1>b. \E f \in [1 .. n -> S] : IsInjective(f)
  BY <1>a DEF ExistsBijection, Bijection, Injection, IsInjective
<1>c. s \in [1 .. n -> S] /\ IsInjective(s)
  BY <1>b
<1>. HIDE DEF s
<1>d. \A i, j \in 1 .. n : s[i] = s[j] => i = j
  BY <1>c DEF IsInjective
<1>e. \A i \in 1 .. n : s[i] \in Nat \X Nat
  BY <1>c
<1>. DEFINE N        == 1 .. n
            Lower(i) == {j \in N : Before(s[j], s[i])}
            rank     == [i \in N |-> Cardinality(Lower(i)) + 1]
<1>1. \A i, j \in N : i # j => Before(s[i], s[j]) \/ Before(s[j], s[i])
  BY <1>d, <1>e DEF Before
<1>2. \A i, j, k \in N : Before(s[i], s[j]) /\ Before(s[j], s[k]) => Before(s[i], s[k])
  BY <1>e DEF Before
<1>3. \A i \in N : ~Before(s[i], s[i])
  BY <1>e DEF Before
<1>4. IsFiniteSet(N) /\ Cardinality(N) = n
  BY <1>a, FS_Interval
<1>5. ASSUME NEW i \in N, NEW j \in N, Before(s[i], s[j])
      PROVE  Cardinality(Lower(i)) < Cardinality(Lower(j))
  <2>1. Lower(i) \subseteq Lower(j) /\ i \in Lower(j) /\ i \notin Lower(i)
    BY <1>2, <1>3, <1>5
  <2>2. Lower(j) \subseteq N
    OBVIOUS
  <2>3. IsFiniteSet(Lower(j))
    BY <2>2, <1>4, FS_Subset
  <2>4. /\ IsFiniteSet(Lower(i)) /\ Cardinality(Lower(i)) <= Cardinality(Lower(j))
        /\ Cardinality(Lower(j)) = Cardinality(Lower(i)) => Lower(j) = Lower(i)
    <3>. HIDE DEF Lower
    <3>. QED
      BY <2>1, <2>3, FS_Subset
  <2>5. Lower(j) # Lower(i)
    BY <2>1
  <2>6. Cardinality(Lower(i)) \in Nat /\ Cardinality(Lower(j)) \in Nat
    BY <2>3, <2>4, FS_CardinalityType
  <2>. HIDE DEF Lower
  <2>. QED
    BY <2>4, <2>5, <2>6
<1>6. ASSUME NEW i \in N
      PROVE  rank[i] \in N
  <2>1. Lower(i) \subseteq N /\ i \notin Lower(i)
    BY <1>3
  <2>. HIDE DEF Lower
  <2>2. /\ IsFiniteSet(Lower(i)) /\ Cardinality(Lower(i)) <= n
        /\ Cardinality(N) = Cardinality(Lower(i)) => N = Lower(i)
    BY <2>1, <1>4, FS_Subset
  <2>3. Cardinality(Lower(i)) \in Nat
    BY <2>2, FS_CardinalityType
  <2>4. Cardinality(Lower(i)) # n
    BY <2>1, <2>2, <1>4
  <2>. QED
    BY <2>2, <2>3, <2>4, <1>a
<1>7. rank \in [N -> N]
  BY <1>6
<1>8. \A i, j \in N : Before(s[i], s[j]) => rank[i] < rank[j]
  <2>. SUFFICES ASSUME NEW i \in N, NEW j \in N, Before(s[i], s[j])
                PROVE  rank[i] < rank[j]
    OBVIOUS
  <2>1. Cardinality(Lower(i)) < Cardinality(Lower(j))
    BY <1>5
  <2>2. rank[i] = Cardinality(Lower(i)) + 1 /\ rank[j] = Cardinality(Lower(j)) + 1
    OBVIOUS
  <2>3. rank[i] \in Nat /\ rank[j] \in Nat
    BY <1>6
  <2>4. /\ IsFiniteSet(Lower(i)) /\ Lower(i) \subseteq N
        /\ IsFiniteSet(Lower(j)) /\ Lower(j) \subseteq N
    BY <1>4, FS_Subset
  <2>. HIDE DEF Lower, rank
  <2>5. Cardinality(Lower(i)) \in Nat /\ Cardinality(Lower(j)) \in Nat
    BY <2>4, FS_CardinalityType
  <2>. QED
    BY <2>1, <2>2, <2>5
<1>. HIDE DEF rank, Lower
<1>9. \A i, j \in N : rank[i] = rank[j] => i = j
  BY <1>1, <1>6, <1>8
<1>10. \A k \in N : \E i \in N : rank[i] = k
  <2>. HIDE DEF N
  <2>. QED
    BY <1>4, <1>7, <1>9, InjectiveIsOnto
<1>. DEFINE p == [k \in N |-> CHOOSE i \in N : rank[i] = k]
<1>11. \A k \in N : p[k] \in N /\ rank[p[k]] = k
  BY <1>10
<1>. DEFINE q == [k \in N |-> s[p[k]]]
<1>. HIDE DEF p
<1>12. q \in [N -> S]
  BY <1>11, <1>c
<1>13. \A i, j \in N : i # j => q[i] # q[j]
  BY <1>11, <1>d
<1>14. \A i, j \in N : i < j => Before(s[p[i]], s[p[j]])
  <2>. SUFFICES ASSUME NEW i \in N, NEW j \in N, i < j
                PROVE  Before(s[p[i]], s[p[j]])
    OBVIOUS
  <2>1. p[i] \in N /\ p[j] \in N /\ rank[p[i]] = i /\ rank[p[j]] = j
    BY <1>11
  <2>2. ~Before(s[p[j]], s[p[i]])
    BY <2>1, <1>8
  <2>3. p[i] # p[j]
    BY <2>1
  <2>. QED
    BY <2>1, <2>2, <2>3, <1>1
<1>15. InOrder(q)
  BY <1>14 DEF InOrder
<1>16. q \in SetToSeqs(S)
  BY <1>12, <1>13 DEF SetToSeqs
<1>. QED
  BY <1>15, <1>16

LEMMA ListsAreWhole ==
    ASSUME NEW S, IsFiniteSet(S), NEW q \in SetToSeqs(S)
    PROVE  /\ q \in Seq(S) 
           /\ \A g \in S : \E i \in 1 .. Len(q) : q[i] = g
<1>. DEFINE n == Cardinality(S)
<1>1. n \in Nat
  BY FS_CardinalityType
<1>2. q \in [1 .. n -> S] /\ \A i, j \in 1 .. n : i # j => q[i] # q[j]
  BY DEF SetToSeqs
<1>3. q \in Seq(S) /\ Len(q) = n
  BY <1>1, <1>2
<1>. DEFINE N == 1 .. n
<1>4. IsFiniteSet(N) /\ Cardinality(N) = Cardinality(S)
  BY <1>1, FS_Interval
<1>5. \A x, y \in N : q[x] = q[y] => x = y
  BY <1>2
<1>6. \A g \in S : \E i \in N : q[i] = g
  <2>0. q \in [N -> S]
    BY <1>2
  <2>. HIDE DEF N
  <2>. QED
    BY <2>0, <1>4, <1>5, InjectiveIsOnto
<1>. QED
  BY <1>3, <1>6

-----------------------------------------------------------------------------
(* aggregate                                                               *)

LEMMA FloorIsBelow ==
    ASSUME NEW b \in Nat
    PROVE  /\ FloorMinute(b) \in Nat /\ FloorMinute(b) <= b
           /\ b <= LastBucket => FloorMinute(b) \in MinuteStarts
BY EdgeMetricsAssumption DEF FloorMinute, MinuteStarts

LEMMA FloorGrows ==
    ASSUME NEW a \in Nat, NEW b \in Nat, a <= b
    PROVE  FloorMinute(a) <= FloorMinute(b)
<1>. DEFINE B == BucketsPerMinute
<1>1. B \in Nat \ {0}
  BY EdgeMetricsAssumption
<1>2. /\ a \div B \in Nat /\ a % B \in 0 .. B - 1 /\ a = (B * (a \div B)) + (a % B)
      /\ b \div B \in Nat /\ b % B \in 0 .. B - 1 /\ b = (B * (b \div B)) + (b % B)
  BY <1>1
<1>. HIDE DEF B
<1>3. ASSUME NEW x \in Nat, NEW y \in Nat, x <= y
      PROVE  B * x <= B * y
  <2>. DEFINE d == y - x
  <2>1. d \in Nat /\ y = x + d
    BY <1>3
  <2>. HIDE DEF d
  <2>2. B * d \in Nat /\ B * x \in Nat
    BY <1>1, <2>1
  <2>3. B * (x + d) = B * x + B * d
    BY <1>1, <2>1
  <2>. QED
    BY <2>1, <2>2, <2>3
<1>4. a \div B <= b \div B
  <2>. SUFFICES ASSUME b \div B + 1 <= a \div B
                PROVE  FALSE
    BY <1>2
  <2>1. B * (b \div B + 1) <= B * (a \div B)
    BY <1>2, <1>3
  <2>2. B * (b \div B + 1) = B * (b \div B) + B
    BY <1>1, <1>2
  <2>. QED
    BY <1>1, <1>2, <2>1, <2>2
<1>5. B * (a \div B) <= B * (b \div B)
  BY <1>2, <1>3, <1>4
<1>6. FloorMinute(a) = B * (a \div B) /\ FloorMinute(b) = B * (b \div B)
  BY <1>1, <1>2 DEF FloorMinute, B
<1>. QED
  BY <1>5, <1>6

OneByOne(amount, some) == UNION {{e} \X (1 .. amount[e]) : e \in some}

LEMMA TotalsGrow ==
    ASSUME NEW amount \in [Edges -> Nat], NEW more \in [Edges -> Nat],
           \A e \in Edges : amount[e] <= more[e],
           NEW A, NEW C, A \subseteq C, C \subseteq Edges
    PROVE  /\ Total(amount, A) \in Nat /\ Total(more, C) \in Nat
           /\ Total(amount, A) <= Total(more, C)
<1>1. IsFiniteSet(C)
  BY FS_Subset, EdgeMetricsAssumption
<1>. DEFINE Each(e) == {e} \X (1 .. more[e])
            All     == {Each(e) : e \in C}
            f       == [e \in C |-> Each(e)]
<1>2. IsFiniteSet(All)
  <2>1. f \in Surjection(C, All)
    BY DEF Surjection
  <2>. HIDE DEF f, All
  <2>. QED
    BY <1>1, <2>1, FS_Surjection
<1>3. \A e \in C : IsFiniteSet(Each(e))
  <2>. TAKE e \in C
  <2>1. IsFiniteSet({e})
    BY FS_Singleton
  <2>2. IsFiniteSet(1 .. more[e])
    BY FS_Interval
  <2>. QED
    BY <2>1, <2>2, FS_Product
<1>4. IsFiniteSet(OneByOne(more, C))
  <2>1. \A T \in All : IsFiniteSet(T)
    BY <1>3
  <2>. HIDE DEF All
  <2>2. IsFiniteSet(UNION All)
    BY <1>2, <2>1, FS_UNION
  <2>. QED
    BY <2>2 DEF OneByOne, All
<1>5. OneByOne(amount, A) \subseteq OneByOne(more, C)
  <2>1. \A e \in A : {e} \X (1 .. amount[e]) \subseteq {e} \X (1 .. more[e])
    OBVIOUS
  <2>. QED
    BY <2>1 DEF OneByOne
<1>6. /\ Total(amount, A) = Cardinality(OneByOne(amount, A))
      /\ Total(more, C) = Cardinality(OneByOne(more, C))
  BY DEF Total, OneByOne
<1>7. /\ IsFiniteSet(OneByOne(amount, A))
      /\ Cardinality(OneByOne(amount, A)) <= Cardinality(OneByOne(more, C))
  BY <1>4, <1>5, FS_Subset
<1>8. Cardinality(OneByOne(amount, A)) \in Nat /\ Cardinality(OneByOne(more, C)) \in Nat
  BY <1>4, <1>7, FS_CardinalityType
<1>. QED
  BY <1>6, <1>7, <1>8

\* Every edge is in a group.
LEMMA GroupsAreWhole ==
    ASSUME NEW some, some \subseteq Edges, NEW label \in [Edges -> Nat]
    PROVE  /\ Grouped(some, label) \in Seq(MinuteStarts \X Nat)
           /\ \A e \in some : \E i \in 1 .. Len(Grouped(some, label)) :
                  e \in InGroup(some, label, Grouped(some, label)[i])
<1>. DEFINE K == GroupKeys(some, label)
            f == [e \in some |-> <<FloorMinute(BucketOf[e]), label[e]>>]
<1>1. IsFiniteSet(some)
  BY FS_Subset, EdgeMetricsAssumption
<1>2. K \subseteq MinuteStarts \X Nat /\ MinuteStarts \subseteq Nat
  <2>1. \A e \in some : BucketOf[e] \in Nat /\ BucketOf[e] <= LastBucket /\ label[e] \in Nat
    BY EdgeMetricsAssumption
  <2>2. \A e \in some : FloorMinute(BucketOf[e]) \in MinuteStarts
    BY <2>1, FloorIsBelow
  <2>3. MinuteStarts \subseteq Nat
    BY EdgeMetricsAssumption, FloorIsBelow DEF MinuteStarts
  <2>. QED
    BY <2>1, <2>2, <2>3 DEF GroupKeys
<1>3. IsFiniteSet(K)
  <2>1. f \in Surjection(some, K)
    BY DEF Surjection, GroupKeys
  <2>. HIDE DEF f, K
  <2>. QED
    BY <1>1, <2>1, FS_Surjection
<1>. HIDE DEF K
<1>4. \E q \in SetToSeqs(K) : InOrder(q)
  BY <1>2, <1>3, SetsAreSorted
<1>5. Grouped(some, label) \in SetToSeqs(K)
  BY <1>4 DEF Grouped, K
<1>6. /\ Grouped(some, label) \in Seq(K)
      /\ \A g \in K : \E i \in 1 .. Len(Grouped(some, label)) : Grouped(some, label)[i] = g
  BY <1>3, <1>5, ListsAreWhole
<1>7. \A e \in some : <<FloorMinute(BucketOf[e]), label[e]>> \in K
  BY DEF K, GroupKeys
<1>8. Grouped(some, label) \in Seq(MinuteStarts \X Nat)
  BY <1>2, <1>6
<1>9. ASSUME NEW e \in some
      PROVE  \E i \in 1 .. Len(Grouped(some, label)) : e \in InGroup(some, label, Grouped(some, label)[i])
  <2>1. PICK i \in 1 .. Len(Grouped(some, label)) :
            Grouped(some, label)[i] = <<FloorMinute(BucketOf[e]), label[e]>>
    BY <1>6, <1>7
  <2>. QED
    BY <2>1 DEF InGroup
<1>. QED
  BY <1>8, <1>9

LEMMA PointsCover ==
    ASSUME NEW some, some \subseteq Edges, NEW label \in [Edges -> Nat],
           NEW amount \in [Edges -> Nat], \A e \in Edges : amount[e] <= CallsOf[e],
           NEW labelled \in Measures, NEW plain \in Measures
    PROVE  LET ps == PointsOf(some, label, amount, labelled, plain) IN
           /\ ps \in Seq(Points(some))
           /\ \A e \in some : \E n \in 1 .. Len(ps) : e \in ps[n].from
           /\ \A n \in 1 .. Len(ps) : ps[n].value <= Total(CallsOf, OfMinute(some, ps[n].key[2]))
<1>. DEFINE G  == Grouped(some, label)
            L  == 2 * Len(G)
            g(n)    == G[(n + 1) \div 2]
            mine(n) == InGroup(some, label, g(n))
            ps == PointsOf(some, label, amount, labelled, plain)
<1>1. /\ G \in Seq(MinuteStarts \X Nat)
      /\ \A e \in some : \E i \in 1 .. Len(G) : e \in InGroup(some, label, G[i])
  BY GroupsAreWhole
<1>2. ps = [n \in 1 .. L |->
               [key   |-> IF n % 2 = 1 THEN <<labelled, g(n)[1], g(n)[2]>> ELSE <<plain, g(n)[1], 0>>,
                value |-> Total(amount, mine(n)), from |-> mine(n)]]
  BY DEF PointsOf
<1>. HIDE DEF G, ps
<1>3. L \in Nat /\ \A n \in 1 .. L : (n + 1) \div 2 \in 1 .. Len(G)
  BY <1>1
<1>4. \A n \in 1 .. L : g(n) \in MinuteStarts \X Nat
  BY <1>1, <1>3
<1>5. ASSUME NEW n \in 1 .. L
      PROVE  /\ mine(n) \subseteq some
             /\ Total(amount, mine(n)) \in Nat
             /\ Total(amount, mine(n)) <= Total(CallsOf, OfMinute(some, g(n)[1]))
  <2>1. mine(n) \subseteq OfMinute(some, g(n)[1])
    BY DEF InGroup, OfMinute
  <2>2. OfMinute(some, g(n)[1]) \subseteq Edges /\ OfMinute(some, g(n)[1]) \subseteq some
    BY DEF OfMinute
  <2>. DEFINE M == OfMinute(some, g(n)[1])
              D == mine(n)
  <2>3. D \subseteq M /\ M \subseteq Edges /\ M \subseteq some
    BY <2>1, <2>2
  <2>. HIDE DEF M, D
  <2>4. CallsOf \in [Edges -> Nat]
    BY EdgeMetricsAssumption
  <2>5. Total(amount, D) \in Nat /\ Total(amount, D) <= Total(CallsOf, M)
    BY <2>3, <2>4, TotalsGrow
  <2>. QED
    BY <2>3, <2>5 DEF M, D
<1>6. ASSUME NEW n \in 1 .. L
      PROVE  /\ ps[n] \in Points(some) /\ ps[n].from = mine(n)
             /\ ps[n].value = Total(amount, mine(n)) /\ ps[n].key[2] = g(n)[1]
  <2>1. /\ ps[n].key = IF n % 2 = 1 THEN <<labelled, g(n)[1], g(n)[2]>> ELSE <<plain, g(n)[1], 0>>
        /\ ps[n].value = Total(amount, mine(n)) /\ ps[n].from = mine(n)
        /\ ps[n] = [key |-> ps[n].key, value |-> ps[n].value, from |-> ps[n].from]
    BY <1>2
  <2>2. g(n)[1] \in MinuteStarts /\ g(n)[2] \in Nat
    BY <1>4
  <2>3. ps[n].key \in Keys /\ ps[n].key[2] = g(n)[1]
    BY <2>1, <2>2 DEF Keys
  <2>. HIDE DEF g, mine
  <2>. QED
    BY <2>1, <2>3, <1>5 DEF Points
<1>7. ps \in Seq(Points(some)) /\ Len(ps) = L
  <2>1. DOMAIN ps = 1 .. L /\ ps = [n \in 1 .. L |-> ps[n]]
    BY <1>2
  <2>. DEFINE P == Points(some)
  <2>2. L \in Nat /\ \A n \in 1 .. L : ps[n] \in P
    BY <1>3, <1>6
  <2>. HIDE DEF L, P
  <2>3. ps \in [1 .. L -> P]
    BY <2>1, <2>2
  <2>4. ps \in Seq(P) /\ Len(ps) = L
    BY <2>2, <2>3
  <2>. QED
    BY <2>4 DEF P
<1>8. \A e \in some : \E n \in 1 .. L : e \in ps[n].from
  <2>. SUFFICES ASSUME NEW e \in some
                PROVE  \E n \in 1 .. L : e \in ps[n].from
    OBVIOUS
  <2>1. PICK i \in 1 .. Len(G) : e \in InGroup(some, label, G[i])
    BY <1>1
  <2>2. 2 * i \in 1 .. L /\ (2 * i + 1) \div 2 = i
    BY <1>1
  <2>3. ps[2 * i].from = mine(2 * i)
    BY <2>2, <1>6
  <2>. QED
    BY <2>1, <2>2, <2>3
<1>9. \A n \in 1 .. L : ps[n].value <= Total(CallsOf, OfMinute(some, ps[n].key[2]))
  BY <1>5, <1>6
<1>. QED
  BY <1>7, <1>8, <1>9 DEF ps

LEMMA RollUpCovers ==
    ASSUME NEW some, some \subseteq Edges
    PROVE  /\ RollUp(some) \in Seq(Points(some))
           /\ \A e \in some : \E n \in 1 .. Len(RollUp(some)) : e \in RollUp(some)[n].from
           /\ \A n \in 1 .. Len(RollUp(some)) :
                 RollUp(some)[n].value <= Total(CallsOf, OfMinute(some, RollUp(some)[n].key[2]))
<1>. DEFINE failed == {e \in some : FailsOf[e] > 0}
            a == PointsOf(some, PortOf, CallsOf, "connections", "requests")
            b == PointsOf(failed, ReasonOf, FailsOf, "failures", "errors")
<1>1. /\ PortOf \in [Edges -> Nat] /\ ReasonOf \in [Edges -> Nat]
      /\ CallsOf \in [Edges -> Nat] /\ FailsOf \in [Edges -> Nat]
      /\ \A e \in Edges : CallsOf[e] <= CallsOf[e] /\ FailsOf[e] <= CallsOf[e]
  BY EdgeMetricsAssumption
<1>2. failed \subseteq some /\ failed \subseteq Edges
  OBVIOUS
<1>. HIDE DEF failed
<1>3. {"connections", "requests", "failures", "errors"} \subseteq Measures
  BY DEF Measures
<1>4. /\ a \in Seq(Points(some))
      /\ \A e \in some : \E n \in 1 .. Len(a) : e \in a[n].from
      /\ \A n \in 1 .. Len(a) : a[n].value <= Total(CallsOf, OfMinute(some, a[n].key[2]))
  BY <1>1, <1>3, PointsCover
<1>5. /\ b \in Seq(Points(failed))
      /\ \A n \in 1 .. Len(b) : b[n].value <= Total(CallsOf, OfMinute(failed, b[n].key[2]))
  BY <1>1, <1>2, <1>3, PointsCover
<1>6. RollUp(some) = a \o b
  BY DEF RollUp, failed
<1>. HIDE DEF a, b
<1>7. b \in Seq(Points(some))
  <2>1. Points(failed) \subseteq Points(some)
    BY <1>2 DEF Points
  <2>. HIDE DEF Points
  <2>. QED
    BY <2>1, <1>5
<1>8. ASSUME NEW m
      PROVE  /\ Total(CallsOf, OfMinute(failed, m)) \in Nat
             /\ Total(CallsOf, OfMinute(some, m)) \in Nat
             /\ Total(CallsOf, OfMinute(failed, m)) <= Total(CallsOf, OfMinute(some, m))
  <2>. DEFINE A == OfMinute(failed, m)
              C == OfMinute(some, m)
  <2>1. A \subseteq C /\ C \subseteq Edges
    BY <1>2 DEF OfMinute
  <2>. HIDE DEF A, C
  <2>2. Total(CallsOf, A) \in Nat /\ Total(CallsOf, C) \in Nat /\ Total(CallsOf, A) <= Total(CallsOf, C)
    BY <1>1, <2>1, TotalsGrow
  <2>. QED
    BY <2>2 DEF A, C
<1>9. ASSUME NEW n \in 1 .. Len(b)
      PROVE  b[n].value <= Total(CallsOf, OfMinute(some, b[n].key[2]))
  <2>. HIDE DEF Points
  <2>0. b[n] \in Points(some)
    BY <1>7
  <2>1. b[n].value \in Nat
    BY <2>0 DEF Points
  <2>. QED
    BY <2>1, <1>5, <1>8
<1>. HIDE DEF Points, OfMinute
<1>10. a \o b \in Seq(Points(some))
  BY <1>4, <1>7
<1>11. /\ Len(a \o b) = Len(a) + Len(b) /\ Len(a) \in Nat /\ Len(b) \in Nat
       /\ \A n \in 1 .. Len(a) : (a \o b)[n] = a[n]
       /\ \A n \in 1 .. Len(a \o b) : n > Len(a) => n - Len(a) \in 1 .. Len(b) /\ (a \o b)[n] = b[n - Len(a)]
  BY <1>4, <1>7
<1>12. \A e \in some : \E n \in 1 .. Len(a \o b) : e \in (a \o b)[n].from
  BY <1>4, <1>11
<1>13. ASSUME NEW n \in 1 .. Len(a \o b)
       PROVE  (a \o b)[n].value <= Total(CallsOf, OfMinute(some, (a \o b)[n].key[2]))
  <2>1. CASE n <= Len(a)
    BY <2>1, <1>4, <1>11
  <2>2. CASE n > Len(a)
    BY <2>2, <1>9, <1>11
  <2>. QED
    BY <1>11, <2>1, <2>2
<1>. QED
  BY <1>6, <1>10, <1>12, <1>13
-----------------------------------------------------------------------------
(* run_once                                                                *)

LEMMA MinutesAreNumbers ==
    /\ MinuteStarts \subseteq Nat /\ \A m \in MinuteStarts : m <= LastBucket
    /\ Unaligned \in Nat /\ Unaligned \notin MinuteStarts /\ Unaligned > LastBucket
<1>1. \A b \in 0 .. LastBucket : FloorMinute(b) \in Nat /\ FloorMinute(b) <= LastBucket
  <2>. TAKE b \in 0 .. LastBucket
  <2>1. b \in Nat /\ b <= LastBucket /\ LastBucket \in Nat
    BY EdgeMetricsAssumption
  <2>2. FloorMinute(b) \in Nat /\ FloorMinute(b) <= b
    BY <2>1, FloorIsBelow
  <2>. QED
    BY <2>1, <2>2
<1>2. MinuteStarts \subseteq Nat /\ \A m \in MinuteStarts : m <= LastBucket
  BY <1>1 DEF MinuteStarts
<1>. QED
  BY <1>2, EdgeMetricsAssumption DEF Unaligned

LEMMA DueIsAMinute ==
    ASSUME tick \in 1 .. LastBucket
    PROVE  Due \in MinuteStarts
<1>1. tick \in Nat /\ Lag \in Nat /\ LastBucket \in Nat /\ tick <= LastBucket
  BY EdgeMetricsAssumption
<1>2. CASE tick >= Lag
  <2>. DEFINE b == tick - Lag
  <2>1. b \in Nat /\ b <= LastBucket
    BY <1>1, <1>2
  <2>. HIDE DEF b
  <2>2. FloorMinute(b) \in MinuteStarts
    BY <2>1, FloorIsBelow
  <2>. QED
    BY <1>2, <2>2 DEF Due, b
<1>3. CASE ~(tick >= Lag)
  <2>1. FloorMinute(0) = 0
    BY FloorIsBelow
  <2>2. FloorMinute(0) \in MinuteStarts
    BY <1>1, FloorIsBelow
  <2>. QED
    BY <1>3, <2>1, <2>2 DEF Due
<1>. QED
  BY <1>2, <1>3

LEMMA DueGrows ==
    ASSUME tick \in 1 .. LastBucket, tick' = tick + 1
    PROVE  Due <= Due'
<1>1. tick \in Nat /\ tick' \in Nat /\ Lag \in Nat
  BY EdgeMetricsAssumption
<1>2. CASE tick >= Lag
  <2>. DEFINE a == tick - Lag
              b == tick + 1 - Lag
  <2>1. a \in Nat /\ b \in Nat /\ a <= b
    BY <1>1, <1>2
  <2>2. FloorMinute(a) <= FloorMinute(b)
    <3>. HIDE DEF a, b
    <3>. QED
      BY <2>1, FloorGrows
  <2>3. Due = FloorMinute(a) /\ Due' = FloorMinute(b)
    BY <1>1, <1>2 DEF Due
  <2>. QED
    BY <2>2, <2>3
<1>3. CASE ~(tick >= Lag) /\ tick' >= Lag
  <2>. DEFINE b == tick' - Lag
  <2>1. b \in Nat
    BY <1>1, <1>3
  <2>2. FloorMinute(b) \in Nat
    <3>. HIDE DEF b
    <3>. QED
      BY <2>1, FloorIsBelow
  <2>3. Due = 0 /\ Due' = FloorMinute(b)
    BY <1>1, <1>3 DEF Due
  <2>. QED
    BY <2>2, <2>3
<1>4. CASE ~(tick >= Lag) /\ ~(tick' >= Lag)
  BY <1>4 DEF Due
<1>. QED
  BY <1>1, <1>2, <1>3, <1>4

LEMMA WithinGrows ==
    ASSUME NEW A, NEW C, A \subseteq C, C \subseteq Edges, NEW k, NEW v, Within(A, k, v)
    PROVE  Within(C, k, v)
<1>. DEFINE S == OfMinute(A, k[2])
            T == OfMinute(C, k[2])
<1>1. S \subseteq T /\ T \subseteq Edges
  BY DEF OfMinute
<1>2. CallsOf \in [Edges -> Nat] /\ \A e \in Edges : CallsOf[e] <= CallsOf[e]
  BY EdgeMetricsAssumption
<1>. HIDE DEF S, T
<1>3. Total(CallsOf, S) \in Nat /\ Total(CallsOf, T) \in Nat /\ Total(CallsOf, S) <= Total(CallsOf, T)
  BY <1>1, <1>2, TotalsGrow
<1>4. k \in Keys /\ v \in Nat /\ v <= Total(CallsOf, S)
  BY DEF Within, S
<1>5. v <= Total(CallsOf, T)
  BY <1>3, <1>4
<1>. QED
  BY <1>4, <1>5 DEF Within, T

LEMMA MetricInitially == MetricInit => MetricInv
<1>. SUFFICES ASSUME MetricInit
              PROVE  MetricInv
  OBVIOUS
<1>. USE DEF MetricInit
<1>1. MetricTypeOK
  BY EdgeMetricsAssumption DEF MetricTypeOK, NoRound
<1>2. MarksAreDue
  BY DEF MarksAreDue, Running
<1>3. TodoIsTrue
  BY DEF TodoIsTrue, NoRound
<1>4. PointsAreWithin
  BY DEF PointsAreWithin
<1>5. PassedIsCounted
  BY DEF PassedIsCounted
<1>. QED
  BY <1>1, <1>2, <1>3, <1>4, <1>5 DEF MetricInv

LEMMA AlignKeeps == MetricInv /\ Align => MetricInv'
<1>. SUFFICES ASSUME MetricInv, Align
              PROVE  MetricInv'
  OBVIOUS
<1>. USE DEF MetricInv, Align
<1>1. Due \in MinuteStarts /\ Due \in Nat /\ Due # Unaligned
  BY DueIsAMinute, MinutesAreNumbers DEF MetricTypeOK
<1>2. Due' = Due
  BY DEF Due
<1>. HIDE DEF MetricInv
<1>3. MetricTypeOK'
  BY <1>1 DEF MetricTypeOK, MetricInv
<1>4. MarksAreDue'
  BY <1>1, <1>2 DEF MarksAreDue, Running
<1>5. TodoIsTrue'
  BY DEF TodoIsTrue, Running, MetricInv
<1>6. PointsAreWithin'
  BY DEF PointsAreWithin, MetricInv
<1>7. PassedIsCounted'
  BY <1>1, EdgeMetricsAssumption DEF PassedIsCounted, MetricTypeOK, MetricInv
<1>. QED
  BY <1>3, <1>4, <1>5, <1>6, <1>7 DEF MetricInv

LEMMA LoadRowsKeeps == MetricInv /\ LoadRows => MetricInv'
<1>. SUFFICES ASSUME MetricInv, LoadRows
              PROVE  MetricInv'
  OBVIOUS
<1>. USE DEF LoadRows
<1>1. Due \in MinuteStarts /\ Due \in Nat /\ Due # Unaligned /\ Due' = Due
  BY DueIsAMinute, MinutesAreNumbers DEF MetricTypeOK, MetricInv, Due
<1>2. Window \subseteq stored /\ Window \subseteq Edges
  BY DEF Window, MetricTypeOK, MetricInv
<1>3. /\ RollUp(Window) \in Seq(Points(Window))
      /\ \A e \in Window : \E n \in 1 .. Len(RollUp(Window)) : e \in RollUp(Window)[n].from
      /\ \A n \in 1 .. Len(RollUp(Window)) :
            RollUp(Window)[n].value <= Total(CallsOf, OfMinute(Window, RollUp(Window)[n].key[2]))
  BY <1>2, RollUpCovers
<1>. DEFINE r == RollUp(Window)
<1>4. round' = [upper |-> Due, todo |-> r] /\ round'.upper = Due /\ round'.todo = r
  OBVIOUS
<1>5. MetricTypeOK'
  BY <1>1, <1>4 DEF MetricTypeOK, MetricInv
<1>6. MarksAreDue'
  BY <1>1, <1>4, MinutesAreNumbers DEF MarksAreDue, MetricTypeOK, MetricInv
<1>. HIDE DEF r
<1>7. r \in Seq(Points(stored)) /\ DOMAIN r = 1 .. Len(r)
  <2>1. Points(Window) \subseteq Points(stored)
    BY <1>2 DEF Points
  <2>. HIDE DEF Points
  <2>. QED
    BY <2>1, <1>3 DEF r
<1>8. ASSUME NEW n \in DOMAIN r
      PROVE  Within(stored, r[n].key, r[n].value)
  <2>1. r[n] \in Points(Window) /\ r[n].value <= Total(CallsOf, OfMinute(Window, r[n].key[2]))
    <3>. HIDE DEF Points
    <3>. QED
      BY <1>3, <1>7 DEF r
  <2>2. Within(Window, r[n].key, r[n].value)
    BY <2>1 DEF Within, Points
  <2>3. stored \subseteq Edges
    BY DEF MetricTypeOK, MetricInv
  <2>. QED
    BY <1>2, <2>2, <2>3, WithinGrows
<1>9. ASSUME NEW e \in stored, mark < BucketOf[e], BucketOf[e] <= Due
      PROVE  \E n \in DOMAIN r : e \in r[n].from
  <2>1. e \in Window
    BY <1>9 DEF Window
  <2>. QED
    BY <2>1, <1>3, <1>7 DEF r
<1>10. TodoIsTrue'
  BY <1>1, <1>4, <1>7, <1>8, <1>9 DEF TodoIsTrue
<1>11. PointsAreWithin'
  BY DEF PointsAreWithin, MetricInv
<1>12. PassedIsCounted'
  BY DEF PassedIsCounted, MetricInv
<1>. QED
  BY <1>5, <1>6, <1>10, <1>11, <1>12 DEF MetricInv

LEMMA WritePointKeeps == MetricInv /\ WritePoint => MetricInv'
<1>. SUFFICES ASSUME MetricInv, WritePoint
              PROVE  MetricInv'
  OBVIOUS
<1>. USE DEF WritePoint
<1>. DEFINE p    == Head(round.todo)
            rest == Tail(round.todo)
<1>1. /\ round.todo \in Seq(Points(stored)) /\ round.todo # <<>>
      /\ \A n \in DOMAIN round.todo : Within(stored, round.todo[n].key, round.todo[n].value)
  BY DEF TodoIsTrue, MetricInv
<1>2. /\ p = round.todo[1] /\ 1 \in DOMAIN round.todo /\ rest \in Seq(Points(stored))
      /\ \A n \in DOMAIN rest : n + 1 \in DOMAIN round.todo /\ rest[n] = round.todo[n + 1]
      /\ \A n \in DOMAIN round.todo : n # 1 => n - 1 \in DOMAIN rest /\ rest[n - 1] = round.todo[n]
  <2>. HIDE DEF Points
  <2>. QED
    BY <1>1
<1>3. p \in Points(stored) /\ p.from \subseteq stored /\ Within(stored, p.key, p.value)
  <2>1. p \in Points(stored)
    <3>. HIDE DEF Points
    <3>. QED
      BY <1>1, <1>2
  <2>. QED
    BY <1>1, <1>2, <2>1 DEF Points
<1>4. p.key \in Keys /\ p.value \in Nat
  BY <1>3 DEF Within
<1>5. round'.upper = round.upper /\ round'.todo = rest /\ pointed' = pointed \cup p.from
  BY DEF TodoIsTrue, MetricInv
<1>. HIDE DEF p, rest
<1>6. DOMAIN point' = DOMAIN point \cup {p.key}
      /\ \A k \in DOMAIN point' : point'[k] = IF k = p.key THEN p.value ELSE point[k]
  BY DEF PointWritten, p
<1>7. MetricTypeOK'
  BY <1>3, <1>4, <1>5, <1>6 DEF MetricTypeOK, MetricInv
<1>8. MarksAreDue'
  BY <1>5 DEF MarksAreDue, MetricInv, Running, Due
<1>9. TodoIsTrue'
  <2>1. round' \in [upper : MinuteStarts \cup {Unaligned}, todo : Seq(Points(stored))]
    <3>. HIDE DEF Points
    <3>. QED
      BY <1>2, <1>5 DEF TodoIsTrue, MetricInv, rest
  <2>2. ASSUME NEW e \in stored \ behind, mark < BucketOf[e], BucketOf[e] <= round.upper,
               e \notin pointed'
        PROVE  \E n \in DOMAIN rest : e \in rest[n].from
    <3>1. PICK n \in DOMAIN round.todo : e \in round.todo[n].from
      BY <2>2 DEF TodoIsTrue, MetricInv, Running
    <3>2. n # 1
      BY <2>2, <3>1, <1>2, <1>5
    <3>. QED
      BY <3>1, <3>2, <1>2
  <2>. QED
    BY <1>1, <1>2, <1>5, <2>1, <2>2 DEF TodoIsTrue
<1>10. PointsAreWithin'
  BY <1>3, <1>6 DEF PointsAreWithin, MetricInv
<1>11. PassedIsCounted'
  BY <1>5 DEF PassedIsCounted, MetricInv
<1>. QED
  BY <1>7, <1>8, <1>9, <1>10, <1>11 DEF MetricInv

LEMMA MoveMarkKeeps == MetricInv /\ MoveMark => MetricInv'
<1>. SUFFICES ASSUME MetricInv, MoveMark
              PROVE  MetricInv'
  OBVIOUS
<1>. USE DEF MoveMark
<1>1. mark # Unaligned /\ mark < round.upper /\ round.upper <= Due /\ round.upper \in MinuteStarts \cup {Unaligned}
  BY DEF MarksAreDue, TodoIsTrue, MetricInv
<1>2. Due \in MinuteStarts /\ Due' = Due
  BY DueIsAMinute DEF MetricTypeOK, MetricInv, Due
<1>3. round.upper \in MinuteStarts /\ round.upper # Unaligned
  BY <1>1, <1>2, MinutesAreNumbers, EdgeMetricsAssumption
<1>4. MetricTypeOK'
  BY <1>3 DEF MetricTypeOK, MetricInv, NoRound
<1>5. MarksAreDue'
  BY <1>1, <1>2, <1>3 DEF MarksAreDue, MetricInv, Running
<1>6. TodoIsTrue'
  BY DEF TodoIsTrue, MetricInv, NoRound
<1>7. PointsAreWithin'
  BY DEF PointsAreWithin, MetricInv
<1>8. PassedIsCounted'
  <2>. SUFFICES ASSUME NEW e \in stored \ behind, aligned < BucketOf[e], BucketOf[e] <= round.upper
                PROVE  e \in pointed
    BY DEF PassedIsCounted
  <2>1. CASE BucketOf[e] <= mark
    BY <1>1, <2>1 DEF PassedIsCounted, MetricInv
  <2>2. CASE mark < BucketOf[e]
    BY <2>2 DEF TodoIsTrue, MetricInv, Running
  <2>3. BucketOf[e] \in Nat /\ mark \in Nat
    <3>1. e \in Edges /\ mark \in MinuteStarts \cup {Unaligned}
      BY DEF MetricTypeOK, MetricInv
    <3>2. BucketOf[e] \in 1 .. LastBucket
      BY <3>1, EdgeMetricsAssumption
    <3>. QED
      BY <3>1, <3>2, MinutesAreNumbers
  <2>. QED
    BY <2>1, <2>2, <2>3
<1>. QED
  BY <1>4, <1>5, <1>6, <1>7, <1>8 DEF MetricInv

LEMMA StopKeeps == MetricInv /\ Stop => MetricInv'
<1>. SUFFICES ASSUME MetricInv, Stop
              PROVE  MetricInv'
  OBVIOUS
<1>. USE DEF Stop, StoppedMark
<1>1. MetricTypeOK'
  BY EdgeMetricsAssumption DEF MetricTypeOK, MetricInv, NoRound
<1>2. MarksAreDue'
  BY DEF MarksAreDue, MetricInv, Running, Due
<1>3. TodoIsTrue'
  BY DEF TodoIsTrue, MetricInv, NoRound
<1>4. PointsAreWithin'
  BY DEF PointsAreWithin, MetricInv
<1>5. PassedIsCounted'
  BY DEF PassedIsCounted, MetricInv
<1>. QED
  BY <1>1, <1>2, <1>3, <1>4, <1>5 DEF MetricInv

LEMMA NextBucketKeeps == MetricInv /\ NextBucket => MetricInv'
<1>. SUFFICES ASSUME MetricInv, NextBucket
              PROVE  MetricInv'
  OBVIOUS
<1>. USE DEF NextBucket
<1>1. tick \in 1 .. LastBucket /\ tick' \in 1 .. LastBucket
  BY EdgeMetricsAssumption DEF MetricTypeOK, MetricInv
<1>2. Due \in MinuteStarts /\ Due <= Due'
  BY <1>1, DueIsAMinute, DueGrows
<1>3. Due' \in MinuteStarts
  <2>1. tick \in 1 .. LastBucket => Due \in MinuteStarts
    BY DueIsAMinute
  <2>. QED
    BY <1>1, <2>1, MinutesAreNumbers, EdgeMetricsAssumption, FloorIsBelow DEF Due
<1>4. MetricTypeOK'
  BY <1>1 DEF MetricTypeOK, MetricInv
<1>5. MarksAreDue'
  <2>1. Due \in Nat /\ Due' \in Nat
    BY <1>2, <1>3, MinutesAreNumbers
  <2>2. mark \in Nat /\ round.upper \in Nat
    BY MinutesAreNumbers DEF MetricTypeOK, TodoIsTrue, MetricInv
  <2>3. /\ mark <= Due => mark <= Due'
        /\ round.upper <= Due => round.upper <= Due'
    BY <1>2, <2>1, <2>2
  <2>. QED
    BY <2>3 DEF MarksAreDue, MetricInv, Running
<1>6. TodoIsTrue'
  BY DEF TodoIsTrue, MetricInv
<1>7. PointsAreWithin'
  BY DEF PointsAreWithin, MetricInv
<1>8. PassedIsCounted'
  BY DEF PassedIsCounted, MetricInv
<1>. QED
  BY <1>4, <1>5, <1>6, <1>7, <1>8 DEF MetricInv

\* An edge that comes when its minute is due is one of those behind.
LEMMA StoreEdgeKeeps ==
    ASSUME MetricInv, NEW e \in Edges, StoreEdge(e)
    PROVE  MetricInv'
<1>. USE DEF StoreEdge
<1>1. stored' \subseteq Edges /\ stored \subseteq stored' /\ behind \subseteq behind'
  BY DEF MetricTypeOK, MetricInv
<1>2. /\ \A d \in stored' \ behind' : d = e \/ d \in stored \ behind
      /\ e \in stored' \ behind' => ~(BucketOf[e] <= Due)
  BY DEF MetricTypeOK, MetricInv
<1>3. Due' = Due /\ Due \in Nat /\ BucketOf[e] \in Nat
  <2>1. Due' = Due
    BY DEF Due
  <2>2. Due \in Nat
    BY DueIsAMinute, MinutesAreNumbers DEF MetricTypeOK, MetricInv
  <2>3. BucketOf[e] \in Nat
    BY EdgeMetricsAssumption
  <2>. QED
    BY <2>1, <2>2, <2>3
<1>4. MetricTypeOK'
  BY DEF MetricTypeOK, MetricInv
<1>5. MarksAreDue'
  BY <1>3 DEF MarksAreDue, MetricInv, Running
<1>6. \A k, v : Within(stored, k, v) => Within(stored', k, v)
  BY <1>1, WithinGrows
<1>7. round \in [upper : MinuteStarts \cup {Unaligned}, todo : Seq(Points(stored'))]
  <2>1. Points(stored) \subseteq Points(stored')
    BY <1>1 DEF Points
  <2>2. round \in [upper : MinuteStarts \cup {Unaligned}, todo : Seq(Points(stored))]
    BY DEF TodoIsTrue, MetricInv
  <2>. DEFINE P == Points(stored)
              Q == Points(stored')
  <2>. HIDE DEF P, Q
  <2>3. P \subseteq Q
    BY <2>1 DEF P, Q
  <2>4. Seq(P) \subseteq Seq(Q)
    BY <2>3
  <2>. QED
    BY <2>2, <2>4 DEF P, Q
<1>8. TodoIsTrue'
  <2>1. round # NoRound => \A d \in stored' \ behind' :
            mark < BucketOf[d] /\ BucketOf[d] <= round.upper => d \in stored \ behind
    <3>. SUFFICES ASSUME round # NoRound, e \in stored' \ behind', BucketOf[e] <= round.upper
                  PROVE  FALSE
      BY <1>2
    <3>1. round.upper \in Nat /\ round.upper <= Due
      BY <1>7, MinutesAreNumbers DEF MarksAreDue, Running, MetricInv
    <3>. QED
      BY <3>1, <1>2, <1>3
  <2>. QED
    BY <1>6, <1>7, <2>1 DEF TodoIsTrue, MetricInv
<1>9. PointsAreWithin'
  BY <1>6 DEF PointsAreWithin, MetricInv
<1>10. PassedIsCounted'
  <2>1. mark # Unaligned /\ e \in stored' \ behind' => ~(BucketOf[e] <= mark)
    <3>. SUFFICES ASSUME mark # Unaligned, e \in stored' \ behind', BucketOf[e] <= mark
                  PROVE  FALSE
      OBVIOUS
    <3>1. mark \in Nat /\ mark <= Due
      BY MinutesAreNumbers DEF MarksAreDue, MetricTypeOK, MetricInv
    <3>. QED
      BY <3>1, <1>2, <1>3
  <2>. QED
    BY <1>2, <2>1 DEF PassedIsCounted, MetricInv
<1>. QED
  BY <1>4, <1>5, <1>8, <1>9, <1>10 DEF MetricInv

LEMMA MetricStays == MetricInv /\ [MetricNext]_metricVars => MetricInv'
<1>. SUFFICES ASSUME MetricInv, [MetricNext]_metricVars
              PROVE  MetricInv'
  OBVIOUS
<1>1. CASE UNCHANGED metricVars
  BY <1>1 DEF metricVars, MetricInv, MetricTypeOK, MarksAreDue, TodoIsTrue, PointsAreWithin, PassedIsCounted,
              Running, Due
<1>2. CASE MetricNext
  BY <1>2, AlignKeeps, LoadRowsKeeps, WritePointKeeps, MoveMarkKeeps, StopKeeps, NextBucketKeeps,
     StoreEdgeKeeps DEF MetricNext
<1>. QED
  BY <1>1, <1>2

LEMMA MetricInvSuffices == MetricInv => MetricTypeOK /\ ReplayIsExact
BY DEF MetricInv, ReplayIsExact, NeverOvercounted, PointsAreWithin, Within, OfMinute

\* A round that an error or a crash cut off is repeated from the watermark:
\* no edge that came in time is skipped, and none is counted twice.
THEOREM ReplayStaysExact == MetricSpec => [](MetricTypeOK /\ ReplayIsExact)
<1>1. MetricInit => MetricInv
  BY MetricInitially
<1>2. MetricInv /\ [MetricNext]_metricVars => MetricInv'
  BY MetricStays
<1>3. MetricInv => MetricTypeOK /\ ReplayIsExact
  BY MetricInvSuffices
<1>. QED
  BY <1>1, <1>2, <1>3, PTL DEF MetricSpec
=============================================================================
