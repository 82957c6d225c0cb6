-------------------------------- MODULE MCData --------------------------------
(***************************************************************************)
(* The dataserver.  Its parts share no variable: they meet only in the     *)
(* stores, whose single statements are atomic, and each module keeps the   *)
(* rows it reads and writes.  So `part` lets a behaviour be one of a       *)
(* single part, and one run checks them all.  Aliases and endpoints share  *)
(* the count of changed rows, which AnotherStatement may set to anything.  *)
(***************************************************************************)
EXTENDS DataIngest, DataRetention, ApmSpans, EdgeMetrics, ApmNames, DataInput, DataQuery

CONSTANTS w1, w2, r1, r2, ep, Vacant

\* The spans that the OTLP receiver of an agent makes.
Otlp == INSTANCE OtlpInput

VARIABLE part

Parts == {"ingest", "retention", "traces", "edges", "metrics", "aliases", "endpoints", "inputs"}

-----------------------------------------------------------------------------

\* A batch with a record that fails, and one with a point that is too old.
MCBatches == << <<"log", "bad", "span">>, <<"span", "edge", "late", "log2">> >>
MCKind    == [log |-> "logs", bad |-> "logs", span |-> "traces", edge |-> "edges",
              late |-> "metrics", log2 |-> "logs"]

\* Two roots and an error in one trace, another trace with one span.
MCTrace == [a |-> "t", b |-> "t", c |-> "t", d |-> "u"]
MCStart == [a |-> 2, b |-> 1, c |-> 2, d |-> 1]
MCEnd   == [a |-> 2, b |-> 3, c |-> 3, d |-> 1]

\* A client with two servers, and a client whose server comes a minute later.
MCPeer    == [s1 |-> "c1", s2 |-> "c1", s3 |-> "c2"]
MCParent  == [c1 |-> "p", c2 |-> "p"]
MCAt      == [c1 |-> 0, s1 |-> 0, s2 |-> 1, c2 |-> 1, s3 |-> 1]
MCService == [c1 |-> "A", c2 |-> "A", s1 |-> "B", s2 |-> "C", s3 |-> "B"]

\* Two ports and two reasons in the buckets of two minutes.
MCBucket == [e1 |-> 2, e2 |-> 3, e3 |-> 3, e4 |-> 4]
MCPort   == [e1 |-> 80, e2 |-> 80, e3 |-> 81, e4 |-> 80]
MCReason == [e1 |-> 1, e2 |-> 1, e3 |-> 2, e4 |-> 1]
MCCalls  == [e1 |-> 1, e2 |-> 2, e3 |-> 1, e4 |-> 1]
MCFails  == [e1 |-> 0, e2 |-> 1, e3 |-> 1, e4 |-> 1]

-----------------------------------------------------------------------------

MCInit ==
    /\ part \in Parts
    /\ IngestInit /\ RetentionInit /\ TraceInit /\ EdgeInit /\ MetricInit /\ NamesInit
    /\ part # "retention" => wanted = [i \in Items |-> 1] /\ holds = [i \in Items |-> "logs"]

\* What each part changes, and all the others leave alone.
MCNext ==
    /\ UNCHANGED part
    /\ \/ /\ part = "ingest" /\ IngestNext
          /\ UNCHANGED <<retentionVars, traceVars, edgeVars, metricVars, nameVars>>
       \/ /\ part = "retention" /\ RetentionNext
          /\ UNCHANGED <<ingestVars, traceVars, edgeVars, metricVars, nameVars>>
       \/ /\ part = "traces" /\ TraceNext
          /\ UNCHANGED <<ingestVars, retentionVars, edgeVars, metricVars, nameVars>>
       \/ /\ part = "edges" /\ EdgeNext
          /\ UNCHANGED <<ingestVars, retentionVars, traceVars, metricVars, nameVars>>
       \/ /\ part = "metrics" /\ MetricNext
          /\ UNCHANGED <<ingestVars, retentionVars, traceVars, edgeVars, nameVars>>
       \/ /\ \/ part = "aliases" /\ UNCHANGED endpointVars
             \/ part = "endpoints" /\ UNCHANGED <<revision, present, version, loaded, editor, lookup>>
          /\ NamesNext
          /\ UNCHANGED <<ingestVars, retentionVars, traceVars, edgeVars, metricVars>>

MCSpec ==
    MCInit /\ [][MCNext]_<<part, ingestVars, retentionVars, traceVars, edgeVars, metricVars, nameVars>>

\* What the dataserver computes on records and rows, what its searches give,
\* and what it accepts of the spans that agents send: functions, looked at once.
ReadsAgree == part = "inputs" => DataInputAgrees /\ DataQueryAgrees /\ Otlp!OtlpSpansAreRead
=============================================================================
