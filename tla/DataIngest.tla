------------------------------ MODULE DataIngest ------------------------------
(***************************************************************************)
(* POST /v1/ingest of the dataserver: a batch of records is checked,       *)
(* written and marked one record after the other, while the agent that     *)
(* posted it may give up waiting and post it again.                        *)
(*                                                                         *)
(* Source: crates/dataplane-ingest/src/lib.rs (apply_with_sinks,           *)
(* apply_one), bins/dataserver/src/http.rs (ingest).  The agent is the     *)
(* report loop of module AgentCollect, reduced to one batch at a time.     *)
(* All stores are on disk: what they answered survives a crash.            *)
(***************************************************************************)
EXTENDS Naturals, Sequences

CONSTANTS
    Batches,      \* the batches, in the order of the agent's buffer
    Kind,         \* the data type of each record
    Bad,          \* records that do not parse, or fail validation
    Late,         \* metric points before the retention window of the store
    Short,        \* spans below apm_min_duration_micros_for_detail
    Mishaps,      \* the faults that may happen
    MaxMishaps    \* how many of them

AllRecords == DOMAIN Kind
Kinds   == {"metrics", "logs", "traces", "edges"}
MishapKinds == {"crash", "timeout", "engine", "sink"}

ASSUME IngestAssumption ==
    /\ Batches \in Seq(Seq(AllRecords)) /\ Kind \in [AllRecords -> Kinds]
    /\ Bad \subseteq AllRecords /\ Short \subseteq AllRecords
    /\ Late \subseteq {r \in AllRecords : Kind[r] = "metrics"}
    /\ Mishaps \subseteq MishapKinds /\ MaxMishaps \in Nat

VARIABLES
    head,      \* the batch the agent posts
    reqs,      \* the requests the dataserver works on
    docs,      \* documents of each record in the log store
    kept,      \* records in stores that overwrite: points, rows of ebpf_edges
    absorbed,  \* how often the APM sink was given each span
    marked,    \* the ingest/ keys
    stream,    \* `accepted` of the stream index, 0 if there is none
    outcome,   \* ghost: what the agent was told of each batch
    cut,       \* ghost: requests that ended between writing and marking a record
    mishaps    \* the faults that happened

ingestVars == <<head, reqs, docs, kept, absorbed, marked, stream, outcome, cut, mishaps>>
stores     == <<docs, kept, absorbed, marked, stream>>

Request == [no : 0 .. MaxMishaps,                \* how many mishaps preceded it
            batch : DOMAIN Batches, at : Nat \ {0},
            pc : {"check", "write", "observe", "mark"},
            accepted : Nat, waiting : BOOLEAN]
Outcomes == {"open", "stored", "refused"}

IngestTypeOK ==
    /\ head \in 1 .. Len(Batches) + 1
    /\ reqs \subseteq Request
    /\ docs \in [AllRecords -> Nat] /\ absorbed \in [AllRecords -> Nat] /\ cut \in [AllRecords -> Nat]
    /\ kept \subseteq AllRecords /\ marked \subseteq AllRecords
    /\ stream \in Nat
    /\ outcome \in [DOMAIN Batches -> Outcomes]
    /\ mishaps \in Seq(Mishaps)

NoCopies == [r \in AllRecords |-> 0]

IngestInit ==
    /\ head = 1 /\ reqs = {}
    /\ docs = NoCopies /\ kept = {} /\ absorbed = NoCopies /\ marked = {} /\ stream = 0
    /\ outcome = [b \in DOMAIN Batches |-> "open"]
    /\ cut = NoCopies /\ mishaps = <<>>

Mishap(m) == m \in Mishaps /\ Len(mishaps) < MaxMishaps /\ mishaps' = Append(mishaps, m)

-----------------------------------------------------------------------------
(* The agent                                                               *)

Post ==
    /\ head <= Len(Batches)
    /\ \A q \in reqs : ~q.waiting
    /\ reqs' = reqs \cup {[no |-> Len(mishaps), batch |-> head, at |-> 1, pc |-> "check",
                           accepted |-> 0, waiting |-> TRUE]}
    /\ UNCHANGED <<head, stores, outcome, cut, mishaps>>

\* Confirm: 2xx with ok or partial, and 400.  Everything else is a retry.
Confirm(q, told) ==
    IF q.waiting THEN head' = head + 1 /\ outcome' = [outcome EXCEPT ![q.batch] = told]
    ELSE UNCHANGED <<head, outcome>>

\* The agent stops waiting after 10 s.
GiveUp(q) ==
    /\ q.waiting /\ Mishap("timeout")
    /\ reqs' = (reqs \ {q}) \cup {[q EXCEPT !.waiting = FALSE]}
    /\ UNCHANGED <<head, stores, outcome, cut>>

-----------------------------------------------------------------------------
(* The dataserver, one await of apply_one after the other                  *)

Batch(q)     == Batches[q.batch]
Rec(q)       == Batch(q)[q.at]
InRecords(q) == q.at <= Len(Batch(q))
To(q, pc)    == reqs' = (reqs \ {q}) \cup {[q EXCEPT !.pc = pc]}
Passed(q, n) == reqs' = (reqs \ {q}) \cup {[q EXCEPT !.pc = "check", !.at = @ + 1, !.accepted = @ + n]}
Finish(q)       == reqs' = reqs \ {q}

\* Requests that wrote the record they are at and have not marked it.
Cut(Q) == cut' = [r \in AllRecords |->
                     IF \E q \in Q : q.pc \in {"observe", "mark"} /\ Rec(q) = r THEN cut[r] + 1 ELSE cut[r]]

AlreadyAccepted(r) == r \in marked

\* parse_record, require_record_id, validate: a record that fails goes to
\* `failures`.  Then already_accepted.
Check(q) ==
    /\ q.pc = "check" /\ InRecords(q)
    /\ \/ Rec(q) \in Bad /\ Passed(q, 0)
       \/ Rec(q) \notin Bad /\ AlreadyAccepted(Rec(q)) /\ Passed(q, 1)
       \/ Rec(q) \notin Bad /\ ~AlreadyAccepted(Rec(q)) /\ To(q, "write")
    /\ UNCHANGED <<head, stores, outcome, cut, mishaps>>

AppendDoc(r) == docs' = [docs EXCEPT ![r] = @ + 1]

\* The sink of the edges is their only store; what it answers is not looked at.
Write(q) ==
    /\ q.pc = "write"
    /\ \/ Kind[Rec(q)] = "logs" /\ AppendDoc(Rec(q)) /\ To(q, "mark") /\ UNCHANGED <<kept, mishaps>>
       \/ /\ Kind[Rec(q)] = "traces"
          /\ IF Rec(q) \in Short THEN UNCHANGED docs ELSE AppendDoc(Rec(q))
          /\ To(q, "observe") /\ UNCHANGED <<kept, mishaps>>
       \/ /\ Kind[Rec(q)] \in {"metrics", "edges"} /\ Rec(q) \notin Late
          /\ kept' = kept \cup {Rec(q)}
          /\ To(q, "mark") /\ UNCHANGED <<docs, mishaps>>
       \/ Kind[Rec(q)] = "edges" /\ Mishap("sink") /\ To(q, "mark") /\ UNCHANGED <<docs, kept>>
    /\ UNCHANGED <<head, absorbed, marked, stream, outcome, cut>>

\* observe_span only touches memory and does not fail.
Absorb(q) ==
    /\ q.pc = "observe"
    /\ absorbed' = [absorbed EXCEPT ![Rec(q)] = @ + 1]
    /\ To(q, "mark")
    /\ UNCHANGED <<head, docs, kept, marked, stream, outcome, cut, mishaps>>

Mark(q) ==
    /\ q.pc = "mark"
    /\ marked' = marked \cup {Rec(q)}
    /\ Passed(q, 1)
    /\ UNCHANGED <<head, docs, kept, absorbed, stream, outcome, cut, mishaps>>

\* 200 with ok or partial; upsert_stream if anything was accepted.
Reply(q) ==
    /\ q.pc = "check" /\ ~InRecords(q)
    /\ stream' = IF q.accepted > 0 THEN q.accepted ELSE stream
    /\ Confirm(q, "stored") /\ Finish(q)
    /\ UNCHANGED <<docs, kept, absorbed, marked, cut, mishaps>>

\* map_err makes 400 of invalid_argument, whatever came before in the batch.
Refused(q) == Confirm(q, "refused") /\ Finish(q)

Refuse(q) ==
    /\ q.pc = "write" /\ Rec(q) \in Late
    /\ Refused(q)
    /\ UNCHANGED <<stores, cut, mishaps>>

Failed_GoesOn(q) == Passed(q, 0) /\ UNCHANGED cut

\* Any other error of a store ends the batch with 5xx.
Failed(q) == Finish(q) /\ Cut({q})

EngineFails(q) ==
    /\ q.pc \in {"check", "write", "mark"} /\ (q.pc # "check" => InRecords(q))
    /\ Mishap("engine")
    /\ Failed(q)
    /\ UNCHANGED <<head, stores, outcome>>

\* The connection of an agent that gave up is closed, and the handler may be
\* dropped at any await.
Dropped(q) ==
    /\ ~q.waiting
    /\ Finish(q) /\ Cut({q})
    /\ UNCHANGED <<head, stores, outcome, mishaps>>

CrashIngest ==
    /\ reqs # {} /\ Mishap("crash")
    /\ reqs' = {} /\ Cut(reqs)
    /\ UNCHANGED <<head, stores, outcome>>

-----------------------------------------------------------------------------

HandlerStep(q) == \/ Check(q) \/ Write(q) \/ Absorb(q) \/ Mark(q) \/ Reply(q)
                  \/ Refuse(q) \/ EngineFails(q) \/ Dropped(q)

IngestNext ==
    \/ Post
    \/ \E q \in reqs : GiveUp(q) \/ HandlerStep(q)
    \/ CrashIngest

IngestSpec == IngestInit /\ [][IngestNext]_ingestVars

-----------------------------------------------------------------------------
(* Properties                                                              *)

Happened(m) == \E n \in DOMAIN mishaps : mishaps[n] = m

\* What becomes of an edge is up to its sink, see Write.
Stored(r) ==
    /\ Kind[r] = "logs"    => docs[r] > 0
    /\ Kind[r] = "traces"  => absorbed[r] > 0 /\ (r \in Short \/ docs[r] > 0)
    /\ Kind[r] = "metrics" => r \in kept
    /\ Kind[r] = "edges"   => r \in kept \/ Happened("sink")

RecordsOf(b) == {Batches[b][k] : k \in DOMAIN Batches[b]}

\* When the agent is told ok or partial and forgets the batch, every record
\* that was not reported as a failure is in its store, whatever crashes,
\* retries and overlapping requests came before.
AcknowledgedIsStored ==
    \A b \in DOMAIN Batches : outcome[b] = "stored" => \A r \in RecordsOf(b) \ Bad : Stored(r)

\* The mark keeps a record from being written twice: as long as the agent
\* never gave up on a request, each further copy is due to a request that
\* ended between the write and the mark.
CopiesAreCuts ==
    ~Happened("timeout") =>
        \A r \in AllRecords : docs[r] <= 1 + cut[r] /\ absorbed[r] <= 1 + cut[r]

\* gse-dataplane-ingest/design.md:519: the valid records of a batch are
\* written, and the others are reported as failures.  (Violated: a point
\* before the retention window makes the answer 400, the agent forgets the
\* batch, and the records after the point are gone.)
ValidRecordsArrive ==
    \A b \in DOMAIN Batches : outcome[b] # "open" => \A r \in RecordsOf(b) \ (Bad \cup Late) : Stored(r)

\* What the ingest answered for is stored, and a batch it gave up is cut, not
\* mixed: AcknowledgedIsStored and CopiesAreCuts.
BatchesAreStored == AcknowledgedIsStored /\ CopiesAreCuts
=============================================================================
