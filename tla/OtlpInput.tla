------------------------------- MODULE OtlpInput -------------------------------
(***************************************************************************)
(* What the OTLP receiver of gse-agent (collect/otlp.rs) makes of one      *)
(* request: its checks, the records of its spans, and the limits of the    *)
(* item's configuration, compared with what the dataserver accepts.        *)
(*                                                                         *)
(* A span id is its length in hex digits and whether it is all zero; the   *)
(* hex digits of a good one are "a".  Addresses have AddressBits bits.     *)
(***************************************************************************)
EXTENDS Integers, Sequences

\* What the dataserver does with the records.
Ingest == INSTANCE DataInput

CONSTANT Vacant   \* no request, no thread, no answer; no good id

-----------------------------------------------------------------------------
(* One request.                                                            *)

AddressBits == 3

\* An entry that is no CIDR (here -1), or whose prefix is too long, is left out.
Cidrs(entries) == {e \in entries : e.address >= 0 /\ e.length <= AddressBits}

CidrHolds(e, address) ==
    address \div 2^(AddressBits - e.length) = e.address \div 2^(AddressBits - e.length)

IdOf(id, length) == IF id.length # length \/ id.zero THEN Vacant ELSE "a"

\* Nanoseconds beyond what a signed integer holds are taken for 0.
Signed(nanos) == IF nanos > 10000 THEN 0 ELSE nanos

KindOf(code) ==
    IF code \in 1..5 THEN <<"internal", "server", "client", "producer", "consumer">>[code] ELSE "internal"

\* The record of a span, or Vacant when one of its ids is not good.
SpanRecord(s) ==
    IF Vacant \in {IdOf(s.trace, 32), IdOf(s.span, 16)} THEN Vacant
    ELSE [trace |-> IdOf(s.trace, 32), span |-> IdOf(s.span, 16),
          record |-> Ingest!RecordOf(IdOf(s.trace, 32), IdOf(s.span, 16)),
          parent |-> IF IdOf(s.parent, 16) = Vacant THEN "" ELSE IdOf(s.parent, 16),
          service |-> IF s.service = "" THEN "unknown_service" ELSE s.service,
          kind |-> KindOf(s.kind),
          ts |-> Signed(s.start) \div 1000, start |-> Signed(s.start), end |-> Signed(s.end)]

ServiceAllowed(cfg, s) ==
    LET name == IF s.service = "" THEN "unknown_service" ELSE s.service
    IN name \notin cfg.deny /\ (cfg.allow = {} \/ name \in cfg.allow)

Dropped(cfg, spans)  == {s \in spans : ~ServiceAllowed(cfg, s)}
Invalid(cfg, spans)  == {s \in spans \ Dropped(cfg, spans) : SpanRecord(s) = Vacant}
Recorded(cfg, spans) == spans \ (Dropped(cfg, spans) \cup Invalid(cfg, spans))

Authorized(cfg, q) == cfg.token = "" \/ q.token = cfg.token

FromAllowed(cfg, q) ==
    Cidrs(cfg.cidrs) = {} \/ (q.remote # Vacant /\ \E e \in Cidrs(cfg.cidrs) : CidrHolds(e, q.remote))

\* The answer to a request: the first check that fails.  At most a byte beyond
\* the limit is read.
Answer(cfg, q) ==
    IF ~q.traces THEN 404
    ELSE IF ~Authorized(cfg, q) THEN 401
    ELSE IF ~FromAllowed(cfg, q) THEN 403
    ELSE IF q.size > cfg.limit THEN 413
    ELSE IF q.encoding \notin {"", "gzip"} \/ (q.encoding = "gzip" /\ ~q.sound) THEN 400
    ELSE IF q.encoding = "gzip" /\ q.unpacked > cfg.limit THEN 413
    ELSE IF q.type \notin {"json", "protobuf", ""} \/ ~q.parses THEN 400
    ELSE 200

\* The numbers of a collect item are put within their limits, and the size a
\* request may have is at least a kilobyte.
Clamp(v, low, high, default) ==
    IF v < 0 THEN default ELSE IF v < low THEN low ELSE IF v > high THEN high ELSE v

ConfigOf(item, options) ==
    [allow |-> item.allow, deny |-> item.deny,
     batch |-> Clamp(item.batch, 1, 5000, 100), flush |-> Clamp(item.flush, 1, 60, 5),
     token |-> options.token, cidrs |-> options.cidrs,
     limit |-> IF options.limit < 1024 THEN 1024 ELSE options.limit]

Ids(good) == {[length |-> good, zero |-> b] : b \in BOOLEAN} \cup {[length |-> 8, zero |-> FALSE]}

SentSpans == [trace : Ids(32), span : Ids(16), parent : Ids(16), service : {"", "shop"},
          kind : {0, 2}, start : {0, 999, 5000, 20000}, end : {0, 6000, 20000}]

\* The dataserver accepts the record of every span whose start it can read,
\* and what a request holds is recorded, dropped or counted as invalid once.
OtlpSpansAreRead ==
    /\ \A s \in SentSpans :
         LET r == SpanRecord(s)
         IN r # Vacant => (Ingest!ValidSpan(Ingest!Normalized(r)) <=> s.start \in 1000..10000)
    /\ \A cfg \in [deny : SUBSET {"shop"}, allow : SUBSET {"shop", "unknown_service"}] :
         \A s, t \in {u \in SentSpans : u.start = 5000 /\ u.end = 0 /\ u.kind = 2 /\ u.parent.length = 8} :
            /\ Recorded(cfg, {s, t}) \cup Dropped(cfg, {s, t}) \cup Invalid(cfg, {s, t}) = {s, t}
            /\ \A u \in Recorded(cfg, {s, t}) : SpanRecord(u).service \notin cfg.deny
=============================================================================
