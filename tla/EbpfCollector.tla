---------------------------- MODULE EbpfCollector ----------------------------
(***************************************************************************)
(* The connection counts of the eBPF items (gse-ebpf-programs: network.rs, *)
(* tcp.rs; gse-agent-ebpf: loader.rs, lib.rs).  In the kernel, probes add  *)
(* to the entry of a connection in CONN_AGG, the calls of a thread being   *)
(* paired by the key their entry left in ENTRY.  In the agent, a loop      *)
(* wakes every flush interval, reads the entries one by one, writes zeros  *)
(* to them one by one and makes edge records of what it read.  Nothing     *)
(* stops the kernel between the reading and the zeroing of an entry.       *)
(*                                                                         *)
(* The copies of an entry that each CPU keeps are summed by the reader and *)
(* zeroed together; they are one entry here.  What is sent and received is *)
(* one field, and so are the retransmissions and resets of ebpf_tcp, whose *)
(* map is filled in the same way.                                          *)
(***************************************************************************)
EXTENDS Integers, FiniteSets, Sequences

CONSTANTS
    Conns,           \* connections: the keys of the maps
    Threads,
    MapMaxEntries,   \* entries that CONN_AGG has room for
    MaxOps,          \* bound on what happens to connections
    MaxCycles,       \* bound on cycles of the loop
    Bucket,          \* bucket_secs
    NoConn           \* no key

ASSUME EbpfAssumption ==
    /\ NoConn \notin Conns
    /\ MapMaxEntries \in Nat /\ MaxOps \in Nat /\ MaxCycles \in Nat
    /\ Bucket \in Nat \ {0}

VARIABLES
    happened,   \* what happened to each connection (a history)
    agg,        \* CONN_AGG
    born,       \* CONN_START: the connections with a start time
    entry,      \* ENTRY: the key each thread's call left
    calls,      \* the calls each thread is in, the innermost last
    ops

kernelVars == <<happened, agg, born, entry, calls, ops>>

VARIABLES
    pc,         \* where the loop is: "sleep", "read" or "zero"
    old,        \* the entries that were there when the reading began
    snapshot,   \* the entries read in this cycle
    todo,       \* those not yet zeroed
    flush,      \* flush_interval_secs
    now,        \* the clock of the agent
    sent,       \* what the edge records say of each connection (a history)
    ids,        \* the ids of the records that were made
    again,      \* an id was made twice
    cycles

loopVars == <<pc, old, snapshot, todo, flush, now, sent, ids, again, cycles>>

Fields == {"connections", "bytes", "failures", "durations"}
Zero   == [f \in Fields |-> 0]

-----------------------------------------------------------------------------
(* The probes.                                                             *)

With(r, f) == [r EXCEPT ![f] = @ + 1]

\* The map after an insert.
Inserted(m, k, v) == [j \in DOMAIN m \cup {k} |-> IF j = k THEN v ELSE m[j]]

\* One more of a field: a key without an entry gets one while there is room,
\* and is passed over otherwise.
Bump(m, k, f) ==
    IF k \in DOMAIN m THEN Inserted(m, k, With(m[k], f))
    ELSE IF Cardinality(DOMAIN m) < MapMaxEntries THEN Inserted(m, k, With(Zero, f))
    ELSE m

Happens(k, f) ==
    /\ ops < MaxOps
    /\ ops' = ops + 1
    /\ happened' = [happened EXCEPT ![k] = With(@, f)]

\* The connection is made; the token bucket may deny any event a place.
Established(k) ==
    /\ Happens(k, "connections")
    /\ \/ agg' = Bump(agg, k, "connections") /\ born' = born \cup {k}
       \/ UNCHANGED <<agg, born>>
    /\ UNCHANGED <<entry, calls>>

\* The connection ends: its duration counts when its start is known, and one
\* that never was established has failed.
Closed(k, old_state) ==
    /\ ops < MaxOps /\ ops' = ops + 1
    /\ LET lasted == k \in born
           failed == old_state = "SYN_SENT"
           one    == IF lasted THEN Bump(agg, k, "durations") ELSE agg
       IN  /\ happened' = [happened EXCEPT ![k].durations = @ + 1, ![k].failures = @ + (IF failed THEN 1 ELSE 0)]
           /\ \/ agg' = (IF failed THEN Bump(one, k, "failures") ELSE one) /\ born' = born \ {k}
              \/ UNCHANGED <<agg, born>>
    /\ UNCHANGED <<entry, calls>>

Frame == [fn : {"send", "connect"}, conn : Conns]

Top(t) == calls[t][Len(calls[t])]

\* The entry probe leaves the key for the return probe, unless the bucket is
\* empty.  A send may connect first (fast open).
Enter(t, fn, k) ==
    /\ \/ calls[t] = <<>>
       \/ Len(calls[t]) = 1 /\ Top(t).fn = "send" /\ fn = "connect" /\ Top(t).conn = k
    /\ ops < MaxOps
    /\ calls' = [calls EXCEPT ![t] = Append(@, [fn |-> fn, conn |-> k])]
    /\ \/ entry' = [entry EXCEPT ![t] = k]
       \/ UNCHANGED entry
    /\ UNCHANGED <<happened, agg, born, ops>>

FieldOf(fn) == IF fn = "send" THEN "bytes" ELSE "failures"

\* The return probe takes the key away, and counts on it the bytes sent or the
\* connect that failed; other calls count nothing.
Return(t, counts) ==
    /\ calls[t] # <<>>
    /\ calls' = [calls EXCEPT ![t] = SubSeq(@, 1, Len(@) - 1)]
    /\ entry' = [entry EXCEPT ![t] = NoConn]
    /\ IF counts
         THEN /\ Happens(Top(t).conn, FieldOf(Top(t).fn))
              /\ agg' = IF entry[t] = NoConn THEN agg ELSE Bump(agg, entry[t], FieldOf(Top(t).fn))
         ELSE UNCHANGED <<happened, agg, ops>>
    /\ UNCHANGED born

Kernel ==
    \/ \E k \in Conns : Established(k) \/ Closed(k, "SYN_SENT") \/ Closed(k, "OTHER")
    \/ \E t \in Threads : \/ \E fn \in {"send", "connect"}, k \in Conns : Enter(t, fn, k)
                          \/ \E counts \in BOOLEAN : Return(t, counts)

-----------------------------------------------------------------------------
(* The loop.                                                               *)

Empty == [k \in {} |-> Zero]

BucketStart(time) == time - (time % Bucket)

\* A cycle starts a flush interval after the last.
Wake ==
    /\ pc = "sleep" /\ cycles < MaxCycles
    /\ cycles' = cycles + 1
    /\ now' = now + flush
    /\ pc' = "read" /\ old' = DOMAIN agg /\ snapshot' = Empty /\ todo' = {}
    /\ UNCHANGED <<flush, sent, ids, again>>

\* An entry made while the map is read may be met or not.
ReadKey(k) ==
    /\ pc = "read" /\ k \in DOMAIN agg \ DOMAIN snapshot
    /\ snapshot' = Inserted(snapshot, k, agg[k])
    /\ UNCHANGED <<pc, old, todo, flush, now, sent, ids, again, cycles>>

ReadEnds ==
    /\ pc = "read" /\ old \subseteq DOMAIN snapshot
    /\ pc' = "zero" /\ todo' = DOMAIN snapshot
    /\ UNCHANGED <<old, snapshot, flush, now, sent, ids, again, cycles>>

ZeroKey(k) ==
    /\ pc = "zero" /\ k \in todo
    /\ agg' = [agg EXCEPT ![k] = Zero]
    /\ todo' = todo \ {k}
    /\ UNCHANGED <<pc, old, snapshot, flush, now, sent, ids, again, cycles>>

\* Mutant of DrainFails: the cycle goes on with what it has read.
DrainFails_KeepsRead ==
    /\ pc = "zero" /\ todo # {}
    /\ todo' = {}
    /\ UNCHANGED <<pc, old, snapshot, flush, now, sent, ids, again, cycles>>

\* A cycle that cannot read or zero an entry makes nothing of what it read.
DrainFails ==
    /\ pc = "read" \/ (pc = "zero" /\ todo # {})
    /\ pc' = "sleep" /\ snapshot' = Empty /\ todo' = {}
    /\ UNCHANGED <<old, flush, now, sent, ids, again, cycles>>

\* Only the entries with a new connection become edges: the rest of what was
\* read is given up.
Edges == {k \in DOMAIN snapshot : snapshot[k].connections > 0}

Report ==
    /\ pc = "zero" /\ todo = {}
    /\ LET made == {[conn |-> k, bucket |-> BucketStart(now)] : k \in Edges}
       IN  /\ sent' = [k \in Conns |-> IF k \in Edges THEN [f \in Fields |-> sent[k][f] + snapshot[k][f]] ELSE sent[k]]
           /\ again' = (again \/ made \cap ids # {})
           /\ ids' = ids \cup made
    /\ pc' = "sleep" /\ snapshot' = Empty
    /\ UNCHANGED <<old, todo, flush, now, cycles>>

-----------------------------------------------------------------------------

EbpfInit ==
    /\ happened = [k \in Conns |-> Zero]
    /\ agg = Empty
    /\ born = {}
    /\ entry = [t \in Threads |-> NoConn]
    /\ calls = [t \in Threads |-> <<>>]
    /\ ops = 0
    /\ pc = "sleep" /\ old = {} /\ snapshot = Empty /\ todo = {}
    /\ flush \in {Bucket - 1, Bucket} \ {0}
    /\ now = 0
    /\ sent = [k \in Conns |-> Zero]
    /\ ids = {} /\ again = FALSE /\ cycles = 0

LoopAlone == Wake \/ ReadEnds \/ DrainFails \/ Report \/ \E k \in Conns : ReadKey(k)

EbpfNext ==
    \/ Kernel /\ UNCHANGED loopVars
    \/ LoopAlone /\ UNCHANGED kernelVars
    \/ \E k \in Conns : ZeroKey(k) /\ UNCHANGED <<happened, born, entry, calls, ops>>

EbpfSpec == EbpfInit /\ [][EbpfNext]_<<kernelVars, loopVars>>

-----------------------------------------------------------------------------

\* What of a field has left the kernel in this cycle and is not yet an edge.
Held(k, f) == IF k \in DOMAIN snapshot /\ pc = "zero" /\ k \notin todo THEN snapshot[k][f] ELSE 0
Kept(k, f) == IF k \in DOMAIN agg THEN agg[k][f] ELSE 0

\* Whatever the probes and the loop do between each other's steps, and
\* whichever of them fails, nothing is counted twice nor on a connection that
\* it did not happen to.
CountedOnce == \A k \in Conns, f \in Fields : sent[k][f] + Held(k, f) + Kept(k, f) <= happened[k][f]

\* An edge is stored by the id made of its bucket and connection: as long as
\* no two cycles fall into one bucket, no record takes the place of another.
RecordsDiffer == flush >= Bucket => ~ again

\* The claim of the comment beside the drain: with a failing reset nothing is
\* counted twice and nothing is lost.
NothingLost ==
    pc = "sleep" => \A k \in Conns : sent[k].connections + Kept(k, "connections") = happened[k].connections

\* The edges of the eBPF collector: each count leaves the kernel once, and two
\* edges of a connection have different record ids.
EdgesAreCounted == CountedOnce /\ RecordsDiffer
=============================================================================
