-------------------------------- MODULE ApmEdges --------------------------------
(***************************************************************************)
(* Calls between services: a client span and the server spans whose parent *)
(* it is are paired, whichever comes first, and each call is added to the  *)
(* edge of its minute.  A client that finds no server by the end of its    *)
(* minute counts as a call to an unknown service.                          *)
(*                                                                         *)
(* Source: crates/dataplane-apm/src/edge.rs (EdgeAccumulator), sink.rs     *)
(* (flush_edges, ServiceNameResolver).  A minute is one unit of time.      *)
(***************************************************************************)
EXTENDS Naturals, FiniteSets, Sequences

CONSTANTS
    Clients, Servers,   \* the spans, each observed once
    Peer,               \* the parent_span_id of each server span
    Parent,             \* the parent_span_id of each client span
    At,                 \* the minute of each span
    Service,            \* the service of each span
    LastMinute,         \* bound
    Capacity,           \* edge_pending_capacity
    MaxEdgeFaults       \* bound: engine errors and crashes

Ttl      == 2           \* PENDING_TTL_SECS
Unknown  == "unknown"
AllSpans == Clients \cup Servers
Named    == {Service[s] : s \in Servers}
EdgeKeys == [minute : 0 .. LastMinute, src : {Service[c] : c \in Clients}, dst : Named \cup {Unknown}]
Tokens   == Clients \X (1 .. 2)      \* the first and the second time a call is counted

ASSUME EdgesAssumption ==
    /\ IsFiniteSet(AllSpans) /\ Clients \cap Servers = {}
    /\ Peer \in [Servers -> Clients] /\ DOMAIN Parent = Clients
    /\ At \in [AllSpans -> 0 .. LastMinute] /\ DOMAIN Service = AllSpans
    /\ {LastMinute, Capacity, MaxEdgeFaults} \subseteq Nat

VARIABLES
    clock,
    arrived,         \* spans that reached observe
    waitingClient,   \* server spans that wait for their client
    waitingServer,   \* client spans that wait for a server
    recorded,        \* keys taken as counted, with the minute of the call
    edges,           \* counted since the last flush
    toWrite,         \* what a flush has taken and not written
    edgeRows,        \* apm_edge_summary
    counted,         \* ghost: how often each call was counted
    serverFirst,     \* ghost: calls one of whose servers came first
    gone,            \* ghost: calls that went with a failed write or a crash
    edgeFaults

edgeVars == <<clock, arrived, waitingClient, waitingServer, recorded, edges, toWrite, edgeRows,
              counted, serverFirst, gone, edgeFaults>>

NoCalls == [calls |-> 0, of |-> {}]

EdgeTypeOK ==
    /\ clock \in 0 .. LastMinute + 1 /\ arrived \subseteq AllSpans
    /\ waitingClient \subseteq Servers /\ waitingServer \subseteq Clients
    /\ recorded \subseteq (Clients \cup {Parent[c] : c \in Clients}) \X (0 .. LastMinute)
    /\ edges \in [EdgeKeys -> [calls : Nat, of : SUBSET Tokens]]
    /\ edgeRows \in [EdgeKeys -> [calls : Nat, of : SUBSET Tokens]]
    /\ toWrite \in Seq([key : EdgeKeys, calls : Nat, of : SUBSET Tokens])
    /\ counted \in [Clients -> 0 .. 2] /\ gone \subseteq Tokens /\ edgeFaults \in Nat

EdgeInit ==
    /\ clock = 0 /\ arrived = {} /\ waitingClient = {} /\ waitingServer = {} /\ recorded = {}
    /\ edges = [k \in EdgeKeys |-> NoCalls] /\ edgeRows = edges /\ toWrite = <<>>
    /\ counted = [c \in Clients |-> 0] /\ serverFirst = {} /\ gone = {} /\ edgeFaults = 0

EdgeFault == edgeFaults < MaxEdgeFaults /\ edgeFaults' = edgeFaults + 1

IsRecorded(key) == \E m \in 0 .. LastMinute : <<key, m>> \in recorded
Token(c)        == <<c, counted[c] + 1>>
EdgeOf(c, dst)  == [minute |-> At[c], src |-> Service[c], dst |-> dst]

-----------------------------------------------------------------------------
(* observe                                                                 *)

RecentRecords(R, m) == recorded' = {r \in R : r[2] + Ttl >= m}

\* record: a key that is recorded is not counted again.  m is the minute of
\* the span that was observed.
NoRecord(m) == UNCHANGED <<edges, counted>> /\ RecentRecords(recorded, m)
Record(key, c, dst, m) ==
    IF IsRecorded(key) THEN NoRecord(m)
    ELSE /\ RecentRecords(recorded \cup {<<key, At[c]>>}, m)
         /\ counted' = [counted EXCEPT ![c] = @ + 1]
         /\ edges' = [edges EXCEPT ![EdgeOf(c, dst)] =
                         [calls |-> @.calls + 1, of |-> @.of \cup {Token(c)}]]

\* evict: by the minute of the span that was just observed, then the oldest
\* clients above the capacity.  `clients`, `servers` are those waiting now.
Recent(S, m) == {x \in S : At[x] + Ttl >= m}
Oldest(S, drop) == \A x \in drop, y \in S \ drop : At[x] <= At[y]
Evict(clients, servers, m) ==
    LET c == Recent(clients, m)
        s == Recent(servers, m)
        pending == Cardinality(c) + Cardinality(s)
        overflow == IF pending <= Capacity THEN 0
                    ELSE IF pending - Capacity < Cardinality(c) THEN pending - Capacity ELSE Cardinality(c)
    IN  \E drop \in SUBSET c :
            /\ Cardinality(drop) = overflow /\ Oldest(c, drop)
            /\ waitingServer' = c \ drop /\ waitingClient' = s

Arrives(x) == x \notin arrived /\ At[x] <= clock /\ arrived' = arrived \cup {x}

\* Servers that came first are paired under the parent of the client, and the
\* client goes on waiting for a server.
ObserveClient(c) ==
    LET first == {s \in waitingClient : Peer[s] = c} IN
    /\ Arrives(c)
    /\ IF first = {} THEN NoRecord(At[c])
       ELSE \E s \in first : Record(Parent[c], c, Service[s], At[c])
    /\ serverFirst' = IF first = {} THEN serverFirst ELSE serverFirst \cup {c}
    /\ Evict(waitingServer \cup {c}, waitingClient \ first, At[c])
    /\ UNCHANGED <<clock, toWrite, edgeRows, gone, edgeFaults>>

ObserveServer(s) ==
    /\ Arrives(s)
    /\ IF Peer[s] \in waitingServer
       THEN Record(Peer[s], Peer[s], Service[s], At[s]) /\ Evict(waitingServer \ {Peer[s]}, waitingClient, At[s])
       ELSE /\ NoRecord(At[s])
            /\ Evict(waitingServer, waitingClient \cup {s}, At[s])
    /\ UNCHANGED <<clock, toWrite, edgeRows, serverFirst, gone, edgeFaults>>

-----------------------------------------------------------------------------
(* flush                                                                   *)

Closed(c) == At[c] + 1 <= clock

Entry(k, n, of) == [key |-> k, calls |-> n, of |-> of]
Ordered(S) == {q \in [1 .. Cardinality(S) -> S] : \A x \in S : \E n \in DOMAIN q : q[n] = x}
Drained == [k \in EdgeKeys |-> NoCalls]

\* Under the lock: clients whose minute is over, and all edges.  The order of
\* the keys does not matter to what follows.
TakeEdges ==
    LET over     == {c \in waitingServer : Closed(c)}
        fallback == {c \in over : ~IsRecorded(c)}
        taken    == {Entry(EdgeOf(c, Unknown), 1, {Token(c)}) : c \in fallback}
                        \cup {Entry(k, edges[k].calls, edges[k].of) : k \in {x \in EdgeKeys : edges[x].calls > 0}}
    IN  /\ toWrite = <<>> /\ (over # {} \/ taken # {})
        /\ waitingServer' = waitingServer \ over
        /\ recorded' = recorded \cup {<<c, At[c]>> : c \in fallback}
        /\ counted' = [c \in Clients |-> IF c \in fallback THEN counted[c] + 1 ELSE counted[c]]
        /\ edges' = Drained
        /\ toWrite' = CHOOSE q \in Ordered(taken) : TRUE
        /\ UNCHANGED <<clock, arrived, waitingClient, edgeRows, serverFirst, gone, edgeFaults>>

\* resolve may name the service of an unknown target; flush_one adds to what
\* it reads back.
WriteEdge ==
    /\ toWrite # <<>> /\ toWrite' = Tail(toWrite)
    /\ \E k \in EdgeKeys :
          /\ k = Head(toWrite).key \/ (Head(toWrite).key.dst = Unknown /\ [k EXCEPT !.dst = Unknown] = Head(toWrite).key)
          /\ edgeRows' = [edgeRows EXCEPT ![k] = [calls |-> @.calls + Head(toWrite).calls,
                                                  of |-> @.of \cup Head(toWrite).of]]
    /\ UNCHANGED <<clock, arrived, waitingClient, waitingServer, recorded, edges,
                   counted, serverFirst, gone, edgeFaults>>

WriteEdgeFails ==
    /\ toWrite # <<>> /\ EdgeFault
    /\ toWrite' = Tail(toWrite) /\ gone' = gone \cup Head(toWrite).of
    /\ UNCHANGED <<clock, arrived, waitingClient, waitingServer, recorded, edges, edgeRows,
                   counted, serverFirst>>

CrashEdges ==
    /\ EdgeFault
    /\ waitingClient' = {} /\ waitingServer' = {} /\ recorded' = {}
    /\ edges' = Drained /\ toWrite' = <<>>
    /\ gone' = gone \cup (UNION {edges[k].of : k \in EdgeKeys}) \cup (UNION {toWrite[n].of : n \in DOMAIN toWrite})
    /\ UNCHANGED <<clock, arrived, edgeRows, counted, serverFirst>>

ClockTicks ==
    /\ clock <= LastMinute /\ clock' = clock + 1
    /\ UNCHANGED <<arrived, waitingClient, waitingServer, recorded, edges, toWrite, edgeRows,
                   counted, serverFirst, gone, edgeFaults>>

-----------------------------------------------------------------------------

EdgeNext ==
    \/ \E c \in Clients : ObserveClient(c)
    \/ \E s \in Servers : ObserveServer(s)
    \/ TakeEdges \/ WriteEdge \/ WriteEdgeFails \/ CrashEdges \/ ClockTicks

EdgeSpec == EdgeInit /\ [][EdgeNext]_edgeVars

-----------------------------------------------------------------------------
(* Properties                                                              *)

Counted == {t \in Tokens : t[2] <= counted[t[1]]}
InEdges == UNION {edges[k].of : k \in EdgeKeys}
Pending == UNION {toWrite[n].of : n \in DOMAIN toWrite}
Written == UNION {edgeRows[k].of : k \in EdgeKeys}

\* Every counted call is in one place, in memory, with the flush, in a row of
\* its own minute and service, or lost, and a row counts what was added to it.
\* Only when its minute is over is a call given to an unknown service, if no
\* server calls itself that.
\* A call whose client came first is counted once, even if its servers come
\* after the end of the minute.
CallsAreAccounted ==
    /\ Counted = InEdges \cup Pending \cup Written \cup gone
    /\ InEdges \cap Pending = {} /\ (InEdges \cup Pending) \cap Written = {}
    /\ gone \cap (InEdges \cup Pending \cup Written) = {}
    /\ \A k \in EdgeKeys :
          /\ edgeRows[k].calls = Cardinality(edgeRows[k].of)
          /\ \A t \in edgeRows[k].of : At[t[1]] = k.minute /\ Service[t[1]] = k.src
          /\ k.dst \in {Unknown} \ Named /\ edgeRows[k].calls > 0 => k.minute < clock
    /\ \A c \in Clients \ serverFirst : counted[c] <= 1

\* edge.rs:11: a client span that matches several server spans is one call.
\* (Violated: when a server came first the call is recorded under the parent
\* of the client, and the client, still waiting, is counted again.)
CallsCountedOnce == \A c \in Clients : counted[c] <= 1
=============================================================================
