-------------------------- MODULE DataplaneRegistry --------------------------
(***************************************************************************)
(* The dataplane services gse-server knows, and the probes that keep their *)
(* status: a loop over all of them, and one task per registration that     *)
(* tries a few times.  A probe reads the row, asks the address it read,    *)
(* and writes the status, each step on its own.                            *)
(*                                                                         *)
(* Source: crates/gse-server-core/src/dataplane.rs, ledger.rs, http.rs     *)
(* (dataplanes), server.rs (dataplane_addr).                               *)
(***************************************************************************)
EXTENDS Naturals, FiniteSets

CONSTANTS
    Services,     \* service_id, the primary key
    Urls,         \* ingest_url
    Loop,         \* the probing loop
    Tasks,        \* the registrations, each with a probing task of its own
    Tries,        \* PROBE_RETRY_ATTEMPTS
    MaxFlips      \* how often an address starts or stops answering

ASSUME ProbeAssumption == Loop \notin Tasks /\ Tries \in Nat \ {0} /\ MaxFlips \in Nat

VARIABLES
    row,          \* dataplane_services
    healthy,      \* the addresses whose /health answers 200 and "ok"
    flips,
    probe,        \* of the loop and of each task
    used,         \* the tasks that were started
    answered      \* history: the addresses that were ever up

dpVars == <<row, healthy, flips, probe, used, answered>>

Probers == {Loop} \cup Tasks
NoRow == [url |-> "none", status |-> "none"]
Statuses == {"unknown", "online", "offline"}
Rows == [url : Urls, status : Statuses] \cup {NoRow}
Present == {s \in Services : row[s] # NoRow}

\* `todo`: the services still to be probed, of which `svc` is the current one;
\* `left`: the tries that are left.
Resting == [at |-> "rest", todo |-> {}, svc |-> "none", url |-> "none", up |-> FALSE, left |-> 0]
Reading(s, todo, left) == [Resting EXCEPT !.at = "read", !.svc = s, !.todo = todo, !.left = left]
ProbeSteps == {"rest", "read", "ask", "write", "wait"}

DpInit ==
    /\ row = [s \in Services |-> NoRow]
    /\ healthy \in SUBSET Urls /\ flips = 0
    /\ probe = [p \in Probers |-> Resting]
    /\ used = {} /\ answered = healthy

SetProbe(p, v) == probe' = [probe EXCEPT ![p] = v]

\* POST dataplanes: the row is reset, and a task of its own probes it.
Register(s, u, t) ==
    /\ t \in Tasks \ used
    /\ used' = used \cup {t}
    /\ row' = [row EXCEPT ![s] = [url |-> u, status |-> "unknown"]]
    /\ SetProbe(t, Reading(s, {}, Tries))
    /\ UNCHANGED <<healthy, flips, answered>>

Unregister(s) ==
    /\ row' = [row EXCEPT ![s] = NoRow]
    /\ row[s] # NoRow
    /\ UNCHANGED <<healthy, flips, probe, used, answered>>

\* A dataserver starts, stops or hangs.
Flip(u) ==
    /\ flips < MaxFlips /\ flips' = flips + 1
    /\ healthy' = IF u \in healthy THEN healthy \ {u} ELSE healthy \cup {u}
    /\ answered' = answered \cup healthy'
    /\ UNCHANGED <<row, probe, used>>

\* The services that one round of the loop looks at.
RoundOf_NotOffline(rows) == {s \in DOMAIN rows : rows[s].status \in {"unknown", "online"}}

RoundOf(rows) == {s \in DOMAIN rows : rows[s] # NoRow}

\* The next service of a round, or the end of it.
Continue(p, todo) ==
    IF todo = {} THEN SetProbe(p, Resting)
    ELSE \E s \in todo : SetProbe(p, Reading(s, todo \ {s}, 0))

BeginRound ==
    /\ probe[Loop].at = "rest"
    /\ Present # {}            \* an empty round changes nothing
    /\ Continue(Loop, RoundOf(row))
    /\ UNCHANGED <<row, healthy, flips, used, answered>>

\* After a probe: the loop goes on, a task tries again unless it was answered
\* or has no try left.
Probed(p, online) ==
    IF p = Loop THEN Continue(p, probe[p].todo)
    ELSE IF online \/ probe[p].left <= 1 THEN SetProbe(p, Resting)
    ELSE SetProbe(p, [probe[p] EXCEPT !.at = "wait", !.left = @ - 1])

ReadRow(p) ==
    /\ probe[p].at = "read"
    /\ IF row[probe[p].svc] = NoRow THEN Probed(p, FALSE)
       ELSE SetProbe(p, [probe[p] EXCEPT !.at = "ask", !.url = row[probe[p].svc].url])
    /\ UNCHANGED <<row, healthy, flips, used, answered>>

Ask(p) ==
    /\ probe[p].at = "ask"
    /\ SetProbe(p, [probe[p] EXCEPT !.at = "write", !.up = probe[p].url \in healthy])
    /\ UNCHANGED <<row, healthy, flips, used, answered>>

\* UPDATE ... WHERE service_id: a row that is gone stays gone.
SetStatus(rows, s, u, up) ==
    IF rows[s] = NoRow THEN rows
    ELSE [rows EXCEPT ![s].status = IF up THEN "online" ELSE "offline"]

WriteStatus(p) ==
    /\ probe[p].at = "write"
    /\ row' = SetStatus(row, probe[p].svc, probe[p].url, probe[p].up)
    /\ Probed(p, probe[p].up)
    /\ UNCHANGED <<healthy, flips, used, answered>>

TryAgain(p) ==
    /\ probe[p].at = "wait"
    /\ SetProbe(p, Reading(probe[p].svc, {}, probe[p].left))
    /\ UNCHANGED <<row, healthy, flips, used, answered>>

\* dataplane_addr: one of the addresses that are online, or none.
Offered == {row[s].url : s \in {x \in Present : row[x].status = "online"}}

ProbeStep(p) == ReadRow(p) \/ Ask(p) \/ WriteStatus(p) \/ TryAgain(p)

DpNext ==
    \/ \E s \in Services, u \in Urls, t \in Tasks : Register(s, u, t)
    \/ \E s \in Services : Unregister(s)
    \/ \E u \in Urls : Flip(u)
    \/ BeginRound
    \/ \E p \in Probers : ProbeStep(p)

DpFairness ==
    /\ WF_dpVars(BeginRound \/ ProbeStep(Loop))
    /\ WF_dpVars(\E t \in Tasks : ProbeStep(t))

-----------------------------------------------------------------------------
(* Properties                                                              *)

DpTypeOK ==
    /\ row \in [Services -> Rows]
    /\ healthy \subseteq Urls /\ used \subseteq Tasks /\ answered \subseteq Urls
    /\ probe \in [Probers -> [at : ProbeSteps, todo : SUBSET Services, svc : Services \cup {"none"},
                              url : Urls \cup {"none"}, up : BOOLEAN, left : 0 .. Tries]]

\* A probe that ends after its service was deleted does not bring it back
\* (set_dataplane_status updates, it does not insert).
DeletedServiceStaysDeleted ==
    [][\A s \in Services : row[s] = NoRow /\ row'[s] # NoRow => used' # used]_dpVars

Right(s) == row[s] = NoRow \/ row[s].status = IF row[s].url \in healthy THEN "online" ELSE "offline"

\* Whatever the order of registrations, deletions and late probes, in the end
\* every service that is there has the status its address deserves.
StatusFollowsHealth == []<>(\A s \in Services : Right(s))

\* An address that was never up is not offered to agents.
AddressWasProbed == Offered \subseteq answered
=============================================================================
