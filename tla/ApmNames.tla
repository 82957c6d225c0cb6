-------------------------------- MODULE ApmNames --------------------------------
(***************************************************************************)
(* Where the dataserver takes a service name from: the table of static     *)
(* aliases, read through a cache that writers invalidate by a version      *)
(* number, and the table of endpoints, filled from the spans it ingests.   *)
(* The writers, the lookups and the other statements share one connection  *)
(* to sqlite.                                                              *)
(*                                                                         *)
(* Source: crates/dataplane-apm/src/alias.rs (upsert_alias, delete_alias,  *)
(* affected_rows, AliasCache), endpoint.rs (EndpointRegistry), sink.rs,    *)
(* bins/dataserver/src/http.rs (alias_create, alias_update, alias_delete). *)
(* The alias table stands for its revision: how often it has changed.      *)
(***************************************************************************)
EXTENDS Naturals, FiniteSets

CONSTANTS
    Editors,      \* requests that change the aliases, one at a time each
    Lookups,      \* lookups under way
    Instances,    \* endpoints
    MaxRevisions, \* bound: changes of the alias table
    MaxVersions,  \* bound: invalidations of the cache
    MaxSightings, \* bound: times an endpoint is seen
    MaxNameFaults \* bound: requests dropped, upserts failed, crashes

ASSUME NamesAssumption ==
    /\ IsFiniteSet(Editors) /\ IsFiniteSet(Lookups) /\ IsFiniteSet(Instances)
    /\ {MaxRevisions, MaxVersions, MaxSightings, MaxNameFaults} \subseteq Nat

VARIABLES
    revision,   \* apm_service_alias: changes so far
    present,    \* apm_service_alias: is the row there
    changes,    \* what SELECT changes() gives on the connection
    version,    \* AliasCache::version
    loaded,     \* AliasCache::loaded: a version and a revision
    editor,     \* what each request does next
    lookup,     \* what each lookup does next
    answered,   \* ghost: the last revision a request answered for
    dirty,      \* EndpointRegistry: last sighting not yet flushed; 0: none
    taken,      \* what flush has taken and not written
    endpoint,   \* apm_service_endpoint: last_seen_ts
    seen,       \* ghost: the last sighting
    dropped,    \* ghost: endpoints whose sighting went with an error or a crash
    nameFaults

aliasVars    == <<revision, present, changes, version, loaded, editor, lookup, answered>>
endpointVars == <<dirty, taken, endpoint, seen, dropped>>
nameVars     == <<aliasVars, endpointVars, nameFaults>>

Revisions == 0 .. MaxRevisions
NotLoaded == [version |-> MaxVersions + 1, revision |-> 0]
Waiting   == [step |-> "waiting", hit |-> FALSE, revision |-> 0]
NoLookup  == [step |-> "waiting", version |-> 0, revision |-> 0, floor |-> 0]
Unseen    == [i \in Instances |-> 0]

NamesTypeOK ==
    /\ revision \in Revisions /\ present \in BOOLEAN /\ changes \in 0 .. 1
    /\ version \in 0 .. MaxVersions /\ answered \in Revisions
    /\ loaded \in [version : 0 .. MaxVersions + 1, revision : Revisions]
    /\ editor \in [Editors -> [step : {"waiting", "put", "deleted", "counted"}, hit : BOOLEAN,
                               revision : Revisions]]
    /\ lookup \in [Lookups -> [step : {"waiting", "read", "listed", "found"}, version : 0 .. MaxVersions,
                               revision : Revisions, floor : Revisions]]
    /\ {dirty, taken, endpoint, seen} \subseteq [Instances -> 0 .. MaxSightings]
    /\ dropped \subseteq Instances /\ nameFaults \in 0 .. MaxNameFaults

NamesInit ==
    /\ revision = 0 /\ present = FALSE /\ changes = 0 /\ version = 0
    /\ loaded = NotLoaded /\ answered = 0
    /\ editor = [w \in Editors |-> Waiting] /\ lookup = [r \in Lookups |-> NoLookup]
    /\ dirty = Unseen /\ taken = Unseen /\ endpoint = Unseen /\ seen = Unseen
    /\ dropped = {} /\ nameFaults = 0

NameFault == nameFaults < MaxNameFaults /\ nameFaults' = nameFaults + 1

-----------------------------------------------------------------------------
(* The alias handlers                                                      *)

CanStart(w) ==
    /\ editor[w] = Waiting
    /\ revision < MaxRevisions /\ version + Cardinality(Editors) <= MaxVersions

PutAlias(w) ==
    /\ CanStart(w)
    /\ revision' = revision + 1 /\ present' = TRUE /\ changes' = 1
    /\ editor' = [editor EXCEPT ![w] = [step |-> "put", hit |-> TRUE, revision |-> revision + 1]]
    /\ UNCHANGED <<version, loaded, lookup, answered, endpointVars, nameFaults>>

DeleteAlias(w) ==
    /\ CanStart(w)
    /\ IF present
         THEN revision' = revision + 1 /\ present' = FALSE /\ changes' = 1
         ELSE changes' = 0 /\ UNCHANGED <<revision, present>>
    /\ editor' = [editor EXCEPT ![w] = [step |-> "deleted", hit |-> FALSE, revision |-> revision']]
    /\ UNCHANGED <<version, loaded, lookup, answered, endpointVars, nameFaults>>

\* The count is that of the connection's last statement, whosever it was.
CountChanges(w) ==
    /\ editor[w].step = "deleted"
    /\ editor' = [editor EXCEPT ![w].step = "counted", ![w].hit = changes > 0]
    /\ UNCHANGED <<revision, present, changes, version, loaded, lookup, answered, endpointVars, nameFaults>>

Invalidated_Never == version

Invalidated == version + 1

Changed(w) ==
    /\ editor[w].step \in {"put", "counted"} /\ editor[w].hit
    /\ version' = Invalidated
    /\ answered' = IF editor[w].revision > answered THEN editor[w].revision ELSE answered
    /\ editor' = [editor EXCEPT ![w] = Waiting]
    /\ UNCHANGED <<revision, present, changes, loaded, lookup, endpointVars, nameFaults>>

NotFound(w) ==
    /\ editor[w].step = "counted" /\ ~editor[w].hit
    /\ editor' = [editor EXCEPT ![w] = Waiting]
    /\ UNCHANGED <<revision, present, changes, version, loaded, lookup, answered, endpointVars, nameFaults>>

\* The caller hangs up: the handler ends at its await, the statement has run.
HangUp(w) ==
    /\ editor[w] # Waiting /\ NameFault
    /\ editor' = [editor EXCEPT ![w] = Waiting]
    /\ UNCHANGED <<revision, present, changes, version, loaded, lookup, answered, endpointVars>>

-----------------------------------------------------------------------------
(* AliasCache::snapshot                                                    *)

BeginLookup(r) ==
    /\ lookup[r] = NoLookup
    /\ lookup' = [lookup EXCEPT ![r] =
           IF loaded.version = version
             THEN [step |-> "found", version |-> version, revision |-> loaded.revision, floor |-> answered]
             ELSE [step |-> "read", version |-> version, revision |-> 0, floor |-> answered]]
    /\ UNCHANGED <<revision, present, changes, version, loaded, editor, answered, endpointVars, nameFaults>>

ListAliases(r) ==
    /\ lookup[r].step = "read"
    /\ lookup' = [lookup EXCEPT ![r].step = "listed", ![r].revision = revision]
    /\ UNCHANGED <<revision, present, changes, version, loaded, editor, answered, endpointVars, nameFaults>>

VersionLoaded(r) == lookup[r].version

StoreLoaded(r) ==
    /\ lookup[r].step = "listed"
    /\ loaded' = [version |-> VersionLoaded(r), revision |-> lookup[r].revision]
    /\ lookup' = [lookup EXCEPT ![r].step = "found"]
    /\ UNCHANGED <<revision, present, changes, version, editor, answered, endpointVars, nameFaults>>

EndLookup(r) ==
    /\ lookup[r].step = "found"
    /\ lookup' = [lookup EXCEPT ![r] = NoLookup]
    /\ UNCHANGED <<revision, present, changes, version, loaded, editor, answered, endpointVars, nameFaults>>

\* The cache is as old as its ttl.
CacheExpires ==
    /\ loaded # NotLoaded /\ loaded' = NotLoaded
    /\ UNCHANGED <<revision, present, changes, version, editor, lookup, answered, endpointVars, nameFaults>>

-----------------------------------------------------------------------------
(* EndpointRegistry                                                        *)

ObserveEndpoint(i) ==
    /\ seen[i] < MaxSightings
    /\ seen' = [seen EXCEPT ![i] = @ + 1] /\ dirty' = [dirty EXCEPT ![i] = seen[i] + 1]
    /\ dropped' = dropped \ {i}
    /\ UNCHANGED <<aliasVars, taken, endpoint, nameFaults>>

TakeDirty ==
    /\ dirty # Unseen /\ taken = Unseen
    /\ taken' = dirty /\ dirty' = Unseen
    /\ UNCHANGED <<aliasVars, endpoint, seen, dropped, nameFaults>>

RowWritten(i) == taken[i]

UpsertEndpoint(i) ==
    /\ taken[i] > 0
    /\ endpoint' = [endpoint EXCEPT ![i] = RowWritten(i)] /\ taken' = [taken EXCEPT ![i] = 0]
    /\ changes' = 1
    /\ UNCHANGED <<revision, present, version, loaded, editor, lookup, answered, dirty, seen, dropped, nameFaults>>

\* A failed upsert is logged and not tried again.
UpsertFails(i) ==
    /\ taken[i] > 0 /\ NameFault
    /\ taken' = [taken EXCEPT ![i] = 0]
    /\ dropped' = IF dirty[i] = 0 THEN dropped \cup {i} ELSE dropped
    /\ UNCHANGED <<aliasVars, dirty, endpoint, seen>>

\* Any other INSERT, UPDATE or DELETE on the connection.
AnotherStatement ==
    /\ \E w \in Editors : editor[w].step = "deleted"
    /\ changes' \in 0 .. 1
    /\ UNCHANGED <<revision, present, version, loaded, editor, lookup, answered, endpointVars, nameFaults>>

CrashNames ==
    /\ NameFault
    /\ version' = 0 /\ loaded' = NotLoaded /\ changes' = 0
    /\ editor' = [w \in Editors |-> Waiting] /\ lookup' = [r \in Lookups |-> NoLookup]
    /\ dirty' = Unseen /\ taken' = Unseen
    /\ dropped' = dropped \cup {i \in Instances : dirty[i] > 0 \/ taken[i] > 0}
    /\ UNCHANGED <<revision, present, answered, endpoint, seen>>

NamesNext ==
    \/ \E w \in Editors : \/ PutAlias(w) \/ DeleteAlias(w) \/ CountChanges(w)
                          \/ Changed(w) \/ NotFound(w) \/ HangUp(w)
    \/ \E r \in Lookups : BeginLookup(r) \/ ListAliases(r) \/ StoreLoaded(r) \/ EndLookup(r)
    \/ \E i \in Instances : ObserveEndpoint(i) \/ UpsertEndpoint(i) \/ UpsertFails(i)
    \/ TakeDirty \/ CacheExpires \/ AnotherStatement \/ CrashNames

NamesSpec == NamesInit /\ [][NamesNext]_nameVars

-----------------------------------------------------------------------------

\* A lookup that begins after a change of the aliases was answered sees it,
\* whatever lookups and changes ran beside it ("writes and deletes invalidate
\* the cache at once", alias.rs:9).
AnsweredAliasIsSeen ==
    \A r \in Lookups : lookup[r].step = "found" => lookup[r].revision >= lookup[r].floor

\* The last sighting of an endpoint is waiting, in the flush or in the table,
\* unless an engine error or a crash took it.
SightingsAreKept ==
    \A i \in Instances \ dropped : seen[i] \in {dirty[i], taken[i], endpoint[i]}

\* What was answered about an alias or seen of an endpoint is there for the
\* lookups and the flushes that follow.
NamesAreKept == AnsweredAliasIsSeen /\ SightingsAreKept
=============================================================================
