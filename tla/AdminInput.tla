----------------------------- MODULE AdminInput -----------------------------
(***************************************************************************)
(* What the management API of gse-server makes of its input: secrets,      *)
(* collect items, the difference of two specs, templates, reruns.  Pure    *)
(* functions, compared with what the agent makes of the same input and     *)
(* with each other.                                                        *)
(*                                                                         *)
(* Source: crates/gse-server-core/src/http.rs, spec.rs, template.rs,       *)
(* rerun.rs, config.rs; for the agent's side crates/gse-agent-ebpf/src/    *)
(* config.rs and crates/gse-agent-core/src/collect/otlp.rs, config.rs.     *)
(***************************************************************************)
EXTENDS Integers, Sequences, FiniteSets, SequencesExt

Ok(v) == [ok |-> TRUE, value |-> v]
Err   == [ok |-> FALSE, value |-> ""]

-----------------------------------------------------------------------------
(* Secrets.  A stored one is "none" or a string; a field of a request is   *)
(* "absent", "null" or a string.                                           *)

MASK == "***"
IsSet(v) == v \notin {"none", ""}

MaskSecret(v) == IF IsSet(v) THEN MASK ELSE ""

MergeSecret(in, old) ==
    CASE in = "absent" -> Ok(old)
      [] in = "null" -> Ok("none")
      [] in = MASK /\ ~IsSet(old) -> Err
      [] in \in {MASK, ""} -> Ok(old)
      [] OTHER -> Ok(in)

\* Bearer, or Basic with any user; the password must be the same.
PasswordMatches(header, expected) ==
    header.scheme \in {"bearer", "basic"} /\ header.password = expected

\* Without a password everybody may.
Admitted(header, expected) == expected = "" \/ PasswordMatches(header, expected)

-----------------------------------------------------------------------------
(* Collect items                                                           *)

EbpfKinds == {"ebpf_network", "ebpf_tcp", "ebpf_process", "ebpf_syscall"}
ItemKinds == EbpfKinds \cup {"metrics_host", "log_file", "log_k8s_stdout", "apm_otlp"}

\* A key of the collector that is missing, or not of the type it is read as.
Unset   == -1
InRange_FromZero(v, lo, hi) == v = Unset \/ v \in 0 .. hi

InRange(v, lo, hi) == v = Unset \/ v \in lo .. hi

\* `lists` are the key's lists of strings, `ports` its lists of ports.
KindAccepts(kind, c) ==
    CASE kind = "log_file" -> c.patterns
      [] kind = "apm_otlp" -> /\ c.lists \in {"unset", "strings"}
                              /\ InRange(c.batch, 1, 5000) /\ InRange(c.flush, 1, 60)
      [] kind \in EbpfKinds -> /\ c.lists \in {"unset", "strings"}
                               /\ InRange(c.port, 0, 65535)
                               /\ InRange(c.bucket, 1, 60) /\ InRange(c.flush, 1, 60)
                               /\ InRange(c.ratio, 0, 100)    \* in percent
      [] kind = "log_k8s_stdout" -> c.namespace /\ c.pattern
      [] OTHER -> TRUE

BuildItem(in, freshId) ==
    IF in.name = "" \/ in.kind \notin ItemKinds \/ ~KindAccepts(in.kind, in.collector) THEN Err
    ELSE Ok([id |-> IF in.id = "" THEN freshId ELSE in.id, kind |-> in.kind, collector |-> in.collector,
             retention |-> IF in.retention > 0 THEN in.retention ELSE 1])

Clamp(v, lo, hi, default) ==
    IF v = Unset THEN default ELSE IF v < lo THEN lo ELSE IF v > hi THEN hi ELSE v

\* What the agent runs: EbpfConfig::from_value, OtlpConfig::from_item.
AgentRuns(kind, c) ==
    IF kind = "apm_otlp" THEN [batch |-> Clamp(c.batch, 1, 5000, 100), flush |-> Clamp(c.flush, 1, 60, 5)]
    ELSE [bucket |-> Clamp(c.bucket, 1, 60, 10), flush |-> Clamp(c.flush, 1, 60, 10),
          ratio |-> Clamp(c.ratio, 0, 100, 1), port |-> IF c.port > 65535 THEN Unset ELSE c.port]

\* A third of the time after which an agent counts as silent.
MaxHeartbeat(timeout) == IF timeout \div 3 >= 1 THEN timeout \div 3 ELSE 1

Distinct(items) == \A i, j \in DOMAIN items : i # j => items[i].id # items[j].id

ValidSpec(spec, timeout) ==
    /\ spec.heartbeat \in 1 .. MaxHeartbeat(timeout)
    /\ \A i \in DOMAIN spec.items : spec.items[i].id # "" /\ spec.items[i].kind \in ItemKinds
    /\ Distinct(spec.items)

-----------------------------------------------------------------------------
(* Desired and applied                                                     *)

Secrets == {"token", "otlp_token"}
Param(params, k) == IF k \in DOMAIN params THEN params[k] ELSE "null"
Ids(items) == {items[i].id : i \in DOMAIN items}
\* The last of equal ids counts.
Item(items, id) == items[CHOOSE i \in DOMAIN items :
    items[i].id = id /\ \A j \in DOMAIN items : items[j].id = id => j <= i]

SpecDiff(desired, applied) ==
    [params |-> {k \in DOMAIN desired.params \ Secrets : desired.params[k] # Param(applied.params, k)},
     added |-> Ids(desired.items) \ Ids(applied.items),
     removed |-> Ids(applied.items) \ Ids(desired.items),
     changed |-> {id \in Ids(desired.items) \cap Ids(applied.items) :
                    Item(desired.items, id) # Item(applied.items, id)}]

NoDiff == [params |-> {}, added |-> {}, removed |-> {}, changed |-> {}]

SyncStatus(desired, state) ==
    CASE state = "none" -> "unknown"
      [] state = "rejected" -> "rejected"
      [] desired = "none" -> "unspecified"
      [] desired = state -> "synced"
      [] OTHER -> "stale"

-----------------------------------------------------------------------------
(* Templates.  A text is a sequence of pieces: plain text, a placeholder,  *)
(* a placeholder with a bad name, or one that is not closed.               *)

Plain(v) == [k |-> "text", v |-> v]
Var(v)   == [k |-> "var", v |-> v]
Size(text) == Len(text)

VarNames(text) == {text[i].v : i \in {j \in DOMAIN text : text[j].k = "var"}}
WellFormed(text) == \A i \in DOMAIN text : text[i].k \in {"text", "var"}

\* The places of a template with placeholders in them.
Texts(t) == <<t.script>> \o t.args \o t.env \o t.dir

Variables(t) == UNION {VarNames(Texts(t)[i]) : i \in DOMAIN Texts(t)}

ValidTemplate(t, cfg) ==
    /\ t.name # "" /\ t.script # <<>>
    /\ Size(t.script) <= cfg.maxScript
    /\ t.timeout \in 1 .. cfg.maxTimeout
    /\ \A i \in DOMAIN Texts(t) : WellFormed(Texts(t)[i])

\* One pass: what a value contains is not expanded again.
Substitute(text, vals) ==
    IF ~WellFormed(text) \/ ~(VarNames(text) \subseteq DOMAIN vals) THEN Err
    ELSE Ok(FlattenSeq([i \in DOMAIN text |-> IF text[i].k = "var" THEN vals[text[i].v] ELSE <<text[i]>>]))

SubstituteAll(texts, vals) == [i \in DOMAIN texts |-> Substitute(texts[i], vals)]

Expand(t, vals, cfg) ==
    LET script == Substitute(t.script, vals)
        rest   == SubstituteAll(t.args \o t.env \o t.dir, vals)
    IN IF /\ ValidTemplate(t, cfg) /\ script.ok /\ \A i \in DOMAIN rest : rest[i].ok
          /\ Size(script.value) <= cfg.maxScript
         THEN Ok([script |-> script.value, rest |-> [i \in DOMAIN rest |-> rest[i].value]])
         ELSE Err

-----------------------------------------------------------------------------
(* Reruns.  A field that is left out is "absent".                          *)

Or(given, default) == IF given = "absent" THEN default ELSE given

BuildRerun(source, req) ==
    [kind   |-> "script",
     agent  |-> IF req.agent \in {"absent", ""} THEN source.agent ELSE req.agent,
     script |-> Or(req.script, source.script),
     dir    |-> IF req.dir = "" THEN "none" ELSE Or(req.dir, source.dir)]

-----------------------------------------------------------------------------
(* Lists, views and settings                                               *)

\* A setting of the file, or of the environment if that can be read as one.
Setting(type, env, file) ==
    CASE env = "absent" -> file
      [] type = "number" /\ env \notin Nat -> file
      [] type = "flag" -> env \in {"1", "true"}
      [] OTHER -> env

\* How many rows a list shows.
Page(limit) == Clamp(limit, 1, 1000, 200)

\* Jobs, newest first: of an agent that runs it, sends or receives its file.
ListJobs(rows, agent, status, limit) ==
    LET wanted == SelectSeq(rows, LAMBDA j : /\ agent = "any" \/ agent \in {j.agent, j.source, j.dest}
                                             /\ status \in {"any", j.status})
    IN SubSeq(Reverse(wanted), 1, IF Len(wanted) < Page(limit) THEN Len(wanted) ELSE Page(limit))

\* Two opinions on an agent: the row's, which heartbeats keep, and the
\* session's, which is what dispatching a job goes by.
AgentView(row, session) ==
    [status |-> row.status, session |-> session, jobs |-> session = "online"]

\* `desired` and `applied` are functions on the agents that have such a row.
SpecView(a, desired, applied) ==
    [agent |-> a,
     sync  |-> SyncStatus(IF a \in DOMAIN desired THEN desired[a] ELSE "none",
                          IF a \in DOMAIN applied THEN applied[a] ELSE "none")]

\* Agents, and specs whose agent is gone.
SpecViews(agents, desired, applied) ==
    {SpecView(a, desired, applied) : a \in agents \cup DOMAIN desired}

-----------------------------------------------------------------------------
(* Properties over small inputs                                            *)

\* Who writes back what the API showed keeps the secret.
MaskedSecretsAreKept ==
    \A v \in {"none", "", "s1"} : LET shown == MaskSecret(v) IN
        shown # "s1" /\ MergeSecret(shown, v) = Ok(v)

\* What the server accepts of a collector, the agent runs as it was given: the
\* two checks, written twice, agree.
Numbers == {Unset, 0, 1, 60, 61, 5000, 5001, 65535, 65536}
Collectors == [lists : {"strings"}, batch : Numbers, flush : Numbers, bucket : Numbers, port : Numbers,
               ratio : {Unset, 0, 100, 101}]
AcceptedIsRun ==
    \A kind \in {"apm_otlp", "ebpf_tcp"}, c \in Collectors :
        KindAccepts(kind, c) => LET run == AgentRuns(kind, c) IN
            \A k \in DOMAIN run : c[k] # Unset => run[k] = c[k]

\* An accepted heartbeat interval lets an agent miss two beats.
HeartbeatsFitWindow ==
    \A timeout \in 3 .. 30 : \A h \in 1 .. timeout :
        ValidSpec([heartbeat |-> h, items |-> <<>>], timeout) => 3 * h <= timeout

SmallItems == {<<>>} \cup {<<a>> : a \in [id : {"i", "j"}, body : {1, 2}]}
                \cup {<<a, b>> : a \in [id : {"i"}, body : {1, 2}], b \in [id : {"j"}, body : {1, 2}]}
SmallSpecs == [params : [{"level", "token"} -> {"a", "b"}], items : SmallItems]

\* There is no difference exactly if nothing but secrets differs, and then it
\* names each item that does.
DiffTellsDrift ==
    \A d, a \in SmallSpecs :
        /\ SpecDiff(d, a) = NoDiff <=> d.params["level"] = a.params["level"] /\ d.items = a.items
        /\ SpecDiff(d, a).removed = SpecDiff(a, d).added

SmallTexts == {<<Plain("x")>>, <<Var("a")>>, <<Plain("x"), Var("b")>>}
SmallTemplates == [name : {"t"}, script : SmallTexts, args : {<<>>} \cup {<<x>> : x \in SmallTexts}, env : {<<>>},
                   dir : {<<>>} \cup {<<x>> : x \in SmallTexts}, timeout : {1}]
SmallValues == UNION {[S -> {<<>>, <<Plain("y")>>, <<Var("a")>>}] : S \in SUBSET {"a", "b"}}

\* A template that was accepted is expanded if all its variables are given, and
\* each value stands where its variable was.
AcceptedExpands ==
    \A t \in SmallTemplates, vals \in SmallValues :
        LET cfg == [maxScript |-> 2, maxTimeout |-> 1] e == Expand(t, vals, cfg) IN
            ValidTemplate(t, cfg) /\ Variables(t) \subseteq DOMAIN vals =>
                /\ e.ok
                /\ VarNames(e.value.script) \subseteq UNION {VarNames(vals[n]) : n \in DOMAIN vals}

\* What should run somewhere and does not is seen: no desired spec is missing
\* from the list, and it is called synced only if it is what was applied.
ListsShowDrift ==
    \A agents \in SUBSET {"a", "b"}, with \in SUBSET {"a", "b"}, done \in SUBSET {"a", "b"} :
        \A desired \in [with -> {"r1", "r2"}], applied \in [done -> {"r1", "rejected"}] :
            LET shown == SpecViews(agents, desired, applied) IN
                /\ \A a \in with : \E v \in shown : v.agent = a
                /\ \A v \in shown : v.sync = "synced" <=>
                        v.agent \in with \cap done /\ desired[v.agent] = applied[v.agent]

\* The conversions of the management API and of the agent fit each other.
AdminInputAgrees ==
    MaskedSecretsAreKept /\ AcceptedIsRun /\ HeartbeatsFitWindow /\ DiffTellsDrift /\ AcceptedExpands
      /\ ListsShowDrift

\* "a rerun as it is": the kind of the job too.
RerunIsTheSameJob ==
    \A job \in [kind : {"script", "agent_upgrade"}, agent : {"a1"}, script : {"s"}, dir : {"none", "/d"}] :
        BuildRerun(job, [agent |-> "absent", script |-> "absent", dir |-> "absent"]) = job
=============================================================================
