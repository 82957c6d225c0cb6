------------------------------- MODULE AdminApi -------------------------------
(***************************************************************************)
(* The management API of gse-server over its ledger: hosts and access      *)
(* points, agents and their specs, job templates, jobs made from templates *)
(* or from other jobs; and the start of the ledger, which moves the rows   *)
(* of the old configuration tables.  A request is a sequence of ledger     *)
(* statements, and requests run at the same time.                          *)
(*                                                                         *)
(* Source: crates/gse-server-core/src/http.rs, ledger.rs.  The checks of   *)
(* the input are in AdminInput: here a request that fails them is answered *)
(* at once.  What happens to a job is in GseJob and FileTransfer, what     *)
(* happens to a saved spec in AgentSpec.                                   *)
(***************************************************************************)
EXTENDS Naturals, Sequences, FiniteSets, SequencesExt

CONSTANTS
    Tables,       \* the tables of plain rows: hosts, access points
    Keys,         \* their primary keys
    Agents,
    Legacy,       \* the agents with rows in the old tables
    Names,        \* names of templates
    Scripts,
    Reqs,         \* the requests that can be in progress
    MaxCalls,     \* how many requests, row changes and restarts there are
    MaxTemplates, \* how many template ids are given out
    SomeJob,      \* a script job that is already there
    None

ASSUME AdminAssumption ==
    /\ Legacy \subseteq Agents /\ MaxCalls \in Nat /\ MaxTemplates \in Nat /\ SomeJob \in Scripts
    /\ None \notin {"legacy", "t1", "t2"}

VARIABLES
    boot,         \* the process: "up", "down", or the agents it still has to move
    tables,       \* hosts, access_points
    agents,       \* agents: the tokens and status of each row
    specs,        \* agent_specs
    states,       \* agent_spec_states: whether there is a row
    templates,    \* job_templates
    issued,       \* how many template ids were given out
    jobs,         \* the jobs rows, oldest first
    req,          \* the requests in progress, or how they were answered
    calls

vars == <<boot, tables, agents, specs, states, templates, issued, jobs, req, calls>>

TemplateIds == 1 .. MaxTemplates
Templates == [name : Names, script : Scripts]
Row == [rev : {1, 2}, created : 0 .. MaxCalls]
JobRows == [script : Scripts, template : TemplateIds \cup {0}, rerun : 0 .. MaxCalls]
AgentRows == [token : {"t1", "t2"}, prev : {None, "t1", "t2"}, status : {"unknown", "online"}]

Up   == [at |-> "up", todo |-> {}]
Down == [at |-> "down", todo |-> {}]

\* A request: what it does, to which object, with which body, the statement
\* that comes next, and what its UPDATE found.
Idle == [op |-> "idle", step |-> "done", id |-> None, body |-> None, hit |-> FALSE, code |-> 0]
Request(op, id, body) == [Idle EXCEPT !.op = op, !.id = id, !.body = body, !.step = "first"]

Init ==
    /\ boot = Down
    /\ tables = [t \in Tables |-> [k \in Keys |-> None]]
    /\ agents = [a \in Agents |-> None]
    /\ specs = [a \in Agents |-> None]
    /\ states = [a \in Agents |-> FALSE]
    /\ templates = [i \in TemplateIds |-> None] /\ issued = 0
    /\ jobs = <<[script |-> SomeJob, template |-> 0, rerun |-> 0]>>
    /\ req = [r \in Reqs |-> Idle]
    /\ calls = 0

Spend == calls < MaxCalls /\ calls' = calls + 1
Serving == boot = Up

-----------------------------------------------------------------------------
(* The start of the ledger                                                 *)

ToMove_Always == Legacy

ToMove == IF \E a \in Agents : specs[a] # None THEN {} ELSE Legacy

Crash ==
    /\ boot # Down /\ Spend
    /\ boot' = Down
    /\ req' = [r \in Reqs |-> Idle]
    /\ UNCHANGED <<tables, agents, specs, states, templates, issued, jobs>>

Start ==
    /\ boot = Down
    /\ boot' = [at |-> "moving", todo |-> ToMove]
    /\ UNCHANGED <<tables, agents, specs, states, templates, issued, jobs, req, calls>>

\* migrate_legacy_specs writes the specs agent by agent.
MoveLegacy ==
    /\ boot.at = "moving"
    /\ IF boot.todo = {} THEN boot' = Up /\ UNCHANGED specs
       ELSE \E a \in boot.todo : /\ boot' = [boot EXCEPT !.todo = @ \ {a}]
                                 /\ specs' = [specs EXCEPT ![a] = "legacy"]
    /\ UNCHANGED <<tables, agents, states, templates, issued, jobs, req, calls>>

-----------------------------------------------------------------------------
(* Requests of one statement                                               *)

\* On a conflict the row keeps the time it was created at.
Upsert(old, new) == IF old = None THEN new ELSE [new EXCEPT !.created = old.created]

PutRow(t, k, rev) ==
    /\ Serving /\ Spend
    /\ tables' = [tables EXCEPT ![t][k] = Upsert(@, [rev |-> rev, created |-> calls])]
    /\ UNCHANGED <<boot, agents, specs, states, templates, issued, jobs, req>>

RemoveRow(t, k) ==
    /\ Serving /\ Spend
    /\ tables[t][k] # None
    /\ tables' = [tables EXCEPT ![t][k] = None]
    /\ UNCHANGED <<boot, agents, specs, states, templates, issued, jobs, req>>

\* An agent's row is replaced, but for the previous token.
CreateAgent(a, token) ==
    /\ Serving /\ Spend
    /\ agents' = [agents EXCEPT ![a] =
          [token |-> token, prev |-> IF @ = None THEN None ELSE @.prev, status |-> "unknown"]]
    /\ UNCHANGED <<boot, tables, specs, states, templates, issued, jobs, req>>

\* The agent logs in (GseSession has all of it).
AgentOnline(a) ==
    /\ Serving /\ agents[a] # None /\ agents[a].status # "online"
    /\ agents' = [agents EXCEPT ![a].status = "online"]
    /\ UNCHANGED <<boot, tables, specs, states, templates, issued, jobs, req, calls>>

-----------------------------------------------------------------------------
(* Requests of several statements                                          *)

Inputs ==
    {Request("create_template", 0, b) : b \in Templates}
      \cup {Request("update_template", i, b) : i \in TemplateIds, b \in Templates}
      \cup {Request(op, i, None) : op \in {"delete_template", "submit_template"}, i \in TemplateIds}
      \cup {Request("save_as_template", i, n) : i \in DOMAIN jobs, n \in Names}
      \cup {Request("rerun", i, None) : i \in DOMAIN jobs}
      \cup {Request("delete_agent", a, None) : a \in Agents}
      \cup {Request("put_spec", a, v) : a \in Agents, v \in {"t1", "t2"}}
      \cup {Request("report", a, None) : a \in Agents}

\* `id` of a template is one that was given out; a report comes from an agent
\* that is registered when it is sent.
Sensible(q) ==
    /\ q.op \in {"update_template", "delete_template", "submit_template"} => templates[q.id] # None
    /\ q.op = "report" => agents[q.id] # None

Call(r) ==
    /\ Serving /\ Spend
    /\ req[r].step = "done"
    /\ \E q \in Inputs : Sensible(q) /\ req' = [req EXCEPT ![r] = q]
    /\ UNCHANGED <<boot, tables, agents, specs, states, templates, issued, jobs>>

At(r, op, step) == Serving /\ req[r].op = op /\ req[r].step = step
Goto(r, step) == req' = [req EXCEPT ![r].step = step]
Answer(r, code) == req' = [req EXCEPT ![r].step = "done", ![r].code = code]
NoAdmin == UNCHANGED <<boot, tables, agents, specs, states, calls>>

NameTaken(name, id) == \E i \in TemplateIds \ {id} : templates[i] # None /\ templates[i].name = name

-----------------------------------------------------------------------------
(* Templates                                                               *)

\* INSERT of a new row: an id never given out before.
InsertTemplate(r, t) ==
    /\ issued < MaxTemplates
    /\ IF NameTaken(t.name, 0) THEN Answer(r, 409) /\ UNCHANGED <<templates, issued>>
       ELSE /\ issued' = issued + 1
            /\ templates' = [templates EXCEPT ![issued + 1] = t]
            /\ req' = [req EXCEPT ![r].step = "readback", ![r].id = issued + 1, ![r].hit = TRUE]

CreateTemplate(r) ==
    /\ At(r, "create_template", "first")
    /\ InsertTemplate(r, req[r].body)
    /\ UNCHANGED jobs /\ NoAdmin

\* A job's script becomes a template, unless it transfers a file; the row of
\* the job is read first, and no handler changes a job's script.
SaveAsTemplate(r) ==
    /\ At(r, "save_as_template", "first")
    /\ InsertTemplate(r, [name |-> req[r].body, script |-> jobs[req[r].id].script])
    /\ UNCHANGED jobs /\ NoAdmin

\* The template of the request is looked up; what submit reads is what it runs.
LookUp(r) ==
    /\ \E op \in {"update_template", "delete_template", "submit_template"} : At(r, op, "first")
    /\ IF templates[req[r].id] = None THEN Answer(r, 404)
       ELSE IF req[r].op = "submit_template"
         THEN req' = [req EXCEPT ![r].step = "write", ![r].body = templates[req[r].id].script]
       ELSE Goto(r, "write")
    /\ UNCHANGED <<templates, issued, jobs>> /\ NoAdmin

\* UPDATE ... WHERE template_id: it may find no row, and that is no error.
UpdateTemplate(r) ==
    /\ At(r, "update_template", "write")
    /\ IF templates[req[r].id] = None THEN Goto(r, "readback") /\ UNCHANGED templates
       ELSE IF NameTaken(req[r].body.name, req[r].id) THEN Answer(r, 409) /\ UNCHANGED templates
       ELSE /\ templates' = [templates EXCEPT ![req[r].id] = req[r].body]
            /\ req' = [req EXCEPT ![r].step = "readback", ![r].hit = TRUE]
    /\ UNCHANGED <<issued, jobs>> /\ NoAdmin

\* The row is read again for the answer.
Found(id) == templates[id] # None

ReadBack(r) ==
    /\ \E op \in {"create_template", "save_as_template", "update_template"} : At(r, op, "readback")
    /\ Answer(r, IF Found(req[r].id) THEN 200
                 ELSE IF req[r].op = "update_template" THEN 404 ELSE 500)
    /\ UNCHANGED <<templates, issued, jobs>> /\ NoAdmin

DeleteTemplate(r) ==
    /\ At(r, "delete_template", "write")
    /\ templates' = [templates EXCEPT ![req[r].id] = None]
    /\ Answer(r, 200)
    /\ UNCHANGED <<issued, jobs>> /\ NoAdmin

\* The job row says which template it is from, also when that is gone by now.
SubmitTemplate(r) ==
    /\ At(r, "submit_template", "write")
    /\ jobs' = Append(jobs, [script |-> req[r].body, template |-> req[r].id, rerun |-> 0])
    /\ Answer(r, 200)
    /\ UNCHANGED <<templates, issued>> /\ NoAdmin

Rerun(r) ==
    /\ At(r, "rerun", "first")
    /\ jobs' = Append(jobs, [script |-> jobs[req[r].id].script, template |-> 0, rerun |-> req[r].id])
    /\ Answer(r, 200)
    /\ UNCHANGED <<templates, issued>> /\ NoAdmin

-----------------------------------------------------------------------------
(* Agents and their specs                                                  *)

DeleteAgent(r) ==
    /\ \/ /\ At(r, "delete_agent", "first") /\ Goto(r, "spec")
          /\ agents' = [agents EXCEPT ![req[r].id] = None]
          /\ UNCHANGED <<specs, states>>
       \/ /\ At(r, "delete_agent", "spec") /\ Goto(r, "state")
          /\ specs' = [specs EXCEPT ![req[r].id] = None]
          /\ UNCHANGED <<agents, states>>
       \/ /\ At(r, "delete_agent", "state") /\ Answer(r, 200)
          /\ states' = [states EXCEPT ![req[r].id] = FALSE]
          /\ UNCHANGED <<agents, specs>>
    /\ UNCHANGED <<boot, tables, templates, issued, jobs, calls>>

\* The agent is looked up, its spec written; if the token of its row is then
\* another one, that one is kept as the previous token.
PutSpec(r) ==
    /\ \/ /\ At(r, "put_spec", "first")
          /\ IF agents[req[r].id] = None THEN Answer(r, 404) ELSE Goto(r, "write")
          /\ UNCHANGED <<agents, specs>>
       \/ /\ At(r, "put_spec", "write") /\ Goto(r, "token")
          /\ specs' = [specs EXCEPT ![req[r].id] = req[r].body]
          /\ UNCHANGED agents
       \/ /\ At(r, "put_spec", "token")
          /\ IF agents[req[r].id] = None \/ agents[req[r].id].token = req[r].body
               THEN Answer(r, 200) ELSE Goto(r, "rotate")
          /\ UNCHANGED <<agents, specs>>
       \/ /\ At(r, "put_spec", "rotate") /\ Answer(r, 200)
          /\ agents' = [agents EXCEPT ![req[r].id] =
                IF @ = None THEN None ELSE [@ EXCEPT !.prev = agents[req[r].id].token, !.token = req[r].body]]
          /\ UNCHANGED specs
    /\ UNCHANGED <<boot, tables, states, templates, issued, jobs, calls>>

\* The report of an agent that has logged in: compared with the stored one and
\* with the spec, then stored.
Report(r) ==
    /\ At(r, "report", "first")
    /\ states' = [states EXCEPT ![req[r].id] = TRUE]
    /\ Answer(r, 200)
    /\ UNCHANGED <<boot, tables, agents, specs, templates, issued, jobs, calls>>

-----------------------------------------------------------------------------

TemplateStep(r) ==
    CreateTemplate(r) \/ SaveAsTemplate(r) \/ LookUp(r) \/ UpdateTemplate(r) \/ ReadBack(r)
      \/ DeleteTemplate(r) \/ SubmitTemplate(r) \/ Rerun(r)
AgentRowStep(r) == DeleteAgent(r) \/ PutSpec(r) \/ Report(r)

Next ==
    \/ Crash \/ Start \/ MoveLegacy
    \/ \E t \in Tables, k \in Keys : RemoveRow(t, k) \/ \E rev \in {1, 2} : PutRow(t, k, rev)
    \/ \E a \in Agents : AgentOnline(a) \/ \E token \in {"t1", "t2"} : CreateAgent(a, token)
    \/ \E r \in Reqs : Call(r) \/ TemplateStep(r) \/ AgentRowStep(r)

Spec == Init /\ [][Next]_vars

-----------------------------------------------------------------------------
(* Properties                                                              *)

AdminTypeOK ==
    /\ boot.at \in {"up", "down", "moving"} /\ boot.todo \subseteq Legacy
    /\ tables \in [Tables -> [Keys -> Row \cup {None}]]
    /\ agents \in [Agents -> AgentRows \cup {None}]
    /\ specs \in [Agents -> {None, "legacy", "t1", "t2"}] /\ states \in [Agents -> BOOLEAN]
    /\ templates \in [TemplateIds -> Templates \cup {None}] /\ issued \in 0 .. MaxTemplates
    /\ \A i \in DOMAIN jobs : jobs[i] \in JobRows
    /\ calls \in 0 .. MaxCalls

\* Whichever requests overlap, a template that was answered as updated was
\* updated, although the UPDATE itself does not say whether it found a row.
UpdateAnsweredWasDone ==
    \A r \in Reqs : req[r].op = "update_template" /\ req[r].step = "done" /\ req[r].code = 200 => req[r].hit

\* Starting the server, also after a crash half-way through, does not replace a
\* spec somebody saved by the one of the old tables.
StartKeepsSpecs == [][\A a \in Agents : specs[a] \in {"t1", "t2"} => specs'[a] # "legacy"]_vars

Settled == boot = Up /\ \A r \in Reqs : req[r].step = "done"

\* After an agent was deleted, and every request answered, nothing of it is left.
DeletedAgentLeavesNothing ==
    Settled => \A a \in Agents : agents[a] = None /\ a \notin Legacy => specs[a] = None /\ ~states[a]
=============================================================================
